----------------------------- MODULE CrawlRuntime -----------------------------
(***************************************************************************)
(* Crawl workers (runtime-worker/src/main.rs, run_worker and process_next) *)
(* around the queue, the crawler command and the page-ingest API.          *)
(*                                                                         *)
(* A worker process reaps, leases, crawls, posts the page and settles, and *)
(* may die anywhere in between: an error of the database or a lost lease   *)
(* ends the process, ctrl-c drops the iteration where it stands.  The API  *)
(* may accept a posted page at any time after it was sent, also when the   *)
(* worker has given up on the answer.                                      *)
(***************************************************************************)
EXTENDS CrawlQueue

CONSTANTS
  Worker,       \* worker processes
  Once,         \* those started with --once
  LeaseSeconds, \* lease_seconds of each
  CrawlTimeout, \* crawl_timeout_seconds
  ApiTimeout,   \* api_timeout_seconds
  DbPatience    \* how long a settlement waits for the database: no timeout in
                \* the code, so an assumption about the deployment

ASSUME RuntimeAssumption ==
  /\ Null \notin Worker
  /\ Once \subseteq Worker
  /\ LeaseSeconds \in [Worker -> LeaseTime]
  /\ CrawlTimeout \in Nat /\ ApiTimeout \in Nat /\ DbPatience \in Nat

VARIABLES
  pc,    \* where process_next of each worker stands
  mine,  \* the lease a worker works for, or Null
  since, \* when a worker entered its phase
  sent,  \* the attempts whose page was posted to the API
  pages  \* the attempts whose page the API accepted

workerVars == <<pc, mine, since>>
runtimeVars == <<now, jobs, attempts, handles, pc, mine, since, sent, pages>>

Phase == {"reap", "lease", "crawl", "ingest", "complete", "fail", "idle", "stopped"}
Working == {"crawl", "ingest", "complete", "fail"}

RuntimeTypeOK ==
  /\ pc \in [Worker -> Phase]
  /\ mine \in [Worker -> Token \cup {Null}]
  /\ since \in [Worker -> Nat]
  /\ sent \subseteq Token
  /\ pages \subseteq sent
  /\ \A w \in Worker : mine[w] # Null <=> pc[w] \in Working

-----------------------------------------------------------------------------

Goto(w, phase) ==
  /\ pc' = [pc EXCEPT ![w] = phase]
  /\ since' = [since EXCEPT ![w] = IF phase \in Working THEN now ELSE 0]

\* process_next is over: --once leaves the loop, an idle worker sleeps.
Finish(w, processed) ==
  /\ Goto(w, IF w \in Once THEN "stopped" ELSE IF processed THEN "reap" ELSE "idle")
  /\ mine' = [mine EXCEPT ![w] = Null]

RuntimeInit ==
  /\ Init
  /\ pc = [w \in Worker |-> "stopped"]
  /\ mine = [w \in Worker |-> Null]
  /\ since = [w \in Worker |-> 0]
  /\ sent = {}
  /\ pages = {}

Start(w) ==
  /\ pc[w] = "stopped"
  /\ Goto(w, "reap")
  /\ UNCHANGED <<now, jobs, attempts, handles, mine, sent, pages>>

\* Crash, ctrl-c, or an error of the database in reap, lease or settlement,
\* before the transaction or (one step later) after it.
Stop(w) ==
  /\ pc[w] # "stopped"
  /\ Goto(w, "stopped")
  /\ mine' = [mine EXCEPT ![w] = Null]
  /\ UNCHANGED <<now, jobs, attempts, handles, sent, pages>>

WorkerReap(w) ==
  /\ pc[w] = "reap"
  /\ ReapAny
  /\ Goto(w, "lease")
  /\ UNCHANGED <<mine, sent, pages>>

WorkerLease(w) ==
  /\ pc[w] = "lease"
  /\ \E l \in Token, locked \in SUBSET Job, ts \in Timestamp :
       Lease(l, LeaseSeconds[w], locked, ts) /\ mine' = [mine EXCEPT ![w] = l]
  /\ Goto(w, "crawl")
  /\ UNCHANGED <<sent, pages>>

NothingDue(w) ==
  /\ pc[w] = "lease"
  /\ \E locked \in SUBSET Job, ts \in Timestamp : Candidates(locked, ts) = {}
  /\ Finish(w, FALSE)
  /\ UNCHANGED <<now, jobs, attempts, handles, sent, pages>>

Wake(w) ==
  /\ pc[w] = "idle"
  /\ Goto(w, "reap")
  /\ UNCHANGED <<now, jobs, attempts, handles, mine, sent, pages>>

\* The crawler command answered with a page that validates, and it is posted.
Crawled(w) ==
  /\ pc[w] = "crawl"
  /\ Goto(w, "ingest")
  /\ sent' = sent \cup {mine[w]}
  /\ UNCHANGED <<now, jobs, attempts, handles, mine, pages>>

\* The command failed, timed out or answered nonsense; or the API did, whether
\* or not it accepted the page.
GaveUp(w) ==
  /\ pc[w] \in {"crawl", "ingest"}
  /\ Goto(w, "fail")
  /\ UNCHANGED <<now, jobs, attempts, handles, mine, sent, pages>>

Accept(l) ==
  /\ l \in sent \ pages
  /\ pages' = pages \cup {l}
  /\ UNCHANGED <<now, jobs, attempts, handles, pc, mine, since, sent>>

\* Mutant of Receipt: any answer of the API counts as acceptance.
Receipt_AnyAnswer(w) ==
  /\ pc[w] = "ingest"
  /\ Goto(w, "complete")
  /\ UNCHANGED <<now, jobs, attempts, handles, mine, sent, pages>>

Receipt(w) ==
  /\ pc[w] = "ingest"
  /\ mine[w] \in pages
  /\ Goto(w, "complete")
  /\ UNCHANGED <<now, jobs, attempts, handles, mine, sent, pages>>

WorkerSettle(w) ==
  /\ \E ts \in Timestamp : \/ pc[w] = "complete" /\ Complete(mine[w], ts)
                           \/ pc[w] = "fail" /\ Fail(mine[w], ts)
  /\ Finish(w, TRUE)
  /\ UNCHANGED <<sent, pages>>

\* complete() or fail() bails, and the worker process exits with its error.
LostLease(w) ==
  /\ pc[w] \in {"complete", "fail"}
  /\ ~Holds(mine[w])
  /\ Goto(w, "stopped")
  /\ mine' = [mine EXCEPT ![w] = Null]
  /\ UNCHANGED <<now, jobs, attempts, handles, sent, pages>>

PhaseLimit == [crawl |-> CrawlTimeout, ingest |-> ApiTimeout,
               complete |-> DbPatience, fail |-> DbPatience]

\* Time passes only while every worker is within the time its phase may take.
Patient(w) == pc[w] \in Working => now - since[w] < PhaseLimit[pc[w]]

RuntimeTick ==
  /\ Tick
  /\ \A w \in Worker : Patient(w)
  /\ UNCHANGED <<pc, mine, since, sent, pages>>

\* The seed and reap subcommands.
Admin ==
  /\ SeedAny \/ ReapAny
  /\ UNCHANGED <<pc, mine, since, sent, pages>>

WorkerStep(w) ==
  \/ Start(w) \/ Stop(w) \/ Wake(w)
  \/ WorkerReap(w) \/ WorkerLease(w) \/ NothingDue(w)
  \/ Crawled(w) \/ GaveUp(w) \/ Receipt(w)
  \/ WorkerSettle(w) \/ LostLease(w)

RuntimeNext ==
  \/ RuntimeTick
  \/ Admin
  \/ \E w \in Worker : WorkerStep(w)
  \/ \E l \in Token : Accept(l)

RuntimeSpec == RuntimeInit /\ [][RuntimeNext]_runtimeVars

-----------------------------------------------------------------------------
(* Properties *)

\* The workers whose leases outlast the lag, their timeouts and the wait for the
\* database.  The code does not ask for that.
LongLeased ==
  {w \in Worker : LeaseSeconds[w] >= MaxLag + CrawlTimeout + ApiTimeout + DbPatience}

\* A worker with a long lease_seconds holds its job from its lease to its
\* settlement, whatever leases the other workers ask for: no other worker crawls
\* the job meanwhile, and it is not thrown out by a settlement that comes too late.
WorkerHoldsLease ==
  \A w \in LongLeased : pc[w] \in Working => Holds(mine[w])

\* A success is recorded only for a page the API accepted.
SuccessAccepted ==
  \A l \in Token : attempts[l] # Null /\ attempts[l].status = "succeeded" => l \in pages

\* "expired_lease_is_recovered_and_attempt_is_abandoned" (test name): an open
\* attempt is one its job still carries, so that reap_expired() finds it.
OpenAttemptsAreHeld ==
  \A l \in Token : attempts[l] # Null /\ attempts[l].status = "leased" => Holds(l)
=============================================================================
