------------------------------ MODULE CrawlLoop ------------------------------
(***************************************************************************)
(* What the crawl workers eventually do: CrawlRuntime with the clock       *)
(* abstracted, so that workers run for ever and fairness means something.  *)
(*                                                                         *)
(* Of next_run_at only the order in which jobs come due is kept (jobs come *)
(* due in the order of next_run_at, which is the order lease() sorts by);  *)
(* of lease_expires_at only whether it has passed; of a lease_token only   *)
(* which worker, if any still lives, can settle with it.  A lease and a     *)
(* seed hold their row over a step: a lease passes over the rows that are  *)
(* locked, a settlement and a reap wait for them.                          *)
(***************************************************************************)
EXTENDS Naturals, Sequences

CONSTANTS
  Job,         \* enabled rows of eal_crawl_jobs
  Worker,      \* worker processes
  Null,        \* no lease, or no job
  Dead,        \* the holder of a lease whose worker is gone
  MaxAttempts, \* max_attempts of every job
  LongLeased,  \* workers whose lease_seconds covers every timeout: their leases
               \* lapse only after they died (CrawlRuntime, WorkerHoldsLease)
  MaxCrashes,  \* bound on how often workers die
  MaxSeeds     \* bound on how often jobs are seeded again

ASSUME LoopAssumption ==
  /\ Null \notin Job \cup Worker /\ Dead \notin Worker \cup {Null}
  /\ MaxAttempts \in Nat \ {0}
  /\ LongLeased \subseteq Worker
  /\ MaxCrashes \in Nat /\ MaxSeeds \in Nat

VARIABLES
  due,    \* the jobs with next_run_at <= now(), longest due first
  lease,  \* who holds each job
  lapsed, \* the jobs with lease_expires_at < now()
  count,  \* attempt_count
  pc,     \* where process_next of each worker stands
  mine,   \* the job each worker leased, or has the row of to lease it
  crashes, \* how often a worker died
  seeding, \* the job whose row a seed command has locked
  seeds   \* how often one has

seedVars == <<seeding, seeds>>
loopVars == <<due, lease, lapsed, count, pc, mine, crashes, seedVars>>

Working == {"crawl", "ingest", "complete", "fail"}

-----------------------------------------------------------------------------

LoopInit ==
  /\ due = <<>>
  /\ lease = [j \in Job |-> Null]
  /\ lapsed = {}
  /\ count = [j \in Job |-> 0]
  /\ pc = [w \in Worker |-> "stopped"]
  /\ mine = [w \in Worker |-> Null]
  /\ crashes = 0
  /\ seeding = Null /\ seeds = 0

IsDue(j) == \E i \in DOMAIN due : due[i] = j

\* Rows that a transaction has locked between its statements: those taken for a
\* lease, and that of a seed.
Locked == {mine[w] : w \in {v \in Worker : pc[v] = "leasing"}} \cup ({seeding} \ {Null})

\* next_run_at passes.
ComeDue(j) ==
  /\ ~IsDue(j)
  /\ due' = Append(due, j)
  /\ UNCHANGED <<lease, lapsed, count, pc, mine, crashes, seedVars>>

SeedBegins(j) ==
  /\ seeding = Null /\ seeds < MaxSeeds /\ j \notin Locked
  /\ seeding' = j /\ seeds' = seeds + 1
  /\ UNCHANGED <<due, lease, lapsed, count, pc, mine, crashes>>

\* The upsert brings next_run_at forward to now().
SeedEnds ==
  /\ seeding # Null
  /\ due' = IF IsDue(seeding) THEN due ELSE Append(due, seeding)
  /\ seeding' = Null
  /\ UNCHANGED <<lease, lapsed, count, pc, mine, crashes, seeds>>

\* Mutant of Lapse: leases have no expiry.
Lapse_Never(j) == lease[j] # Null /\ FALSE /\ UNCHANGED loopVars

Lapse(j) ==
  /\ lease[j] # Null /\ j \notin lapsed
  /\ lease[j] \notin LongLeased
  /\ lapsed' = lapsed \cup {j}
  /\ UNCHANGED <<due, lease, count, pc, mine, crashes, seedVars>>

\* The lease is cleared and next_run_at moves to the future.
Release(released, counts) ==
  /\ lease' = [j \in Job |-> IF j \in released THEN Null ELSE lease[j]]
  /\ lapsed' = lapsed \ released
  /\ due' = SelectSeq(due, LAMBDA j : j \notin released)
  /\ count' = [j \in Job |-> IF j \in released THEN counts[j] ELSE count[j]]

Goto(w, phase, job) ==
  /\ pc' = [pc EXCEPT ![w] = phase]
  /\ mine' = [mine EXCEPT ![w] = job]

Start(w) ==
  /\ pc[w] = "stopped"
  /\ Goto(w, "reap", Null)
  /\ UNCHANGED <<due, lease, lapsed, count, crashes, seedVars>>

\* The process dies; nobody can settle with its token any more, and a row it had
\* only taken is let go.
Crash(w) ==
  /\ pc[w] # "stopped" /\ crashes < MaxCrashes
  /\ Goto(w, "stopped", Null)
  /\ lease' = [j \in Job |-> IF lease[j] = w THEN Dead ELSE lease[j]]
  /\ crashes' = crashes + 1
  /\ UNCHANGED <<due, lapsed, count, seedVars>>

Reap(w) ==
  /\ pc[w] = "reap" /\ lapsed \cap Locked = {}
  /\ Release(lapsed, [j \in Job |-> count[j] + 1])
  /\ Goto(w, "lease", Null)
  /\ UNCHANGED <<crashes, seedVars>>

\* Mutant of Ready: the last attempt is never made.
Ready_OffByOne(j) ==
  count[j] + 1 < MaxAttempts /\ (lease[j] = Null \/ j \in lapsed)

Ready(j) == count[j] < MaxAttempts /\ (lease[j] = Null \/ j \in lapsed)

\* Rows that a settlement or a reap in flight may have locked.
Settling == {j \in Job : \E w \in Worker : lease[j] = w /\ pc[w] \in {"complete", "fail"}}
Reaping == {j \in lapsed : \E w \in Worker : pc[w] = "reap"}

\* What a lease may find locked.
Lockings == {Locked \cup other : other \in SUBSET (Settling \cup Reaping)}

\* Mutant of Candidate: the job due last goes first.
Candidate_Newest(j, locked) ==
  \E i \in DOMAIN due :
    /\ due[i] = j /\ Ready(j) /\ j \notin locked
    /\ \A k \in (i + 1) .. Len(due) : ~Ready(due[k]) \/ due[k] \in locked

\* ORDER BY next_run_at FOR UPDATE SKIP LOCKED LIMIT 1
Candidate(j, locked) ==
  \E i \in DOMAIN due :
    /\ due[i] = j /\ Ready(j) /\ j \notin locked
    /\ \A k \in 1 .. (i - 1) : ~Ready(due[k]) \/ due[k] \in locked

\* The first row that is not locked is taken ...
TakeCandidate(w) ==
  /\ pc[w] = "lease"
  /\ \E locked \in Lockings, j \in Job :
       Candidate(j, locked) /\ Goto(w, "leasing", j)
  /\ UNCHANGED <<due, lease, lapsed, count, crashes, seedVars>>

\* ... and is leased once its attempt is recorded and the transaction commits.
Lease(w) ==
  /\ pc[w] = "leasing"
  /\ lease' = [lease EXCEPT ![mine[w]] = w]
  /\ lapsed' = lapsed \ {mine[w]}
  /\ Goto(w, "crawl", mine[w])
  /\ UNCHANGED <<due, count, crashes, seedVars>>

NothingDue(w) ==
  /\ pc[w] = "lease"
  /\ \E locked \in Lockings : \A j \in Job : ~Candidate(j, locked)
  /\ Goto(w, "idle", Null)
  /\ UNCHANGED <<due, lease, lapsed, count, crashes, seedVars>>

Wake(w) ==
  /\ pc[w] = "idle"
  /\ Goto(w, "reap", Null)
  /\ UNCHANGED <<due, lease, lapsed, count, crashes, seedVars>>

\* The crawl and then the post succeed, or one of them fails or times out.
Advance(w) ==
  /\ \/ pc[w] = "crawl" /\ Goto(w, "ingest", mine[w])
     \/ pc[w] = "ingest" /\ Goto(w, "complete", mine[w])
     \/ pc[w] \in {"crawl", "ingest"} /\ Goto(w, "fail", mine[w])
  /\ UNCHANGED <<due, lease, lapsed, count, crashes, seedVars>>

\* complete() clears the count and fail() raises it; without the lease either
\* bails, and the process exits.
Settle(w) ==
  /\ pc[w] \in {"complete", "fail"} /\ mine[w] \notin Locked
  /\ \/ /\ lease[mine[w]] = w
        /\ Release({mine[w]},
                   [j \in Job |-> IF pc[w] = "complete" THEN 0 ELSE count[j] + 1])
        /\ Goto(w, "reap", Null)
     \/ /\ lease[mine[w]] # w
        /\ Goto(w, "stopped", Null)
        /\ UNCHANGED <<due, lease, lapsed, count>>
  /\ UNCHANGED <<crashes, seedVars>>

\* What a worker does of its own, crashing aside.
Step(w) ==
  \/ Start(w) \/ Reap(w) \/ TakeCandidate(w) \/ Lease(w) \/ NothingDue(w) \/ Wake(w)
  \/ Advance(w) \/ Settle(w)

LoopNext ==
  \/ \E j \in Job : ComeDue(j) \/ Lapse(j) \/ SeedBegins(j)
  \/ SeedEnds
  \/ \E w \in Worker : Step(w) \/ Crash(w)

\* Time passes, each phase of a worker ends by its timeout, a transaction ends,
\* and a process that exited is started again by whatever supervises it.
Fairness ==
  /\ WF_loopVars(SeedEnds)
  /\ \A j \in Job : WF_loopVars(ComeDue(j)) /\ WF_loopVars(Lapse(j))
  /\ \A w \in Worker : WF_loopVars(Step(w))

LoopSpec == LoopInit /\ [][LoopNext]_loopVars /\ Fairness

-----------------------------------------------------------------------------
(* Properties *)

\* "Reaps expired worker leases after crashes" (runtime-worker/README.md): the
\* job of a worker that died is freed, or leased by another.
DeadLeaseEnds == \A j \in Job : lease[j] = Dead ~> lease[j] # Dead

\* A free job that is due and has an attempt left is eventually leased, whatever
\* the other jobs do: failing ones go to the back of the order.  One worker with
\* a long lease is enough; without any, two workers may take one job from each
\* other for ever.
DueJobLeased ==
  \A j \in Job : IsDue(j) /\ count[j] < MaxAttempts /\ lease[j] = Null ~> lease[j] # Null

\* A job that has failed does not stay half-way: it succeeds or uses up its
\* attempts, over crashes, lapsed leases and backoffs.
RetriesEnd ==
  \A j \in Job : count[j] > 0 ~> count[j] \in {0, MaxAttempts}
=============================================================================
