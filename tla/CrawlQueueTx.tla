----------------------------- MODULE CrawlQueueTx -----------------------------
(***************************************************************************)
(* The transactions of runtime-worker/src/queue.rs statement by statement, *)
(* over PostgreSQL's row locks at READ COMMITTED: a statement picks rows   *)
(* by its snapshot, waits for the locks of those it writes, and looks at   *)
(* its WHERE clause again when it has them.  Locks are held to the end of  *)
(* the transaction.  Commit, rollback, a lost connection and the deadlock  *)
(* detector end a transaction.                                             *)
(*                                                                         *)
(* complete() and fail() lock the attempt, then the job; reap_expired()    *)
(* locks jobs, then their attempts, in an order the query leaves open.     *)
(* What a session writes is seen by nobody before the commit, and nobody   *)
(* changes a row it has locked, so its writes are made at the commit.      *)
(***************************************************************************)
EXTENDS CrawlQueue, Sequences

CONSTANT Session  \* database connections: of worker processes and of subcommands

Row == Job \cup Token

ASSUME RowAssumption == Job \cap Token = {} /\ Null \notin Row \cup Session

VARIABLES
  lock,  \* the session that has locked a row, or Null
  tx     \* the transaction of a session, or Null

txVars == <<vars, lock, tx>>

Settling == {"complete", "fail"}

\* job and token are the rows a transaction is about, done its statements so far
\* and want the row it waits for.  The rest is reap_expired's one statement: the
\* expired jobs it has still to lock and the open attempts that its snapshot
\* shows, those found with the jobs it has locked, and those it has closed.
Transaction ==
  [op : Settling \cup {"seed", "lease", "reap"}, ts : Nat,
   job : Job \cup {Null}, token : Token \cup {Null}, done : 0 .. 2, want : Row \cup {Null},
   todo : SUBSET Job, seen : SUBSET Token, found : SUBSET Token, closed : SUBSET Token]

ASSUME TransactionAssumption == Null \notin Transaction

-----------------------------------------------------------------------------
(* Locks *)

Running(s) == tx[s] # Null

Waits(s) == Running(s) /\ tx[s].want # Null

Holder(s) == lock[tx[s].want]

\* s waits for itself, by way of others: the sets of sessions each of which waits
\* for one of the set and is waited for by one of it are made of such cycles.
Deadlocked(s) ==
  \E cycle \in SUBSET Session :
    /\ s \in cycle
    /\ \A p \in cycle : /\ Waits(p) /\ Holder(p) \in cycle
                        /\ \E q \in cycle : Waits(q) /\ Holder(q) = p

\* Mutant of Ending: the connection goes back to its pool with a transaction open.
Ending_KeepsLocks(s) ==
  /\ tx' = [tx EXCEPT ![s] = Null]
  /\ lock' = lock

Ending(s) ==
  /\ tx' = [tx EXCEPT ![s] = Null]
  /\ lock' = [r \in Row |-> IF lock[r] = s THEN Null ELSE lock[r]]

-----------------------------------------------------------------------------
(* Transactions start: now() stands still from here on. *)

\* Mutant of Reapable: every leased job is locked.
Reapable_Leased(j, ts) == jobs[j] # Null /\ jobs[j].lease_token # Null

\* The WHERE clause of reap_expired().
Reapable(j, ts) == jobs[j] # Null /\ LeaseLapsed(jobs[j], ts)

Begin(s, op, j, l, todo, seen) ==
  /\ ~Running(s)
  /\ tx' = [tx EXCEPT ![s] =
       [op |-> op, ts |-> now, job |-> j, token |-> l, done |-> 0, want |-> Null,
        todo |-> todo, seen |-> seen, found |-> {}, closed |-> {}]]
  /\ UNCHANGED <<now, jobs, attempts, handles, lock>>

BeginSeed(s) == \E j \in Job : Begin(s, "seed", j, Null, {}, {})

\* The UUIDs are fresh.
BeginLease(s) ==
  \E l \in Token : /\ attempts[l] = Null
                   /\ \A p \in Session : Running(p) => tx[p].token # l
                   /\ Begin(s, "lease", Null, l, {}, {})

BeginSettle(s) ==
  \E l \in Token, op \in Settling :
    handles[l] # Null /\ Begin(s, op, handles[l].id, l, {}, {})

\* The statement takes its snapshot as it starts.
BeginReap(s) ==
  Begin(s, "reap", Null, Null, {j \in Job : Reapable(j, now)},
        {l \in Token : attempts[l] # Null /\ attempts[l].status = "leased"})

-----------------------------------------------------------------------------
(* Statements *)

\* Mutant of Statements: fail() frees the job before it closes the attempt.
Statements_FailJobFirst(t) ==
  CASE t.op = "complete" -> <<t.token, t.job>>
    [] t.op = "fail" -> <<t.job, t.token>>
    [] OTHER -> <<t.job>>

\* The row each statement of a seed or a settlement writes.
Statements(t) ==
  IF t.op \in Settling THEN <<t.token, t.job>> ELSE <<t.job>>

\* Mutant of Matches: a settlement releases its job by id alone.
Matches_JobById(t, r) ==
  CASE r \in Token -> attempts[r].status = "leased"
    [] r \in Job /\ t.op = "reap" -> Reapable(r, t.ts)
    [] OTHER -> TRUE

\* The WHERE clause, on the row as it is committed.
Matches(t, r) ==
  CASE r \in Token -> attempts[r].status = "leased"
    [] r \in Job /\ t.op \in Settling -> jobs[r].lease_token = t.token
    [] r \in Job /\ t.op = "reap" -> Reapable(r, t.ts)
    [] OTHER -> TRUE

\* The next statement of s, a seed or a settlement, goes for its row.
NextRow(s) == Statements(tx[s])[tx[s].done + 1]

Pending(s) ==
  /\ Running(s) /\ tx[s].want = Null
  /\ tx[s].op \in Settling \cup {"seed"}
  /\ tx[s].done < Len(Statements(tx[s]))

Request(s) ==
  /\ Pending(s)
  /\ Matches(tx[s], NextRow(s))
  /\ tx' = [tx EXCEPT ![s].want = NextRow(s)]
  /\ UNCHANGED <<now, jobs, attempts, handles, lock>>

\* "lease was lost": the statement writes no row, and the transaction is dropped.
Bail(s) ==
  /\ Pending(s)
  /\ ~Matches(tx[s], NextRow(s))
  /\ Ending(s)
  /\ UNCHANGED <<now, jobs, attempts, handles>>

\* The reaper goes for an expired job, or for an attempt of one it has locked:
\* how far the two interleave depends on the query plan.
ReapRequest(s) ==
  /\ Running(s) /\ tx[s].op = "reap" /\ tx[s].want = Null
  /\ \/ \E j \in tx[s].todo :
          tx' = [tx EXCEPT ![s].want = j, ![s].todo = @ \ {j}]
     \/ \E l \in tx[s].found :
          tx' = [tx EXCEPT ![s].want = l, ![s].found = @ \ {l}]
  /\ UNCHANGED <<now, jobs, attempts, handles, lock>>

\* A row that no longer matches stays locked, but is not written.
Granted(t) ==
  CASE ~Matches(t, t.want) -> [t EXCEPT !.want = Null]
    [] Matches(t, t.want) /\ t.op # "reap" -> [t EXCEPT !.want = Null, !.done = @ + 1]
    [] Matches(t, t.want) /\ t.op = "reap" /\ t.want \in Job ->
         [t EXCEPT !.want = Null,
                   !.found = @ \cup ({jobs[t.want].lease_token} \cap t.seen)]
    [] Matches(t, t.want) /\ t.op = "reap" /\ t.want \in Token ->
         [t EXCEPT !.want = Null, !.closed = @ \cup {t.want}]

Grant(s) ==
  /\ Waits(s) /\ Holder(s) = Null
  /\ lock' = [lock EXCEPT ![tx[s].want] = s]
  /\ tx' = [tx EXCEPT ![s] = Granted(tx[s])]
  /\ UNCHANGED <<now, jobs, attempts, handles>>

\* The rows SKIP LOCKED passes over.
LockedJobs == {j \in Job : lock[j] # Null}

\* lease() never waits: it takes the candidate due longest of those not locked.
TakeCandidate(s) ==
  /\ Running(s) /\ tx[s].op = "lease" /\ tx[s].done = 0
  /\ LET free == Candidates(LockedJobs, tx[s].ts)
     IN  \E j \in free :
           /\ \A k \in free : jobs[j].next_run_at <= jobs[k].next_run_at
           /\ lock' = [lock EXCEPT ![j] = s]
           /\ tx' = [tx EXCEPT ![s].job = j, ![s].done = 1]
  /\ UNCHANGED <<now, jobs, attempts, handles>>

NoCandidate(s) ==
  /\ Running(s) /\ tx[s].op = "lease" /\ tx[s].done = 0
  /\ Candidates(LockedJobs, tx[s].ts) = {}
  /\ Ending(s)
  /\ UNCHANGED <<now, jobs, attempts, handles>>

-----------------------------------------------------------------------------
(* Transactions end *)

Committing(s, op) ==
  /\ Running(s) /\ tx[s].op = op /\ tx[s].want = Null
  /\ Ending(s)

CommitSeed(s) ==
  /\ Committing(s, "seed") /\ tx[s].done = 1
  /\ \E enabled \in BOOLEAN, interval \in Interval, limit \in 1 .. AttemptCeiling :
       jobs' = [jobs EXCEPT ![tx[s].job] =
                  IF @ = Null
                  THEN Inserted(enabled, interval, limit, tx[s].ts)
                  ELSE Reseeded(@, enabled, interval, limit, tx[s].ts)]
  /\ UNCHANGED <<now, attempts, handles>>

CommitLease(s) ==
  LET t == tx[s]
  IN  /\ Committing(s, "lease") /\ t.done = 1
      /\ \E seconds \in LeaseTime :
           jobs' = [jobs EXCEPT ![t.job] = Leased(@, t.token, t.ts + seconds)]
      /\ attempts' = [attempts EXCEPT ![t.token] = [job |-> t.job, status |-> "leased"]]
      /\ handles' = [handles EXCEPT ![t.token] =
                       [id |-> t.job, attempt_count |-> jobs[t.job].attempt_count,
                        max_attempts |-> jobs[t.job].max_attempts]]
      /\ UNCHANGED now

CommitComplete(s) ==
  LET t == tx[s]
  IN  /\ Committing(s, "complete") /\ t.done = 2
      /\ attempts' = [attempts EXCEPT ![t.token].status = "succeeded"]
      /\ jobs' = [jobs EXCEPT ![t.job] =
                    Released(@, t.ts + @.interval_seconds, 0, Null)]
      /\ UNCHANGED <<now, handles>>

CommitFail(s) ==
  LET t == tx[s]
      wait == Backoff[handles[t.token].attempt_count + 1]
  IN  /\ Committing(s, "fail") /\ t.done = 2
      /\ attempts' = [attempts EXCEPT ![t.token].status = "failed"]
      /\ jobs' = [jobs EXCEPT ![t.job] =
                    Released(@, t.ts + wait, @.attempt_count + 1, "failed")]
      /\ UNCHANGED <<now, handles>>

CommitReap(s) ==
  LET t == tx[s]
      released == {j \in Job : \E l \in t.closed : attempts[l].job = j}
  IN  /\ Committing(s, "reap") /\ t.todo = {} /\ t.found = {}
      /\ attempts' = [l \in Token |-> IF l \in t.closed
                                      THEN [attempts[l] EXCEPT !.status = "abandoned"]
                                      ELSE attempts[l]]
      /\ jobs' = [j \in Job |->
                    IF j \in released
                    THEN Released(jobs[j], t.ts + ReapDelay, jobs[j].attempt_count + 1,
                                        "lease_expired")
                    ELSE jobs[j]]
      /\ UNCHANGED <<now, handles>>

\* The process dies or loses its connection.
Disconnect(s) ==
  /\ Running(s)
  /\ Ending(s)
  /\ UNCHANGED <<now, jobs, attempts, handles>>

\* The detector picks any session of the cycle and fails its statement.
DeadlockAbort(s) ==
  /\ Deadlocked(s)
  /\ Ending(s)
  /\ UNCHANGED <<now, jobs, attempts, handles>>

\* Bounded by MaxClock; MaxLag bounds how long a transaction stays open.
TxTick ==
  /\ now < MaxClock
  /\ \A s \in Session : Running(s) => now - tx[s].ts < MaxLag
  /\ now' = now + 1
  /\ UNCHANGED <<jobs, attempts, handles, lock, tx>>

-----------------------------------------------------------------------------

TxInit ==
  /\ Init
  /\ lock = [r \in Row |-> Null]
  /\ tx = [s \in Session |-> Null]

BeginAny(s) == BeginSeed(s) \/ BeginLease(s) \/ BeginSettle(s) \/ BeginReap(s)

Commit(s) ==
  \/ CommitSeed(s) \/ CommitLease(s) \/ CommitComplete(s) \/ CommitFail(s) \/ CommitReap(s)

\* What a running transaction does next when it waits for nobody.
Proceed(s) ==
  \/ Request(s) \/ Bail(s) \/ ReapRequest(s) \/ TakeCandidate(s) \/ NoCandidate(s)
  \/ Commit(s)

TxNext ==
  \/ TxTick
  \/ \E s \in Session :
       BeginAny(s) \/ Proceed(s) \/ Grant(s) \/ Disconnect(s) \/ DeadlockAbort(s)

TxSpec == TxInit /\ [][TxNext]_txVars

\* A session gets on with its transaction, the detector runs, and a lock that is
\* free again and again is some day granted to the session that waits for it:
\* waiters queue for a row.
FairTxSpec ==
  /\ TxSpec
  /\ \A s \in Session : /\ WF_txVars(Proceed(s) \/ DeadlockAbort(s))
                        /\ SF_txVars(Grant(s))

-----------------------------------------------------------------------------
(* Properties *)

\* Statement by statement the transactions still are the queue's operations, in
\* the order of their commits: what is proved of CrawlQueue holds of them,
\* wherever sessions wait, die or are aborted.
RefinesQueue == Spec

\* Every deadlock has a reaper in it: seed(), lease(), complete() and fail(),
\* repeated or late as they may be, never deadlock among themselves.
DeadlockHasReaper ==
  \A cycle \in SUBSET {s \in Session : Running(s) /\ tx[s].op # "reap"} :
    cycle # {} => \E p \in cycle : ~(Waits(p) /\ Holder(p) \in cycle)

\* A deadlock fails a settlement only of a lease that has run out: while its
\* lease lives, a worker's complete() or fail() is never the detector's victim,
\* although it takes its locks in the opposite order of reap_expired().
LiveSettlementNotDeadlocked ==
  \A s \in Session : Deadlocked(s) /\ tx[s].op \in Settling =>
    LeaseLapsed(jobs[tx[s].job], now)

\* No transaction stays open for ever, whatever it waits for: deadlocks between
\* settlements and reapers are broken, and every bail gives its locks back.
TransactionsEnd == \A s \in Session : Running(s) ~> ~Running(s)
=============================================================================
