------------------------------ MODULE CrawlQueue ------------------------------
(***************************************************************************)
(* The durable crawl queue of runtime-worker/src/queue.rs over the tables  *)
(* of runtime-worker/migrations/001_runtime.sql.  Every public operation   *)
(* of CrawlQueue is one PostgreSQL transaction and one action here; an     *)
(* operation that bails rolls its transaction back and is a stuttering     *)
(* step.                                                                   *)
(*                                                                         *)
(* The callers are the weakest possible: any CrawlJob that lease() ever    *)
(* returned may be passed to complete() or fail() at any time, any number  *)
(* of times, so workers that stalled past their lease, died, or repeated a *)
(* call whose answer they never saw are all included.  CrawlRuntime        *)
(* restricts them to what the worker loop does.                            *)
(***************************************************************************)
EXTENDS Naturals

CONSTANTS
  Job,            \* the (tenant_id, source_id, start_url) keys of eal_crawl_jobs
  Token,          \* the lease_token and attempt_id UUIDs, minted in pairs
  Null,           \* SQL NULL, and "there is no row with this key"
  Interval,       \* the interval_seconds a job may be seeded with
  AttemptCeiling, \* the largest max_attempts a job may be seeded with
  LeaseTime,      \* the lease_seconds a worker may ask for
  Backoff,        \* retry_backoff_seconds of an attempt number
  ReapDelay,      \* the 60 seconds a job waits after its lease expired
  MaxLag,         \* how far now(), the start of a transaction, lags its commit
  MaxClock        \* bound on the clock

\* A failure's code is whatever the worker reported, or reap_expired's own.
ErrorCode == {"failed", "lease_expired"}

\* A row of eal_crawl_jobs.  lease_owner is written with lease_token and never
\* read; last_error_code keeps who wrote it.
JobRow == [enabled          : BOOLEAN,
           interval_seconds : Interval,
           next_run_at      : Nat,
           lease_token      : Token \cup {Null},
           lease_expires_at : Nat \cup {Null},
           attempt_count    : Nat,
           max_attempts     : 1 .. AttemptCeiling,
           last_error_code  : ErrorCode \cup {Null}]

Status == {"leased", "succeeded", "failed", "abandoned"}

\* A row of eal_crawl_attempts, keyed by its token.
AttemptRow == [job : Job, status : Status]

\* What a worker keeps of a lease: the CrawlJob lease() returned.
CrawlJob == [id : Job, attempt_count : Nat, max_attempts : 1 .. AttemptCeiling]

ASSUME NullAssumption ==
  Null \notin Token \cup Nat \cup ErrorCode \cup JobRow \cup AttemptRow \cup CrawlJob
ASSUME BoundsAssumption ==
  /\ Interval \subseteq Nat \ {0}
  /\ AttemptCeiling \in Nat \ {0}
  /\ LeaseTime \subseteq Nat \ {0}
  /\ Backoff \in [1 .. AttemptCeiling -> Nat \ {0}]
  /\ ReapDelay \in Nat \ {0}
  /\ MaxLag \in Nat
  /\ MaxClock \in Nat

VARIABLES
  now,      \* the database's clock
  jobs,     \* eal_crawl_jobs: a row or Null for each key
  attempts, \* eal_crawl_attempts: a row or Null for each token
  handles   \* the CrawlJob each token was handed out in, or Null

vars == <<now, jobs, attempts, handles>>

-----------------------------------------------------------------------------
(* Rows *)

\* now() in SQL is the time the transaction began, not the time it commits.
Timestamp == {t \in 0 .. now : now - t <= MaxLag}

Inserted(enabled, interval, limit, ts) ==
  [enabled |-> enabled, interval_seconds |-> interval, next_run_at |-> ts,
   lease_token |-> Null, lease_expires_at |-> Null,
   attempt_count |-> 0, max_attempts |-> limit, last_error_code |-> Null]

\* Mutant of Reseeded: the upsert starts the attempts afresh.
Reseeded_ResetsCount(row, enabled, interval, limit, ts) ==
  [row EXCEPT !.enabled = enabled, !.interval_seconds = interval,
              !.max_attempts = limit, !.attempt_count = 0]

\* Mutant of Reseeded: the upsert replaces the row.
Reseeded_ReplacesRow(row, enabled, interval, limit, ts) ==
  Inserted(enabled, interval, limit, ts)

\* ON CONFLICT DO UPDATE: LEAST(next_run_at, now()), and nothing about leases,
\* attempts or errors.
Reseeded(row, enabled, interval, limit, ts) ==
  [row EXCEPT !.enabled = enabled,
              !.interval_seconds = interval,
              !.max_attempts = limit,
              !.next_run_at = IF row.next_run_at <= ts THEN row.next_run_at ELSE ts]

\* Mutant of Leased: the attempt is counted when it starts.
Leased_CountsAttempt(row, l, expires) ==
  [row EXCEPT !.lease_token = l, !.lease_expires_at = expires,
              !.attempt_count = row.attempt_count + 1]

\* attempt_count is left alone: only the outcome of the attempt changes it.
Leased(row, l, expires) ==
  [row EXCEPT !.lease_token = l, !.lease_expires_at = expires]

\* Mutant of Released: the expiry stays behind.
Released_KeepsExpiry(row, next, count, code) ==
  [row EXCEPT !.lease_token = Null, !.next_run_at = next,
              !.attempt_count = count, !.last_error_code = code]

\* Mutant of Released: the job is rescheduled with its lease on.
Released_KeepsLease(row, next, count, code) ==
  [row EXCEPT !.next_run_at = next, !.attempt_count = count,
              !.last_error_code = code]

Released(row, next, count, code) ==
  [row EXCEPT !.lease_token = Null,
              !.lease_expires_at = Null,
              !.next_run_at = next,
              !.attempt_count = count,
              !.last_error_code = code]

\* Mutant of LeaseLapsed: a lease may be taken at its last moment.
LeaseLapsed_Inclusive(row, ts) == row.lease_token # Null /\ row.lease_expires_at <= ts

LeaseLapsed(row, ts) == row.lease_token # Null /\ row.lease_expires_at < ts

\* Mutant of Ready: one attempt too many.
Ready_OffByOne(row, ts) ==
  /\ row.enabled
  /\ row.next_run_at <= ts
  /\ row.attempt_count <= row.max_attempts
  /\ row.lease_token = Null \/ LeaseLapsed(row, ts)

Ready(row, ts) ==
  /\ row.enabled
  /\ row.next_run_at <= ts
  /\ row.attempt_count < row.max_attempts
  /\ row.lease_token = Null \/ LeaseLapsed(row, ts)

\* The rows the candidate query sees: SKIP LOCKED passes over those another
\* transaction has locked.
Candidates(locked, ts) == {j \in Job \ locked : jobs[j] # Null /\ Ready(jobs[j], ts)}

\* Mutant of Holds: the job is released whoever holds it.
Holds_IgnoresToken(l) == handles[l] # Null /\ attempts[l].status = "leased"

\* Both WHERE clauses of a settlement match: the attempt is still open and the
\* job still carries its token.
Holds(l) ==
  /\ handles[l] # Null
  /\ attempts[l].status = "leased"
  /\ jobs[handles[l].id].lease_token = l

Expired(ts) == {j \in Job : jobs[j] # Null /\ LeaseLapsed(jobs[j], ts)}

\* Mutant of Abandoned: attempts are joined to the expired jobs by job alone.
Abandoned_ByJob(seen, ts) ==
  {l \in seen : attempts[l] # Null /\ attempts[l].job \in Expired(ts)}

\* The attempts a snapshot of time ts may miss although their lease has run out
\* by then: those of a lease() that took longer than its own lease to commit.
CommittedLate(ts) ==
  {l \in Token : /\ attempts[l] # Null
                 /\ jobs[attempts[l].job].lease_token = l
                 /\ \E seconds \in LeaseTime :
                      jobs[attempts[l].job].lease_expires_at + MaxLag >= ts + seconds}

\* The attempts that a statement's snapshot shows.
Snapshots(ts) == {seen \in SUBSET Token : Token \ CommittedLate(ts) \subseteq seen}

\* The open attempts whose token their expired job still carries.
Abandoned(seen, ts) ==
  {l \in seen : /\ attempts[l] # Null
                /\ attempts[l].status = "leased"
                /\ attempts[l].job \in Expired(ts)
                /\ jobs[attempts[l].job].lease_token = l}

-----------------------------------------------------------------------------
(* Operations *)

Init ==
  /\ now = 0
  /\ jobs = [j \in Job |-> Null]
  /\ attempts = [l \in Token |-> Null]
  /\ handles = [l \in Token |-> Null]

\* Bounded by MaxClock.
Tick ==
  /\ now < MaxClock
  /\ now' = now + 1
  /\ UNCHANGED <<jobs, attempts, handles>>

Seed(j, enabled, interval, limit, ts) ==
  /\ jobs' = [jobs EXCEPT ![j] =
                IF jobs[j] = Null
                THEN Inserted(enabled, interval, limit, ts)
                ELSE Reseeded(jobs[j], enabled, interval, limit, ts)]
  /\ UNCHANGED <<now, attempts, handles>>

\* The candidate due longest is leased; the id that breaks ties is abstracted.
\* Bounded by the supply of tokens.
Lease(l, seconds, locked, ts) ==
  /\ attempts[l] = Null
  /\ \E j \in Candidates(locked, ts) :
       /\ \A k \in Candidates(locked, ts) : jobs[j].next_run_at <= jobs[k].next_run_at
       /\ jobs' = [jobs EXCEPT ![j] = Leased(jobs[j], l, ts + seconds)]
       /\ attempts' = [attempts EXCEPT ![l] = [job |-> j, status |-> "leased"]]
       /\ handles' = [handles EXCEPT ![l] =
                        [id |-> j, attempt_count |-> jobs[j].attempt_count,
                         max_attempts |-> jobs[j].max_attempts]]
  /\ UNCHANGED now

Settle(l, outcome, row) ==
  /\ Holds(l)
  /\ attempts' = [attempts EXCEPT ![l].status = outcome]
  /\ jobs' = [jobs EXCEPT ![handles[l].id] = row]
  /\ UNCHANGED <<now, handles>>

Complete(l, ts) ==
  LET row == jobs[handles[l].id]
  IN  Settle(l, "succeeded", Released(row, ts + row.interval_seconds, 0, Null))

\* The wait is computed from the count in the handle, the count from the row.
Fail(l, ts) ==
  LET row == jobs[handles[l].id]
      wait == Backoff[handles[l].attempt_count + 1]
  IN  Settle(l, "failed", Released(row, ts + wait, row.attempt_count + 1, "failed"))

\* One statement: expired jobs, as they are once locked; then their open attempts,
\* of those in its snapshot; then the jobs of those attempts.
Reap(seen, ts) ==
  /\ attempts' = [l \in Token |-> IF l \in Abandoned(seen, ts)
                                  THEN [attempts[l] EXCEPT !.status = "abandoned"]
                                  ELSE attempts[l]]
  /\ jobs' = [j \in Job |->
                IF \E l \in Abandoned(seen, ts) : attempts[l].job = j
                THEN Released(jobs[j], ts + ReapDelay, jobs[j].attempt_count + 1,
                              "lease_expired")
                ELSE jobs[j]]
  /\ UNCHANGED <<now, handles>>

SeedAny ==
  \E j \in Job, enabled \in BOOLEAN, interval \in Interval,
     limit \in 1 .. AttemptCeiling, ts \in Timestamp :
       Seed(j, enabled, interval, limit, ts)

LeaseAny ==
  \E l \in Token, seconds \in LeaseTime, locked \in SUBSET Job, ts \in Timestamp :
    Lease(l, seconds, locked, ts)

ReapAny == \E ts \in Timestamp : \E seen \in Snapshots(ts) : Reap(seen, ts)

Next ==
  \/ Tick
  \/ SeedAny
  \/ LeaseAny
  \/ \E l \in Token, ts \in Timestamp : Complete(l, ts) \/ Fail(l, ts)
  \/ ReapAny

Spec == Init /\ [][Next]_vars

-----------------------------------------------------------------------------
(* Invariants *)

\* The tables keep their column types and the eal_crawl_jobs_lease_shape check:
\* a token and its expiry are set and cleared together.
TypeOK ==
  /\ now \in Nat
  /\ jobs \in [Job -> JobRow \cup {Null}]
  /\ attempts \in [Token -> AttemptRow \cup {Null}]
  /\ handles \in [Token -> CrawlJob \cup {Null}]
  /\ \A j \in Job : jobs[j] # Null =>
       (jobs[j].lease_token = Null <=> jobs[j].lease_expires_at = Null)

\* A leased job's token names an open attempt of that very job.  reap_expired
\* frees a job only by way of its open attempt, so a job whose attempt was
\* settled without releasing it could never be reaped.
LeaseBacked ==
  \A j \in Job : jobs[j] # Null /\ jobs[j].lease_token # Null =>
    attempts[jobs[j].lease_token] = [job |-> j, status |-> "leased"]

\* The attempt_count a worker carries out of the transaction in its CrawlJob is
\* still the row's for as long as it holds the job, however the job is reseeded
\* meanwhile: fail() computes its backoff from the copy.
HandleFresh ==
  \A l \in Token : Holds(l) =>
    handles[l].attempt_count = jobs[handles[l].id].attempt_count

\* An attempt of job j failed that was leased under a limit j's count is not past.
FailedWithin(j, l) ==
  /\ attempts[l] # Null /\ attempts[l].job = j
  /\ attempts[l].status \in {"failed", "abandoned"}
  /\ jobs[j].attempt_count <= handles[l].max_attempts

\* max_attempts is checked by lease() alone, the count is raised by fail() and
\* reap_expired(), and a reseed may lower the limit in between.  Still a job that
\* is held has an attempt left of the max_attempts its own row had when it was
\* leased, and a job's count of failures is never past the limit under which one
\* of them was leased.
RetryBounded ==
  /\ \A l \in Token : Holds(l) =>
       jobs[handles[l].id].attempt_count < handles[l].max_attempts
  /\ \A j \in Job : jobs[j] # Null /\ jobs[j].attempt_count > 0 =>
       \E l \in Token : FailedWithin(j, l)

\* A job carries an error code exactly while it has failures to its count:
\* each of the four operations that write either column writes both.
ErrorMatchesCount ==
  \A j \in Job : jobs[j] # Null =>
    (jobs[j].last_error_code = Null <=> jobs[j].attempt_count = 0)

-----------------------------------------------------------------------------
(* Action properties *)

SettledReceiptKept ==
  \A l \in Token : attempts[l] # Null =>
    \/ attempts'[l] = attempts[l]
    \/ attempts[l].status = "leased" /\ attempts'[l].job = attempts[l].job

\* "Immutable operational receipts" (comment on eal_crawl_attempts): an attempt
\* once settled is never settled again, by a late worker or by reap_expired,
\* and no attempt moves to another job.
ReceiptsImmutable == [][SettledReceiptKept]_vars

LiveLeaseEndedByHolder ==
  \A j \in Job :
    jobs[j] # Null /\ jobs[j].lease_token # Null /\ now <= jobs[j].lease_expires_at =>
      LET l == jobs[j].lease_token
      IN  \/ /\ jobs'[j].lease_token = l
             /\ jobs'[j].lease_expires_at = jobs[j].lease_expires_at
             /\ attempts'[l].status = "leased"
          \/ /\ jobs'[j].lease_token = Null
             /\ attempts'[l].status \in {"succeeded", "failed"}

\* While a lease has not expired, only its own holder's complete() or fail()
\* ends it: no other worker leases the job, settles it or reaps it.
LiveLeaseKept == [][LiveLeaseEndedByHolder]_vars

OpenAttemptKeepsJobLeased ==
  \A l \in Token : Holds(l) /\ attempts'[l].status = "leased" =>
    jobs'[handles[l].id].lease_token # Null

\* A job is released in the step that settles its attempt.  An open attempt
\* loses its job only to another worker's lease() of that job.
OrphanOnlyByLease == [][OpenAttemptKeepsJobLeased]_vars

\* The attempts of j that this step closes with one of the outcomes.
Closed(j, outcomes) ==
  {l \in Token : /\ attempts[l] # Null /\ attempts[l].job = j
                 /\ attempts[l].status = "leased"
                 /\ attempts'[l].status \in outcomes}

FailuresCounted ==
  \A j \in Job : jobs[j] # Null =>
    /\ Closed(j, {"failed", "abandoned"}) # {} <=>
         jobs'[j].attempt_count = jobs[j].attempt_count + 1
    /\ jobs'[j].attempt_count < jobs[j].attempt_count =>
         Closed(j, {"succeeded"}) # {}

\* attempt_count rises, by one, in exactly the steps in which an attempt of the
\* job fails or is abandoned, and falls only by a success.
RetryAccounting == [][FailuresCounted]_vars

FailureWaitsOut ==
  \A l \in Token : attempts[l] # Null /\ attempts[l].status = "leased"
                   /\ attempts'[l].status = "failed" =>
    LET row == jobs'[attempts[l].job]
    IN  /\ row.next_run_at + MaxLag >= now + Backoff[row.attempt_count]
        /\ row.next_run_at <= now + Backoff[row.attempt_count]

\* The n-th failure in a row is followed by the wait of retry_backoff_seconds(n),
\* n counted by the row as it is after the failure, although fail() computes it
\* from the count the worker carried through the crawl.
BackoffHonoured == [][FailureWaitsOut]_vars

-----------------------------------------------------------------------------
(* Refinement *)

\* The ledger behind the tables: a lease has lapsed when its expiry is past by the
\* database's clock.
HolderOf == [j \in Job |-> IF jobs[j] = Null THEN Null ELSE jobs[j].lease_token]
LapsedJobs == {j \in Job : jobs[j] # Null /\ LeaseLapsed(jobs[j], now)}
ReceiptOf == [l \in Token |-> IF attempts[l] = Null THEN "unused" ELSE attempts[l].status]
StreakOf == [j \in Job |-> IF jobs[j] = Null THEN 0 ELSE jobs[j].attempt_count]

Ledger == INSTANCE LeaseLedger WITH
  Free <- Null, holder <- HolderOf, lapsed <- LapsedJobs,
  receipt <- ReceiptOf, streak <- StreakOf

\* The tables keep the ledger: lagging timestamps, late settlements, reseeding and
\* reaping never grant a job whose lease lives, close a receipt twice or lose count
\* of a failure.
ImplementsLedger == Ledger!Spec
=============================================================================
