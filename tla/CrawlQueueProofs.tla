--------------------------- MODULE CrawlQueueProofs ---------------------------
(***************************************************************************)
(* Theorems about CrawlQueue, for every set of jobs, tokens, intervals and *)
(* lease times, every backoff function, lag and clock bound.               *)
(***************************************************************************)
EXTENDS CrawlQueue, TLAPS

\* An attempt row exists exactly for the tokens handed out, the CrawlJob names
\* the job of the attempt, and that job has a row (the foreign key job_id):
\* lease() writes both in one transaction and no operation takes either back.
HandleOfAttempt ==
  \A l \in Token : /\ attempts[l] = Null <=> handles[l] = Null
                   /\ handles[l] # Null => /\ handles[l].id = attempts[l].job
                                           /\ jobs[handles[l].id] # Null

\* The inductive invariant.  HandleOfAttempt lets a settlement, which looks at
\* the attempt by its token and at the job by the handle's id, be about one job.
IInv == /\ TypeOK
        /\ HandleOfAttempt
        /\ LeaseBacked
        /\ HandleFresh
        /\ RetryBounded
        /\ ErrorMatchesCount

-----------------------------------------------------------------------------
(* The rows the operations write *)

\* A first seed writes a free row with no failures (queue.rs, seed).
LEMMA InsertedRow ==
  ASSUME NEW enabled \in BOOLEAN, NEW interval \in Interval,
         NEW limit \in 1 .. AttemptCeiling, NEW ts \in Nat
  PROVE  LET row == Inserted(enabled, interval, limit, ts)
         IN  /\ row \in JobRow
             /\ row # Null
             /\ row.lease_token = Null
             /\ row.lease_expires_at = Null
             /\ row.attempt_count = 0
             /\ row.last_error_code = Null
BY NullAssumption DEF Inserted, JobRow

\* Seeding again leaves the lease, the count and the error of the row alone.
LEMMA ReseededRow ==
  ASSUME NEW row \in JobRow, NEW enabled \in BOOLEAN, NEW interval \in Interval,
         NEW limit \in 1 .. AttemptCeiling, NEW ts \in Nat
  PROVE  LET new == Reseeded(row, enabled, interval, limit, ts)
         IN  /\ new \in JobRow
             /\ new # Null
             /\ new.lease_token = row.lease_token
             /\ new.lease_expires_at = row.lease_expires_at
             /\ new.attempt_count = row.attempt_count
             /\ new.last_error_code = row.last_error_code
<1> DEFINE new == Reseeded(row, enabled, interval, limit, ts)
<1>1. new \in JobRow
  BY DEF Reseeded, JobRow
<1>2. new # Null
  BY <1>1, NullAssumption
<1> QED
  BY <1>1, <1>2 DEF Reseeded, JobRow

\* A lease writes the token and its expiry and nothing else.
LEMMA LeasedRow ==
  ASSUME NEW row \in JobRow, NEW l \in Token, NEW expires \in Nat
  PROVE  LET new == Leased(row, l, expires)
         IN  /\ new \in JobRow
             /\ new # Null
             /\ new.lease_token = l
             /\ new.lease_expires_at = expires
             /\ new.attempt_count = row.attempt_count
             /\ new.last_error_code = row.last_error_code
<1> DEFINE new == Leased(row, l, expires)
<1>1. new \in JobRow
  BY DEF Leased, JobRow
<1>2. new # Null
  BY <1>1, NullAssumption
<1> QED
  BY <1>1, <1>2 DEF Leased, JobRow

\* A release clears the token and its expiry together.
LEMMA ReleasedRow ==
  ASSUME NEW row \in JobRow, NEW next \in Nat, NEW count \in Nat,
         NEW code \in ErrorCode \cup {Null}
  PROVE  LET new == Released(row, next, count, code)
         IN  /\ new \in JobRow
             /\ new # Null
             /\ new.lease_token = Null
             /\ new.lease_expires_at = Null
             /\ new.attempt_count = count
             /\ new.last_error_code = code
             /\ new.next_run_at = next
<1> DEFINE new == Released(row, next, count, code)
<1>1. new \in JobRow
  BY DEF Released, JobRow
<1>2. new # Null
  BY <1>1, NullAssumption
<1> QED
  BY <1>1, <1>2 DEF Released, JobRow
-----------------------------------------------------------------------------
(* The inductive invariant is established and kept *)

\* A lease that is held has a row with an attempt left, so that its count plus one
\* is an attempt number retry_backoff_seconds() is defined for.
LEMMA HeldCount ==
  ASSUME IInv, NEW l \in Token, Holds(l)
  PROVE  /\ handles[l].id \in Job
         /\ jobs[handles[l].id].attempt_count \in Nat
         /\ jobs[handles[l].id].attempt_count < handles[l].max_attempts
         /\ jobs[handles[l].id].attempt_count < AttemptCeiling
<1>1. handles[l] \in CrawlJob /\ jobs[handles[l].id] # Null
  BY DEF Holds, IInv, TypeOK, HandleOfAttempt
<1>2. handles[l].id \in Job /\ handles[l].max_attempts \in 1 .. AttemptCeiling
  BY <1>1 DEF CrawlJob
<1>3. jobs[handles[l].id].attempt_count \in Nat
  BY <1>1, <1>2 DEF IInv, TypeOK, JobRow
<1>4. jobs[handles[l].id].attempt_count < handles[l].max_attempts
  BY DEF IInv, RetryBounded
<1> QED
  BY <1>2, <1>3, <1>4, BoundsAssumption

\* The bound on retries is kept by a step that hands out a lease only with an
\* attempt left, and raises a count only by failing an attempt leased under it.
LEMMA RetryKept ==
  ASSUME RetryBounded,
         \A l \in Token : Holds(l)' =>
           \/ jobs'[handles'[l].id].attempt_count < handles'[l].max_attempts
           \/ /\ Holds(l) /\ handles'[l] = handles[l]
              /\ jobs'[handles[l].id].attempt_count = jobs[handles[l].id].attempt_count,
         \A l \in Token : attempts[l] # Null /\ attempts[l].status \in {"failed", "abandoned"} =>
           attempts'[l] = attempts[l] /\ handles'[l] = handles[l],
         \A j \in Job : jobs'[j] # Null /\ jobs'[j].attempt_count > 0 =>
           \/ jobs[j] # Null /\ jobs'[j].attempt_count = jobs[j].attempt_count
           \/ \E l \in Token : FailedWithin(j, l)'
  PROVE  RetryBounded'
<1>1. \A l \in Token : Holds(l)' =>
        jobs'[handles'[l].id].attempt_count < handles'[l].max_attempts
  BY DEF RetryBounded
<1>2. ASSUME NEW j \in Job, jobs'[j] # Null, jobs'[j].attempt_count > 0
      PROVE  \E l \in Token : FailedWithin(j, l)'
  <2>1. CASE jobs[j] # Null /\ jobs'[j].attempt_count = jobs[j].attempt_count
    <3>1. PICK l \in Token : FailedWithin(j, l)
      BY <1>2, <2>1 DEF RetryBounded
    <3>2. attempts'[l] = attempts[l] /\ handles'[l] = handles[l]
      BY <3>1 DEF FailedWithin
    <3> QED
      BY <2>1, <3>1, <3>2 DEF FailedWithin
  <2> QED
    BY <1>2, <2>1
<1> QED
  BY <1>1, <1>2 DEF RetryBounded

\* The empty tables satisfy the invariant.
LEMMA InitEstablishes == Init => IInv
<1> SUFFICES ASSUME Init PROVE IInv
  OBVIOUS
<1>1. TypeOK
  BY DEF Init, TypeOK
<1>2. HandleOfAttempt
  BY DEF Init, HandleOfAttempt
<1>3. LeaseBacked /\ HandleFresh /\ RetryBounded /\ ErrorMatchesCount
  BY DEF Init, LeaseBacked, HandleFresh, Holds, RetryBounded, FailedWithin,
         ErrorMatchesCount
<1> QED
  BY <1>1, <1>2, <1>3 DEF IInv

\* now() of a transaction is a natural number not after the clock.
LEMMA TimestampIsPast ==
  ASSUME TypeOK, NEW ts \in Timestamp
  PROVE  ts \in Nat /\ ts <= now
BY DEF TypeOK, Timestamp

\* The passing of time touches no row.
LEMMA TickKeeps ==
  ASSUME IInv, Tick PROVE IInv'
<1>1. TypeOK'
  BY DEF IInv, TypeOK, Tick
<1>2. HandleOfAttempt'
  BY DEF IInv, HandleOfAttempt, Tick
<1>3. LeaseBacked' /\ HandleFresh' /\ RetryBounded' /\ ErrorMatchesCount'
  BY DEF IInv, Tick, LeaseBacked, HandleFresh, Holds, RetryBounded, FailedWithin,
         ErrorMatchesCount
<1> QED
  BY <1>1, <1>2, <1>3 DEF IInv

\* Seeding, before or during a lease, keeps the invariant (queue.rs, seed).
LEMMA SeedKeeps ==
  ASSUME IInv,
         NEW j \in Job, NEW enabled \in BOOLEAN, NEW interval \in Interval,
         NEW limit \in 1 .. AttemptCeiling, NEW ts \in Timestamp,
         Seed(j, enabled, interval, limit, ts)
  PROVE  IInv'
<1> DEFINE new == jobs'[j]
<1>1. ts \in Nat
  BY TimestampIsPast DEF IInv
<1>2. /\ now' = now /\ attempts' = attempts /\ handles' = handles
      /\ \A k \in Job : k # j => jobs'[k] = jobs[k]
  BY DEF Seed, IInv, TypeOK
<1>3. CASE jobs[j] = Null
  <2>1. new = Inserted(enabled, interval, limit, ts)
    BY <1>3 DEF Seed, IInv, TypeOK
  <2>2. /\ new \in JobRow /\ new # Null
        /\ new.lease_token = Null /\ new.lease_expires_at = Null
        /\ new.attempt_count = 0 /\ new.last_error_code = Null
    BY <1>1, <2>1, InsertedRow
  <2>3. TypeOK'
    BY <1>2, <2>2 DEF IInv, TypeOK, Seed
  <2>4. HandleOfAttempt'
    BY <1>2, <2>2 DEF IInv, HandleOfAttempt, TypeOK, CrawlJob
  <2>5. LeaseBacked'
    BY <1>2, <2>2 DEF IInv, LeaseBacked
  <2>6. HandleFresh'
    BY <1>2, <2>2, NullAssumption DEF IInv, HandleFresh, Holds, TypeOK, CrawlJob
  <2>7. RetryBounded'
    <3>1. \A l \in Token : Holds(l)' =>
            /\ Holds(l) /\ handles'[l] = handles[l]
            /\ jobs'[handles[l].id].attempt_count = jobs[handles[l].id].attempt_count
      BY <1>2, <1>3, <2>2, NullAssumption
         DEF IInv, Holds, TypeOK, CrawlJob, HandleOfAttempt
    <3>2. \A k \in Job : jobs'[k] # Null /\ jobs'[k].attempt_count > 0 =>
            jobs[k] # Null /\ jobs'[k].attempt_count = jobs[k].attempt_count
      BY <1>2, <2>2
    <3> QED
      BY <1>2, <3>1, <3>2, RetryKept DEF IInv
  <2>8. ErrorMatchesCount'
    BY <1>2, <2>2 DEF IInv, ErrorMatchesCount
  <2> QED
    BY <2>3, <2>4, <2>5, <2>6, <2>7, <2>8 DEF IInv
<1>4. CASE jobs[j] # Null
  <2>1. new = Reseeded(jobs[j], enabled, interval, limit, ts) /\ jobs[j] \in JobRow
    BY <1>4 DEF Seed, IInv, TypeOK
  <2>2. /\ new \in JobRow /\ new # Null
        /\ new.lease_token = jobs[j].lease_token
        /\ new.lease_expires_at = jobs[j].lease_expires_at
        /\ new.attempt_count = jobs[j].attempt_count
        /\ new.last_error_code = jobs[j].last_error_code
    BY <1>1, <2>1, ReseededRow
  <2>3. TypeOK'
    BY <1>2, <1>4, <2>2 DEF IInv, TypeOK, Seed
  <2>4. HandleOfAttempt'
    BY <1>2, <2>2 DEF IInv, HandleOfAttempt, TypeOK, CrawlJob
  <2>5. LeaseBacked'
    BY <1>2, <1>4, <2>2 DEF IInv, LeaseBacked
  <2>6. HandleFresh'
    BY <1>2, <2>2 DEF IInv, HandleFresh, Holds, TypeOK, CrawlJob
  <2>7. RetryBounded'
    <3>1. \A l \in Token : Holds(l)' =>
            /\ Holds(l) /\ handles'[l] = handles[l]
            /\ jobs'[handles[l].id].attempt_count = jobs[handles[l].id].attempt_count
      BY <1>2, <2>2 DEF IInv, Holds, TypeOK, CrawlJob
    <3>2. \A k \in Job : jobs'[k] # Null /\ jobs'[k].attempt_count > 0 =>
            jobs[k] # Null /\ jobs'[k].attempt_count = jobs[k].attempt_count
      BY <1>2, <1>4, <2>2
    <3> QED
      BY <1>2, <3>1, <3>2, RetryKept DEF IInv
  <2>8. ErrorMatchesCount'
    BY <1>2, <1>4, <2>2 DEF IInv, ErrorMatchesCount
  <2> QED
    BY <2>3, <2>4, <2>5, <2>6, <2>7, <2>8 DEF IInv
<1> QED
  BY <1>3, <1>4

\* lease(): the leased row names the attempt inserted with it (queue.rs, lease).
LEMMA LeaseKeeps ==
  ASSUME IInv,
         NEW l \in Token, NEW seconds \in LeaseTime, NEW locked \in SUBSET Job,
         NEW ts \in Timestamp,
         Lease(l, seconds, locked, ts)
  PROVE  IInv'
<1>1. ts \in Nat /\ seconds \in Nat
  BY TimestampIsPast, BoundsAssumption DEF IInv
<1>2. PICK j \in Candidates(locked, ts) :
        /\ jobs' = [jobs EXCEPT ![j] = Leased(jobs[j], l, ts + seconds)]
        /\ attempts' = [attempts EXCEPT ![l] = [job |-> j, status |-> "leased"]]
        /\ handles' = [handles EXCEPT ![l] =
                         [id |-> j, attempt_count |-> jobs[j].attempt_count,
                          max_attempts |-> jobs[j].max_attempts]]
  BY DEF Lease
<1>3. j \in Job /\ jobs[j] \in JobRow /\ jobs[j] # Null /\ Ready(jobs[j], ts)
  BY DEF Candidates, IInv, TypeOK
<1>4. attempts[l] = Null /\ handles[l] = Null /\ now' = now
  BY DEF Lease, IInv, HandleOfAttempt
<1> DEFINE new == jobs'[j]
<1>5. new = Leased(jobs[j], l, ts + seconds)
  BY <1>2, <1>3 DEF IInv, TypeOK
<1>6. /\ new \in JobRow /\ new # Null
      /\ new.lease_token = l
      /\ new.lease_expires_at = ts + seconds
      /\ new.attempt_count = jobs[j].attempt_count
      /\ new.last_error_code = jobs[j].last_error_code
  BY <1>1, <1>3, <1>5, LeasedRow
<1>7. \A k \in Job : k # j => jobs'[k] = jobs[k]
  BY <1>2 DEF IInv, TypeOK
<1>8. /\ attempts'[l] = [job |-> j, status |-> "leased"]
      /\ handles'[l] = [id |-> j, attempt_count |-> jobs[j].attempt_count,
                        max_attempts |-> jobs[j].max_attempts]
      /\ \A m \in Token : m # l => attempts'[m] = attempts[m] /\ handles'[m] = handles[m]
  BY <1>2 DEF IInv, TypeOK
<1>9. attempts'[l] \in AttemptRow /\ handles'[l] \in CrawlJob
  BY <1>3, <1>8 DEF AttemptRow, CrawlJob, Status, JobRow
<1>10. attempts'[l] # Null /\ handles'[l] # Null
  BY <1>9, NullAssumption
<1>11. TypeOK'
  <2>1. jobs' \in [Job -> JobRow \cup {Null}]
    BY <1>2, <1>3, <1>5, <1>6 DEF IInv, TypeOK
  <2>2. attempts' \in [Token -> AttemptRow \cup {Null}]
    BY <1>2, <1>8, <1>9 DEF IInv, TypeOK
  <2>3. handles' \in [Token -> CrawlJob \cup {Null}]
    BY <1>2, <1>8, <1>9 DEF IInv, TypeOK
  <2>4. \A k \in Job : jobs'[k] # Null =>
          (jobs'[k].lease_token = Null <=> jobs'[k].lease_expires_at = Null)
    BY <1>1, <1>6, <1>7, NullAssumption DEF IInv, TypeOK
  <2> QED
    BY <1>4, <2>1, <2>2, <2>3, <2>4 DEF IInv, TypeOK
<1>12. HandleOfAttempt'
  BY <1>6, <1>7, <1>8, <1>10 DEF IInv, HandleOfAttempt, TypeOK, CrawlJob
<1>13. LeaseBacked'
  <2> SUFFICES ASSUME NEW k \in Job, jobs'[k] # Null, jobs'[k].lease_token # Null
               PROVE  attempts'[jobs'[k].lease_token] = [job |-> k, status |-> "leased"]
    BY DEF LeaseBacked
  <2>1. CASE k = j
    BY <2>1, <1>6, <1>8
  <2>2. CASE k # j
    <3>1. jobs[k].lease_token \in Token
      BY <2>2, <1>7 DEF IInv, TypeOK, JobRow
    <3>2. attempts[jobs[k].lease_token] = [job |-> k, status |-> "leased"]
      BY <2>2, <1>7 DEF IInv, LeaseBacked
    <3>3. jobs[k].lease_token # l
      BY <3>2, <1>4, NullAssumption DEF AttemptRow, Status
    <3> QED
      BY <2>2, <1>7, <1>8, <3>1, <3>2, <3>3
  <2> QED
    BY <2>1, <2>2
<1>14. HandleFresh'
  <2> SUFFICES ASSUME NEW m \in Token, Holds(m)'
               PROVE  handles'[m].attempt_count = jobs'[handles'[m].id].attempt_count
    BY DEF HandleFresh
  <2>1. CASE m = l
    BY <2>1, <1>6, <1>8
  <2>2. CASE m # l
    <3>1. handles[m] # Null /\ handles[m].id \in Job /\ handles[m].id # j
      BY <2>2, <1>6, <1>8 DEF Holds, IInv, TypeOK, CrawlJob
    <3>2. Holds(m)
      BY <2>2, <3>1, <1>7, <1>8 DEF Holds
    <3> QED
      BY <2>2, <3>1, <3>2, <1>7, <1>8 DEF IInv, HandleFresh
  <2> QED
    BY <2>1, <2>2
<1>15. RetryBounded'
  <2>1. jobs'[handles'[l].id].attempt_count < handles'[l].max_attempts
    BY <1>3, <1>6, <1>8 DEF Ready
  <2>2. ASSUME NEW m \in Token, Holds(m)', m # l
        PROVE  /\ Holds(m) /\ handles'[m] = handles[m]
               /\ jobs'[handles[m].id].attempt_count = jobs[handles[m].id].attempt_count
    <3>1. handles[m] # Null /\ handles[m].id \in Job /\ handles[m].id # j
      BY <2>2, <1>6, <1>8 DEF Holds, IInv, TypeOK, CrawlJob
    <3> QED
      BY <2>2, <3>1, <1>7, <1>8 DEF Holds
  <2>3. \A m \in Token : attempts[m] # Null =>
          attempts'[m] = attempts[m] /\ handles'[m] = handles[m]
    BY <1>4, <1>8
  <2>4. \A k \in Job : jobs'[k] # Null =>
          jobs[k] # Null /\ jobs'[k].attempt_count = jobs[k].attempt_count
    BY <1>3, <1>6, <1>7
  <2> QED
    BY <2>1, <2>2, <2>3, <2>4, RetryKept DEF IInv
<1>16. ErrorMatchesCount'
  BY <1>3, <1>6, <1>7 DEF IInv, ErrorMatchesCount
<1> QED
  BY <1>11, <1>12, <1>13, <1>14, <1>15, <1>16 DEF IInv

\* complete() and fail() both settle a held lease: they close its attempt and
\* release its job with the count reset or raised and the error to match.
LEMMA SettleKeeps ==
  ASSUME IInv,
         NEW l \in Token, NEW outcome \in Status \ {"leased"},
         NEW next \in Nat, NEW count \in Nat, NEW code \in ErrorCode \cup {Null},
         \/ count = 0
         \/ /\ count = jobs[handles[l].id].attempt_count + 1
            /\ outcome \in {"failed", "abandoned"},
         code = Null <=> count = 0,
         Settle(l, outcome, Released(jobs[handles[l].id], next, count, code))
  PROVE  IInv'
<1> DEFINE j == handles[l].id
           new == jobs'[j]
<1>1. /\ handles[l] # Null /\ j \in Job /\ jobs[j].lease_token = l
      /\ attempts[l] \in AttemptRow /\ attempts[l].job = j /\ attempts[l].status = "leased"
      /\ jobs[j] # Null /\ jobs[j] \in JobRow
  BY DEF Settle, Holds, IInv, TypeOK, CrawlJob, HandleOfAttempt
<1>2. /\ new = Released(jobs[j], next, count, code)
      /\ jobs' = [jobs EXCEPT ![j] = new]
      /\ \A k \in Job : k # j => jobs'[k] = jobs[k]
      /\ now' = now /\ handles' = handles
  BY <1>1 DEF Settle, IInv, TypeOK
<1>3. /\ new \in JobRow /\ new # Null
      /\ new.lease_token = Null /\ new.lease_expires_at = Null
      /\ new.attempt_count = count /\ new.last_error_code = code
  BY <1>1, <1>2, ReleasedRow
<1>4. /\ attempts'[l] = [attempts[l] EXCEPT !.status = outcome]
      /\ attempts' = [attempts EXCEPT ![l] = attempts'[l]]
      /\ \A m \in Token : m # l => attempts'[m] = attempts[m]
  BY DEF Settle, IInv, TypeOK
<1>5. attempts'[l] \in AttemptRow /\ attempts'[l].job = j /\ attempts'[l] # Null
  BY <1>1, <1>4, NullAssumption DEF AttemptRow
<1>6. TypeOK'
  <2>1. jobs' \in [Job -> JobRow \cup {Null}]
    BY <1>2, <1>3 DEF IInv, TypeOK
  <2>2. attempts' \in [Token -> AttemptRow \cup {Null}]
    BY <1>4, <1>5 DEF IInv, TypeOK
  <2>3. \A k \in Job : jobs'[k] # Null =>
          (jobs'[k].lease_token = Null <=> jobs'[k].lease_expires_at = Null)
    BY <1>2, <1>3 DEF IInv, TypeOK
  <2> QED
    BY <1>2, <2>1, <2>2, <2>3 DEF IInv, TypeOK
<1>7. HandleOfAttempt'
  <2> SUFFICES ASSUME NEW m \in Token
               PROVE  /\ attempts'[m] = Null <=> handles[m] = Null
                      /\ handles[m] # Null => /\ handles[m].id = attempts'[m].job
                                              /\ jobs'[handles[m].id] # Null
    BY <1>2 DEF HandleOfAttempt
  <2>1. CASE m = l
    BY <1>1, <1>3, <1>5, <2>1
  <2>2. CASE m # l
    <3>1. attempts'[m] = attempts[m]
      BY <1>4, <2>2
    <3>2. /\ attempts[m] = Null <=> handles[m] = Null
          /\ handles[m] # Null => /\ handles[m].id \in Job
                                  /\ handles[m].id = attempts[m].job
                                  /\ jobs[handles[m].id] # Null
      BY DEF IInv, HandleOfAttempt, TypeOK, CrawlJob
    <3> QED
      BY <1>2, <1>3, <3>1, <3>2
  <2> QED
    BY <2>1, <2>2
<1>8. LeaseBacked'
  <2> SUFFICES ASSUME NEW k \in Job, jobs'[k] # Null, jobs'[k].lease_token # Null
               PROVE  attempts'[jobs'[k].lease_token] = [job |-> k, status |-> "leased"]
    BY DEF LeaseBacked
  <2>1. k # j /\ jobs'[k] = jobs[k]
    BY <1>2, <1>3
  <2>2. jobs[k].lease_token \in Token
    BY <2>1 DEF IInv, TypeOK, JobRow
  <2>3. attempts[jobs[k].lease_token] = [job |-> k, status |-> "leased"]
    BY <2>1 DEF IInv, LeaseBacked
  <2>4. jobs[k].lease_token # l
    BY <1>1, <2>1, <2>3
  <2> QED
    BY <1>4, <2>1, <2>2, <2>3, <2>4
<1>9. HandleFresh'
  <2> SUFFICES ASSUME NEW m \in Token, Holds(m)'
               PROVE  handles'[m].attempt_count = jobs'[handles'[m].id].attempt_count
    BY DEF HandleFresh
  <2>1. handles[m] # Null /\ handles[m].id \in Job /\ handles[m].id # j
    BY <1>2, <1>3, NullAssumption DEF Holds, IInv, TypeOK, CrawlJob
  <2>2. m # l /\ Holds(m)
    BY <2>1, <1>2, <1>4 DEF Holds
  <2> QED
    BY <2>1, <2>2, <1>2 DEF IInv, HandleFresh
<1>10. RetryBounded'
  <2>1. ASSUME NEW m \in Token, Holds(m)'
        PROVE  /\ Holds(m) /\ handles'[m] = handles[m]
               /\ jobs'[handles[m].id].attempt_count = jobs[handles[m].id].attempt_count
    <3>1. handles[m] # Null /\ handles[m].id \in Job /\ handles[m].id # j
      BY <2>1, <1>2, <1>3, NullAssumption DEF Holds, IInv, TypeOK, CrawlJob
    <3>2. m # l
      BY <3>1
    <3> QED
      BY <2>1, <3>1, <3>2, <1>2, <1>4 DEF Holds
  <2>2. \A m \in Token : attempts[m] # Null /\ attempts[m].status \in {"failed", "abandoned"} =>
          attempts'[m] = attempts[m] /\ handles'[m] = handles[m]
    BY <1>1, <1>2, <1>4
  <2>3. ASSUME count # 0 PROVE FailedWithin(j, l)'
    <3>1. outcome \in {"failed", "abandoned"} /\ count = jobs[j].attempt_count + 1
      BY <2>3
    <3>2. attempts'[l].status = outcome
      BY <1>1, <1>4 DEF AttemptRow
    <3>3. /\ jobs[j].attempt_count < handles[l].max_attempts
          /\ jobs[j].attempt_count \in Nat
      BY HeldCount DEF Settle
    <3>4. handles[l].max_attempts \in Nat
      BY <1>1, BoundsAssumption DEF IInv, TypeOK, CrawlJob
    <3>5. new.attempt_count <= handles'[l].max_attempts
      BY <1>2, <1>3, <3>1, <3>3, <3>4
    <3> QED
      BY <1>2, <1>5, <3>1, <3>2, <3>5 DEF FailedWithin
  <2>4. \A k \in Job : jobs'[k] # Null /\ jobs'[k].attempt_count > 0 =>
          \/ jobs[k] # Null /\ jobs'[k].attempt_count = jobs[k].attempt_count
          \/ \E m \in Token : FailedWithin(k, m)'
    BY <1>2, <1>3, <2>3
  <2> QED
    BY <2>1, <2>2, <2>4, RetryKept DEF IInv
<1>11. ErrorMatchesCount'
  BY <1>2, <1>3 DEF IInv, ErrorMatchesCount
<1> QED
  BY <1>6, <1>7, <1>8, <1>9, <1>10, <1>11 DEF IInv

\* complete() keeps the invariant (queue.rs, complete).
LEMMA CompleteKeeps ==
  ASSUME IInv, NEW l \in Token, NEW ts \in Timestamp, Complete(l, ts)
  PROVE  IInv'
<1> DEFINE row == jobs[handles[l].id]
<1>1. Holds(l)
  BY DEF Complete, Settle
<1>2. row \in JobRow
  BY <1>1 DEF Holds, IInv, TypeOK, CrawlJob, HandleOfAttempt
<1>3. ts \in Nat /\ row.interval_seconds \in Nat /\ row.attempt_count \in Nat
  BY <1>2, TimestampIsPast, BoundsAssumption DEF IInv, JobRow
<1> DEFINE next == ts + row.interval_seconds
<1>4. next \in Nat /\ 0 <= row.attempt_count + 1
  BY <1>3
<1>5. Settle(l, "succeeded", Released(row, next, 0, Null))
  BY DEF Complete
<1> HIDE DEF next
<1> QED
  BY <1>4, <1>5, SettleKeeps DEF Status

\* fail() keeps the invariant: the job it raises the count of was running, so
\* there is an attempt left (queue.rs, fail).
LEMMA FailKeeps ==
  ASSUME IInv, NEW l \in Token, NEW ts \in Timestamp, Fail(l, ts)
  PROVE  IInv'
<1> DEFINE row == jobs[handles[l].id]
<1>1. Holds(l)
  BY DEF Fail, Settle
<1>2. row \in JobRow /\ row # Null /\ row.lease_token = l
  BY <1>1 DEF Holds, IInv, TypeOK, CrawlJob, HandleOfAttempt
<1>3. /\ row.attempt_count < AttemptCeiling
      /\ handles[l].attempt_count = row.attempt_count
  BY <1>1, HeldCount DEF IInv, HandleFresh
<1>4. ts \in Nat /\ row.attempt_count \in Nat
  BY <1>2, TimestampIsPast DEF IInv, JobRow
<1>5. Backoff[handles[l].attempt_count + 1] \in Nat
  BY <1>3, <1>4, BoundsAssumption
<1> DEFINE next == ts + Backoff[handles[l].attempt_count + 1]
           count == row.attempt_count + 1
<1>6. next \in Nat /\ count \in Nat /\ count = row.attempt_count + 1 /\ count # 0
  BY <1>4, <1>5
<1>7. Settle(l, "failed", Released(row, next, count, "failed"))
  BY DEF Fail
<1>8. "failed" # Null /\ "failed" \in ErrorCode
  BY NullAssumption DEF ErrorCode
<1> HIDE DEF next, count
<1> QED
  BY <1>6, <1>7, <1>8, SettleKeeps DEF Status

\* What reap_expired() sees is some set of attempts (queue.rs, reap_expired).
LEMMA ReapAnyReaps ==
  ASSUME ReapAny
  PROVE  \E ts \in Timestamp, seen \in SUBSET Token : Reap(seen, ts)
BY DEF ReapAny, Snapshots

\* reap_expired() closes the open attempt of an expired job in the statement
\* that releases the job, and touches nothing else (queue.rs, reap_expired).
LEMMA ReapRows ==
  ASSUME IInv, NEW seen \in SUBSET Token, NEW ts \in Timestamp, Reap(seen, ts), NEW j \in Job
  PROVE  \/ jobs'[j] = jobs[j] /\ \A l \in Abandoned(seen, ts) : attempts[l].job # j
         \/ \E l \in Abandoned(seen, ts) :
              /\ l = jobs[j].lease_token /\ attempts[l].job = j
              /\ jobs[j] # Null /\ jobs[j] \in JobRow /\ LeaseLapsed(jobs[j], ts)
              /\ jobs'[j] \in JobRow /\ jobs'[j] # Null
              /\ jobs'[j].lease_token = Null /\ jobs'[j].lease_expires_at = Null
              /\ jobs'[j].attempt_count = jobs[j].attempt_count + 1
              /\ jobs'[j].last_error_code = "lease_expired"
<1>1. CASE \A l \in Abandoned(seen, ts) : attempts[l].job # j
  BY <1>1 DEF Reap
<1>2. CASE \E l \in Abandoned(seen, ts) : attempts[l].job = j
  <2>1. PICK l \in Abandoned(seen, ts) : attempts[l].job = j
    BY <1>2
  <2>2. jobs[j] # Null /\ LeaseLapsed(jobs[j], ts) /\ jobs[j].lease_token = l
    BY <2>1 DEF Abandoned, Expired
  <2>3. jobs[j] \in JobRow
    BY <2>2 DEF IInv, TypeOK
  <2>4. jobs'[j] = Released(jobs[j], ts + ReapDelay, jobs[j].attempt_count + 1, "lease_expired")
    BY <1>2 DEF Reap
  <2>5. /\ ts + ReapDelay \in Nat /\ jobs[j].attempt_count + 1 \in Nat
        /\ "lease_expired" \in ErrorCode \cup {Null}
    <3>1. ts \in Nat
      BY TimestampIsPast DEF IInv
    <3>2. ts + ReapDelay \in Nat
      BY <3>1, BoundsAssumption
    <3>3. jobs[j].attempt_count + 1 \in Nat
      BY <2>3 DEF JobRow
    <3> QED
      BY <3>2, <3>3 DEF ErrorCode
  <2>6. /\ jobs'[j] \in JobRow /\ jobs'[j] # Null
        /\ jobs'[j].lease_token = Null /\ jobs'[j].lease_expires_at = Null
        /\ jobs'[j].attempt_count = jobs[j].attempt_count + 1
        /\ jobs'[j].last_error_code = "lease_expired"
    <3> DEFINE row == jobs[j]
               next == ts + ReapDelay
               count == jobs[j].attempt_count + 1
               code == "lease_expired"
               new == Released(row, next, count, code)
    <3>1. row \in JobRow /\ next \in Nat /\ count \in Nat
      BY <2>3, <2>5
    <3>2. code \in ErrorCode \cup {Null}
      BY <2>5
    <3>3. jobs'[j] = new
      BY <2>4
    <3>4. /\ new \in JobRow /\ new # Null
          /\ new.lease_token = Null /\ new.lease_expires_at = Null
          /\ new.attempt_count = count
          /\ new.last_error_code = code
      <4> HIDE DEF row, next, count, code
      <4> QED
        BY <3>1, <3>2, ReleasedRow
    <3>5. count = jobs[j].attempt_count + 1 /\ code = "lease_expired"
      OBVIOUS
    <3> HIDE DEF new, row, next, count, code
    <3> QED
      BY <3>3, <3>4, <3>5
  <2> QED
    BY <2>1, <2>2, <2>3, <2>6
<1> QED
  BY <1>1, <1>2

\* The attempts reap_expired() closes keep their job; the others are untouched.
LEMMA ReapAttempts ==
  ASSUME IInv, NEW seen \in SUBSET Token, NEW ts \in Timestamp, Reap(seen, ts), NEW l \in Token
  PROVE  \/ l \notin Abandoned(seen, ts) /\ attempts'[l] = attempts[l]
         \/ /\ l \in Abandoned(seen, ts)
            /\ attempts[l] \in AttemptRow
            /\ attempts'[l] = [attempts[l] EXCEPT !.status = "abandoned"]
            /\ attempts'[l] \in AttemptRow
            /\ attempts'[l] # Null
            /\ attempts'[l].job = attempts[l].job
            /\ attempts'[l].status = "abandoned"
<1>1. CASE l \notin Abandoned(seen, ts)
  BY <1>1 DEF Reap
<1>2. CASE l \in Abandoned(seen, ts)
  <2>1. attempts'[l] = [attempts[l] EXCEPT !.status = "abandoned"]
    BY <1>2 DEF Reap
  <2>2. attempts[l] \in AttemptRow
    BY <1>2 DEF Abandoned, IInv, TypeOK
  <2>3. /\ attempts'[l] \in AttemptRow /\ attempts'[l].job = attempts[l].job
        /\ attempts'[l].status = "abandoned"
    BY <2>1, <2>2 DEF AttemptRow, Status
  <2> QED
    BY <1>2, <2>1, <2>2, <2>3, NullAssumption
<1> QED
  BY <1>1, <1>2

\* reap_expired() keeps the invariant (queue.rs, reap_expired).
LEMMA ReapKeeps ==
  ASSUME IInv, NEW seen \in SUBSET Token, NEW ts \in Timestamp, Reap(seen, ts) PROVE IInv'
<1>1. now' = now /\ handles' = handles
  BY DEF Reap
<1>2. \A j \in Job : jobs[j] # Null <=> jobs'[j] # Null
  BY ReapRows
<1>3. TypeOK'
  <2>1. jobs' \in [Job -> JobRow \cup {Null}]
    <3>1. \A j \in Job : jobs'[j] \in JobRow \cup {Null}
      BY ReapRows DEF IInv, TypeOK
    <3> QED
      BY <3>1 DEF Reap
  <2>2. attempts' \in [Token -> AttemptRow \cup {Null}]
    <3>1. \A l \in Token : attempts'[l] \in AttemptRow \cup {Null}
      BY ReapAttempts DEF IInv, TypeOK
    <3> QED
      BY <3>1 DEF Reap
  <2>3. \A j \in Job : jobs'[j] # Null =>
          (jobs'[j].lease_token = Null <=> jobs'[j].lease_expires_at = Null)
    BY ReapRows DEF IInv, TypeOK
  <2> QED
    BY <1>1, <2>1, <2>2, <2>3 DEF IInv, TypeOK
<1>4. HandleOfAttempt'
  <2> SUFFICES ASSUME NEW l \in Token
               PROVE  /\ attempts'[l] = Null <=> handles[l] = Null
                      /\ handles[l] # Null => /\ handles[l].id = attempts'[l].job
                                              /\ jobs'[handles[l].id] # Null
    BY <1>1 DEF HandleOfAttempt
  <2>1. (attempts'[l] = Null <=> attempts[l] = Null) /\ attempts'[l].job = attempts[l].job
    BY ReapAttempts DEF Abandoned
  <2>2. handles[l] # Null => handles[l].id \in Job
    BY DEF IInv, TypeOK, CrawlJob
  <2> QED
    BY <1>2, <2>1, <2>2 DEF IInv, HandleOfAttempt
<1>5. LeaseBacked'
  <2> SUFFICES ASSUME NEW j \in Job, jobs'[j] # Null, jobs'[j].lease_token # Null
               PROVE  attempts'[jobs'[j].lease_token] = [job |-> j, status |-> "leased"]
    BY DEF LeaseBacked
  <2>1. jobs'[j] = jobs[j] /\ \A l \in Abandoned(seen, ts) : attempts[l].job # j
    BY ReapRows
  <2>2. /\ jobs[j].lease_token \in Token
        /\ attempts[jobs[j].lease_token] = [job |-> j, status |-> "leased"]
    BY <2>1 DEF IInv, TypeOK, JobRow, LeaseBacked
  <2>3. jobs[j].lease_token \notin Abandoned(seen, ts)
    BY <2>1, <2>2
  <2> QED
    BY <2>1, <2>2, <2>3, ReapAttempts
<1>6. HandleFresh'
  <2> SUFFICES ASSUME NEW l \in Token, Holds(l)'
               PROVE  handles'[l].attempt_count = jobs'[handles'[l].id].attempt_count
    BY DEF HandleFresh
  <2> DEFINE j == handles[l].id
  <2>1. handles[l] # Null /\ j \in Job /\ jobs'[j].lease_token = l
    BY <1>1 DEF Holds, IInv, TypeOK, CrawlJob
  <2>2. jobs'[j] = jobs[j]
    BY <2>1, ReapRows, NullAssumption, ZenonT(40)
  <2>3. attempts'[l] = attempts[l]
    BY <1>1, ReapAttempts DEF Holds
  <2> QED
    BY <1>1, <2>1, <2>2, <2>3 DEF Holds, IInv, HandleFresh
<1>7. RetryBounded'
  <2>1. ASSUME NEW l \in Token, Holds(l)'
        PROVE  /\ Holds(l) /\ handles'[l] = handles[l]
               /\ jobs'[handles[l].id].attempt_count = jobs[handles[l].id].attempt_count
    <3> DEFINE j == handles[l].id
    <3>1. handles[l] # Null /\ j \in Job /\ jobs'[j].lease_token = l
      BY <1>1, <2>1 DEF Holds, IInv, TypeOK, CrawlJob
    <3>2. jobs'[j] = jobs[j]
      BY <3>1, ReapRows, NullAssumption, ZenonT(40)
    <3>3. attempts'[l] = attempts[l]
      BY <1>1, <2>1, ReapAttempts DEF Holds
    <3> QED
      BY <1>1, <2>1, <3>1, <3>2, <3>3 DEF Holds
  <2>2. ASSUME NEW l \in Token, attempts[l] # Null,
               attempts[l].status \in {"failed", "abandoned"}
        PROVE  attempts'[l] = attempts[l] /\ handles'[l] = handles[l]
    <3>1. l \notin Abandoned(seen, ts)
      BY <2>2 DEF Abandoned
    <3> QED
      BY <1>1, <3>1, ReapAttempts
  <2>3. ASSUME NEW j \in Job, jobs'[j] # Null, jobs'[j] # jobs[j]
        PROVE  \E l \in Token : FailedWithin(j, l)'
    <3>1. PICK l \in Abandoned(seen, ts) :
            /\ attempts[l].job = j /\ l = jobs[j].lease_token
            /\ jobs'[j].attempt_count = jobs[j].attempt_count + 1
      BY <2>3, ReapRows
    <3>2. l \in Token /\ attempts[l] # Null /\ attempts[l].status = "leased"
      BY <3>1 DEF Abandoned
    <3>3. handles[l] \in CrawlJob /\ handles[l].id = j
      BY <3>1, <3>2 DEF IInv, TypeOK, HandleOfAttempt
    <3>4. Holds(l)
      BY <3>1, <3>2, <3>3, NullAssumption DEF Holds
    <3>5. jobs[j].attempt_count < handles[l].max_attempts /\ jobs[j].attempt_count \in Nat
      BY <3>2, <3>3, <3>4, HeldCount
    <3>6. handles[l].max_attempts \in Nat
      BY <3>3, BoundsAssumption DEF CrawlJob
    <3>7. jobs'[j].attempt_count <= handles'[l].max_attempts
      BY <1>1, <3>1, <3>5, <3>6
    <3>8. attempts'[l] # Null /\ attempts'[l].job = j /\ attempts'[l].status = "abandoned"
      BY <3>1, <3>2, ReapAttempts
    <3> QED
      BY <3>2, <3>7, <3>8 DEF FailedWithin
  <2>4. \A j \in Job : jobs'[j] # Null /\ jobs'[j].attempt_count > 0 =>
          \/ jobs[j] # Null /\ jobs'[j].attempt_count = jobs[j].attempt_count
          \/ \E l \in Token : FailedWithin(j, l)'
    BY <2>3
  <2> QED
    BY <2>1, <2>2, <2>4, RetryKept DEF IInv
<1>8. ErrorMatchesCount'
  <2> SUFFICES ASSUME NEW j \in Job, jobs'[j] # Null
               PROVE  jobs'[j].last_error_code = Null <=> jobs'[j].attempt_count = 0
    BY DEF ErrorMatchesCount
  <2>1. CASE jobs'[j] = jobs[j]
    BY <2>1 DEF IInv, ErrorMatchesCount
  <2>2. CASE jobs'[j] # jobs[j]
    <3>1. /\ jobs[j] \in JobRow
          /\ jobs'[j].attempt_count = jobs[j].attempt_count + 1
          /\ jobs'[j].last_error_code = "lease_expired"
      BY <2>2, ReapRows
    <3> QED
      BY <3>1, NullAssumption DEF JobRow, ErrorCode
  <2> QED
    BY <2>1, <2>2
<1> QED
  BY <1>3, <1>4, <1>5, <1>6, <1>7, <1>8 DEF IInv

\* Every step of the queue keeps the invariant.
LEMMA NextKeeps == IInv /\ [Next]_vars => IInv'
<1> SUFFICES ASSUME IInv, [Next]_vars PROVE IInv'
  OBVIOUS
<1>1. CASE Tick
  BY <1>1, TickKeeps
<1>2. CASE SeedAny
  BY <1>2, SeedKeeps DEF SeedAny
<1>3. CASE LeaseAny
  BY <1>3, LeaseKeeps DEF LeaseAny
<1>4. CASE \E l \in Token, ts \in Timestamp : Complete(l, ts) \/ Fail(l, ts)
  BY <1>4, CompleteKeeps, FailKeeps
<1>5. CASE ReapAny
  BY <1>5, ReapAnyReaps, ReapKeeps
<1>6. CASE UNCHANGED vars
  BY <1>6 DEF vars, IInv, TypeOK, HandleOfAttempt, LeaseBacked, HandleFresh, Holds,
              RetryBounded, FailedWithin, ErrorMatchesCount
<1> QED
  BY <1>1, <1>2, <1>3, <1>4, <1>5, <1>6 DEF Next

\* The inductive invariant holds throughout.
THEOREM Invariance == Spec => []IInv
<1>1. Init => IInv
  BY InitEstablishes
<1>2. IInv /\ [Next]_vars => IInv'
  BY NextKeeps
<1> QED
  BY <1>1, <1>2, PTL DEF Spec

\* The tables keep their types and the eal_crawl_jobs_lease_shape check.
THEOREM TypeCorrect == Spec => []TypeOK
<1>1. IInv => TypeOK
  BY DEF IInv
<1> QED
  BY <1>1, Invariance, PTL

\* The token of a leased job names an open attempt of that job, so reap_expired
\* can always free it.
THEOREM LeasesAreBacked == Spec => []LeaseBacked
<1>1. IInv => LeaseBacked
  BY DEF IInv
<1> QED
  BY <1>1, Invariance, PTL

\* The attempt_count a worker carries is the row's while it holds the job.
THEOREM HandlesAreFresh == Spec => []HandleFresh
<1>1. IInv => HandleFresh
  BY DEF IInv
<1> QED
  BY <1>1, Invariance, PTL

\* A job that is held has an attempt left of the max_attempts its row had when it
\* was leased, and no count of failures passes the limit one of them was leased
\* under (queue.rs: lease, fail, reap_expired and seed in between).
THEOREM RetriesAreBounded == Spec => []RetryBounded
<1>1. IInv => RetryBounded
  BY DEF IInv
<1> QED
  BY <1>1, Invariance, PTL

\* A job carries an error code exactly while it has failures to its count.
THEOREM ErrorsMatchCounts == Spec => []ErrorMatchesCount
<1>1. IInv => ErrorMatchesCount
  BY DEF IInv
<1> QED
  BY <1>1, Invariance, PTL

-----------------------------------------------------------------------------
(* What a step may never do *)

\* Settled attempts stay as they are (comment on eal_crawl_attempts).
THEOREM ReceiptsAreImmutable == Spec => ReceiptsImmutable
<1>1. ASSUME IInv, [Next]_vars PROVE [SettledReceiptKept]_vars
  <2> SUFFICES ASSUME IInv, Next, NEW l \in Token, attempts[l] # Null
               PROVE  \/ attempts'[l] = attempts[l]
                      \/ attempts[l].status = "leased" /\ attempts'[l].job = attempts[l].job
    BY <1>1 DEF SettledReceiptKept
  <2>1. CASE Tick \/ SeedAny
    BY <2>1 DEF Tick, SeedAny, Seed
  <2>2. CASE LeaseAny
    <3>1. PICK m \in Token, seconds \in LeaseTime, locked \in SUBSET Job, ts \in Timestamp :
            Lease(m, seconds, locked, ts)
      BY <2>2 DEF LeaseAny
    <3>2. m # l
      BY <3>1 DEF Lease
    <3> QED
      BY <3>1, <3>2 DEF Lease, IInv, TypeOK
  <2>3. CASE \E m \in Token, ts \in Timestamp : Complete(m, ts) \/ Fail(m, ts)
    BY <2>3 DEF Complete, Fail, Settle, Holds, IInv, TypeOK, AttemptRow
  <2>4. CASE ReapAny
    BY <2>4, ReapAnyReaps, ReapAttempts DEF Abandoned
  <2> QED
    BY <2>1, <2>2, <2>3, <2>4 DEF Next
<1> QED
  BY <1>1, Invariance, PTL DEF Spec, ReceiptsImmutable

\* What settling one lease does to the rows of every job and attempt.
LEMMA SettleRows ==
  ASSUME IInv, NEW m \in Token, NEW ts \in Timestamp, Complete(m, ts) \/ Fail(m, ts)
  PROVE  /\ Holds(m) /\ attempts[m] \in AttemptRow
         /\ handles[m].id \in Job /\ handles[m].id = attempts[m].job
         /\ jobs[handles[m].id] # Null /\ jobs[handles[m].id] \in JobRow
         /\ attempts'[m].status \in {"succeeded", "failed"}
         /\ attempts'[m].job = attempts[m].job
         /\ \A l \in Token : l # m => attempts'[l] = attempts[l]
         /\ jobs'[handles[m].id].lease_token = Null
         /\ \A j \in Job : j # handles[m].id => jobs'[j] = jobs[j]
<1> DEFINE row == jobs[handles[m].id]
<1>1. /\ Holds(m) /\ attempts[m] \in AttemptRow
      /\ handles[m].id \in Job /\ handles[m].id = attempts[m].job
      /\ row # Null /\ row \in JobRow
  BY DEF Complete, Fail, Settle, Holds, IInv, TypeOK, CrawlJob, HandleOfAttempt
<1>2. PICK outcome \in {"succeeded", "failed"} : \E next, count, code :
        Settle(m, outcome, Released(row, next, count, code))
  BY DEF Complete, Fail
<1>3. PICK next, count, code : Settle(m, outcome, Released(row, next, count, code))
  BY <1>2
<1>4. Released(row, next, count, code).lease_token = Null
  BY <1>1 DEF Released, JobRow
<1>5. /\ attempts' = [attempts EXCEPT ![m].status = outcome]
      /\ jobs' = [jobs EXCEPT ![handles[m].id] = Released(row, next, count, code)]
  BY <1>3 DEF Settle
<1>6. attempts'[m].status = outcome /\ attempts'[m].job = attempts[m].job
  BY <1>1, <1>5 DEF IInv, TypeOK, AttemptRow
<1>7. \A l \in Token : l # m => attempts'[l] = attempts[l]
  BY <1>5 DEF IInv, TypeOK
<1>8. /\ jobs'[handles[m].id].lease_token = Null
      /\ \A j \in Job : j # handles[m].id => jobs'[j] = jobs[j]
  BY <1>1, <1>4, <1>5 DEF IInv, TypeOK
<1> QED
  BY <1>1, <1>6, <1>7, <1>8

\* What a seed does to the lease columns of every job that has a row.
LEMMA SeedRows ==
  ASSUME IInv, SeedAny, NEW j \in Job, jobs[j] # Null
  PROVE  /\ jobs'[j].lease_token = jobs[j].lease_token
         /\ jobs'[j].lease_expires_at = jobs[j].lease_expires_at
         /\ jobs'[j].attempt_count = jobs[j].attempt_count
         /\ attempts' = attempts
<1>1. PICK k \in Job, enabled \in BOOLEAN, interval \in Interval,
           limit \in 1 .. AttemptCeiling, ts \in Timestamp :
             Seed(k, enabled, interval, limit, ts)
  BY DEF SeedAny
<1>2. jobs[j] \in JobRow /\ ts \in Nat
  BY TimestampIsPast DEF IInv, TypeOK
<1>3. CASE k = j
  <2>1. jobs'[j] = Reseeded(jobs[j], enabled, interval, limit, ts)
    BY <1>1, <1>3 DEF Seed, IInv, TypeOK
  <2> QED
    BY <1>1, <1>2, <2>1, ReseededRow DEF Seed
<1>4. CASE k # j
  BY <1>1, <1>4 DEF Seed, IInv, TypeOK
<1> QED
  BY <1>3, <1>4

\* What a lease does to the rows of every job and attempt.
LEMMA LeaseRows ==
  ASSUME IInv, LeaseAny
  PROVE  \E m \in Token, k \in Job, ts \in Timestamp :
           /\ attempts[m] = Null
           /\ jobs[k] \in JobRow /\ Ready(jobs[k], ts)
           /\ jobs'[k].lease_token = m
           /\ jobs'[k].attempt_count = jobs[k].attempt_count
           /\ \A j \in Job : j # k => jobs'[j] = jobs[j]
           /\ \A l \in Token : l # m => attempts'[l] = attempts[l]
           /\ attempts'[m] = [job |-> k, status |-> "leased"]
<1>1. PICK m \in Token, seconds \in LeaseTime, locked \in SUBSET Job, ts \in Timestamp :
        Lease(m, seconds, locked, ts)
  BY DEF LeaseAny
<1>2. PICK k \in Candidates(locked, ts) :
        /\ jobs' = [jobs EXCEPT ![k] = Leased(jobs[k], m, ts + seconds)]
        /\ attempts' = [attempts EXCEPT ![m] = [job |-> k, status |-> "leased"]]
  BY <1>1 DEF Lease
<1>3. k \in Job /\ jobs[k] \in JobRow /\ Ready(jobs[k], ts)
  BY DEF Candidates, IInv, TypeOK
<1>4. ts + seconds \in Nat
  BY TimestampIsPast, BoundsAssumption DEF IInv
<1>5. jobs'[k] = Leased(jobs[k], m, ts + seconds)
  BY <1>2, <1>3 DEF IInv, TypeOK
<1>6. jobs'[k].lease_token = m /\ jobs'[k].attempt_count = jobs[k].attempt_count
  BY <1>3, <1>4, <1>5, LeasedRow
<1>7. /\ \A j \in Job : j # k => jobs'[j] = jobs[j]
      /\ \A l \in Token : l # m => attempts'[l] = attempts[l]
      /\ attempts'[m] = [job |-> k, status |-> "leased"]
  BY <1>2 DEF IInv, TypeOK
<1>8. attempts[m] = Null
  BY <1>1 DEF Lease
<1> QED
  BY <1>3, <1>6, <1>7, <1>8

\* No operation but complete() or fail() by its holder ends an unexpired lease.
LEMMA LiveLeaseStep ==
  ASSUME IInv, [Next]_vars PROVE LiveLeaseEndedByHolder
<1> SUFFICES ASSUME NEW j \in Job, jobs[j] # Null, jobs[j].lease_token # Null,
                    now <= jobs[j].lease_expires_at, NEW l, l = jobs[j].lease_token
             PROVE  \/ /\ jobs'[j].lease_token = l
                       /\ jobs'[j].lease_expires_at = jobs[j].lease_expires_at
                       /\ attempts'[l].status = "leased"
                    \/ /\ jobs'[j].lease_token = Null
                       /\ attempts'[l].status \in {"succeeded", "failed"}
  BY DEF LiveLeaseEndedByHolder
<1>1. /\ jobs[j] \in JobRow /\ l \in Token
      /\ attempts[l] = [job |-> j, status |-> "leased"]
      /\ jobs[j].lease_expires_at \in Nat
  BY DEF IInv, TypeOK, JobRow, LeaseBacked
<1>2. attempts[l] # Null
  BY <1>1, NullAssumption DEF IInv, TypeOK, AttemptRow, Status
<1>3. \A ts \in Timestamp : ~LeaseLapsed(jobs[j], ts)
  BY <1>1, TimestampIsPast DEF LeaseLapsed, IInv, TypeOK
<1>4. CASE Tick
  BY <1>1, <1>4 DEF Tick
<1>5. CASE SeedAny
  BY <1>1, <1>5, SeedRows
<1>6. CASE LeaseAny
  <2>1. PICK m \in Token, k \in Job, ts \in Timestamp :
          /\ attempts[m] = Null /\ Ready(jobs[k], ts)
          /\ \A i \in Job : i # k => jobs'[i] = jobs[i]
          /\ \A i \in Token : i # m => attempts'[i] = attempts[i]
    BY <1>6, LeaseRows
  <2>2. k # j /\ m # l
    BY <1>2, <1>3, <2>1 DEF Ready
  <2> QED
    BY <1>1, <2>1, <2>2
<1>7. CASE \E m \in Token, ts \in Timestamp : Complete(m, ts) \/ Fail(m, ts)
  <2>1. PICK m \in Token, ts \in Timestamp : Complete(m, ts) \/ Fail(m, ts)
    BY <1>7
  <2>2. CASE handles[m].id = j
    <3>1. m = l
      BY <2>1, <2>2, SettleRows DEF Holds
    <3> QED
      BY <2>1, <2>2, <3>1, SettleRows
  <2>3. CASE handles[m].id # j
    <3>1. m # l
      BY <1>1, <2>1, <2>3, SettleRows
    <3> QED
      BY <1>1, <2>1, <2>3, <3>1, SettleRows
  <2> QED
    BY <2>2, <2>3
<1>8. CASE ReapAny
  <2>1. PICK ts \in Timestamp, seen \in SUBSET Token : Reap(seen, ts)
    BY <1>8, ReapAnyReaps
  <2>2. l \notin Abandoned(seen, ts) /\ \A m \in Abandoned(seen, ts) : attempts[m].job # j
    BY <1>1, <1>3 DEF Abandoned, Expired
  <2>3. jobs'[j] = jobs[j]
    BY <2>1, <2>2, ReapRows
  <2>4. attempts'[l] = attempts[l]
    BY <1>1, <2>1, <2>2, ReapAttempts
  <2> QED
    BY <1>1, <2>3, <2>4
<1>9. CASE UNCHANGED vars
  BY <1>1, <1>9 DEF vars
<1> QED
  BY <1>4, <1>5, <1>6, <1>7, <1>8, <1>9 DEF Next

\* An unexpired lease is ended only by its holder (queue.rs, every WHERE clause
\* on lease_token and lease_expires_at).
THEOREM LiveLeasesAreKept == Spec => LiveLeaseKept
<1>1. IInv /\ [Next]_vars => [LiveLeaseEndedByHolder]_vars
  BY LiveLeaseStep
<1> QED
  BY <1>1, Invariance, PTL DEF Spec, LiveLeaseKept

\* No step frees a job and leaves its attempt open, except a lease of that job
\* after the old lease expired (queue.rs, lease).
THEOREM OrphansComeFromLease == Spec => OrphanOnlyByLease
<1>1. ASSUME IInv, [Next]_vars PROVE [OpenAttemptKeepsJobLeased]_vars
  <2> SUFFICES ASSUME IInv, Next, NEW l \in Token, Holds(l), attempts'[l].status = "leased",
                      NEW j, j = handles[l].id
               PROVE  jobs'[j].lease_token # Null
    BY <1>1 DEF OpenAttemptKeepsJobLeased
  <2>1. j \in Job /\ jobs[j] # Null /\ jobs[j].lease_token = l /\ l # Null
    BY NullAssumption DEF Holds, IInv, TypeOK, CrawlJob, HandleOfAttempt
  <2>2. CASE Tick
    BY <2>1, <2>2 DEF Tick
  <2>3. CASE SeedAny
    BY <2>1, <2>3, SeedRows
  <2>4. CASE LeaseAny
    BY <2>1, <2>4, LeaseRows, NullAssumption
  <2>5. CASE \E m \in Token, ts \in Timestamp : Complete(m, ts) \/ Fail(m, ts)
    <3>1. PICK m \in Token, ts \in Timestamp : Complete(m, ts) \/ Fail(m, ts)
      BY <2>5
    <3>2. m # l
      BY <3>1, SettleRows
    <3>3. handles[m].id # j
      BY <2>1, <3>1, <3>2, SettleRows DEF Holds
    <3> QED
      BY <2>1, <3>1, <3>3, SettleRows
  <2>6. CASE ReapAny
    <3>1. PICK ts \in Timestamp, seen \in SUBSET Token : Reap(seen, ts)
      BY <2>6, ReapAnyReaps
    <3>2. l \notin Abandoned(seen, ts)
      BY <3>1, ReapAttempts
    <3>3. jobs'[j] = jobs[j]
      BY <2>1, <3>1, <3>2, ReapRows
    <3> QED
      BY <2>1, <3>3
  <2> QED
    BY <2>2, <2>3, <2>4, <2>5, <2>6 DEF Next
<1> QED
  BY <1>1, Invariance, PTL DEF Spec, OrphanOnlyByLease

\* The count and the schedule that fail() writes, and the count complete() does.
LEMMA SettleCounts ==
  ASSUME IInv, NEW m \in Token, NEW ts \in Timestamp
  PROVE  /\ Complete(m, ts) =>
              attempts'[m].status = "succeeded" /\ jobs'[handles[m].id].attempt_count = 0
         /\ Fail(m, ts) =>
              LET row == jobs[handles[m].id]
                  new == jobs'[handles[m].id]
              IN  /\ attempts'[m].status = "failed"
                  /\ new.attempt_count = row.attempt_count + 1
                  /\ handles[m].attempt_count = row.attempt_count
                  /\ new.next_run_at = ts + Backoff[handles[m].attempt_count + 1]
<1> DEFINE row == jobs[handles[m].id]
           new == jobs'[handles[m].id]
<1>1. ASSUME Complete(m, ts)
      PROVE  attempts'[m].status = "succeeded" /\ new.attempt_count = 0
  <2>1. row \in JobRow /\ handles[m].id \in Job /\ attempts[m] \in AttemptRow
    BY <1>1, SettleRows
  <2>2. new = Released(row, ts + row.interval_seconds, 0, Null)
    BY <1>1, <2>1 DEF Complete, Settle, IInv, TypeOK
  <2>3. attempts'[m].status = "succeeded"
    BY <1>1, <2>1 DEF Complete, Settle, IInv, TypeOK, AttemptRow
  <2> QED
    BY <2>1, <2>2, <2>3 DEF Released, JobRow
<1>2. ASSUME Fail(m, ts)
      PROVE  /\ attempts'[m].status = "failed"
             /\ new.attempt_count = row.attempt_count + 1
             /\ handles[m].attempt_count = row.attempt_count
             /\ new.next_run_at = ts + Backoff[handles[m].attempt_count + 1]
  <2>1. row \in JobRow /\ handles[m].id \in Job /\ attempts[m] \in AttemptRow /\ Holds(m)
    BY <1>2, SettleRows
  <2>2. new = Released(row, ts + Backoff[handles[m].attempt_count + 1],
                       row.attempt_count + 1, "failed")
    BY <1>2, <2>1 DEF Fail, Settle, IInv, TypeOK
  <2>3. attempts'[m].status = "failed"
    BY <1>2, <2>1 DEF Fail, Settle, IInv, TypeOK, AttemptRow
  <2>4. handles[m].attempt_count = row.attempt_count
    BY <2>1 DEF IInv, HandleFresh
  <2> QED
    BY <2>1, <2>2, <2>3, <2>4 DEF Released, JobRow
<1> QED
  BY <1>1, <1>2

\* The n-th failure in a row waits retry_backoff_seconds(n), up to the lag of
\* now() (queue.rs, fail): the worker's copy of the count is the row's.
THEOREM BackoffIsHonoured == Spec => BackoffHonoured
<1>1. ASSUME IInv, [Next]_vars PROVE [FailureWaitsOut]_vars
  <2> SUFFICES ASSUME IInv, Next, NEW l \in Token, attempts[l] # Null,
                      attempts[l].status = "leased", attempts'[l].status = "failed"
               PROVE  LET new == jobs'[attempts[l].job]
                      IN  /\ new.next_run_at + MaxLag >= now + Backoff[new.attempt_count]
                          /\ new.next_run_at <= now + Backoff[new.attempt_count]
    BY <1>1 DEF FailureWaitsOut
  <2>1. CASE Tick \/ SeedAny
    BY <2>1 DEF Tick, SeedAny, Seed
  <2>2. CASE LeaseAny
    BY <2>2, LeaseRows
  <2>3. CASE \E m \in Token, ts \in Timestamp : Complete(m, ts) \/ Fail(m, ts)
    <3>1. PICK m \in Token, ts \in Timestamp : Complete(m, ts) \/ Fail(m, ts)
      BY <2>3
    <3>2. m = l
      BY <3>1, SettleRows
    <3>3. Fail(l, ts)
      BY <3>1, <3>2, SettleCounts
    <3> DEFINE row == jobs[handles[l].id]
               new == jobs'[handles[l].id]
               wait == Backoff[row.attempt_count + 1]
    <3>4. /\ row # Null /\ row \in JobRow /\ handles[l].id \in Job
          /\ handles[l].id = attempts[l].job /\ row.lease_token = l
      BY <3>3, SettleRows DEF Holds
    <3>5. new.next_run_at = ts + wait /\ new.attempt_count = row.attempt_count + 1
      BY <3>3, SettleCounts
    <3>6. row.attempt_count \in Nat /\ row.attempt_count < AttemptCeiling
      BY <3>3, HeldCount DEF Fail, Settle
    <3>7. wait \in Nat /\ MaxLag \in Nat
      <4>1. row.attempt_count + 1 \in 1 .. AttemptCeiling
        BY <3>6, BoundsAssumption
      <4> QED
        BY <4>1, BoundsAssumption
    <3>8. ts \in Nat /\ now \in Nat /\ ts <= now /\ now - ts <= MaxLag
      BY DEF Timestamp, IInv, TypeOK
    <3> QED
      <4>1. new.next_run_at + MaxLag >= now + wait /\ new.next_run_at <= now + wait
        BY <3>5, <3>7, <3>8
      <4> QED
        BY <3>4, <3>5, <4>1
  <2>4. CASE ReapAny
    BY <2>4, ReapAnyReaps, ReapAttempts
  <2> QED
    BY <2>1, <2>2, <2>3, <2>4 DEF Next
<1> QED
  BY <1>1, Invariance, PTL DEF Spec, BackoffHonoured

\* Every failed or abandoned attempt is counted once, and only a success clears
\* the count (queue.rs, complete, fail and reap_expired).
THEOREM FailuresAreCounted == Spec => RetryAccounting
<1>1. ASSUME IInv, [Next]_vars PROVE [FailuresCounted]_vars
  <2> DEFINE Lost == {"failed", "abandoned"}
  <2> SUFFICES ASSUME IInv, Next, NEW j \in Job, jobs[j] # Null
               PROVE  /\ Closed(j, Lost) # {} <=>
                           jobs'[j].attempt_count = jobs[j].attempt_count + 1
                      /\ jobs'[j].attempt_count < jobs[j].attempt_count =>
                           Closed(j, {"succeeded"}) # {}
    BY <1>1 DEF FailuresCounted
  <2>1. jobs[j] \in JobRow /\ jobs[j].attempt_count \in Nat
    BY DEF IInv, TypeOK, JobRow
  <2>2. ASSUME jobs'[j].attempt_count = jobs[j].attempt_count,
               \A l \in Token : attempts[l] # Null => attempts'[l] = attempts[l]
        PROVE  /\ Closed(j, Lost) = {}
               /\ jobs'[j].attempt_count # jobs[j].attempt_count + 1
               /\ ~(jobs'[j].attempt_count < jobs[j].attempt_count)
    BY <2>1, <2>2 DEF Closed
  <2>3. CASE Tick
    BY <2>2, <2>3 DEF Tick
  <2>4. CASE SeedAny
    BY <2>2, <2>4, SeedRows
  <2>5. CASE LeaseAny
    <3>1. PICK m \in Token, k \in Job :
            /\ attempts[m] = Null
            /\ jobs'[k].attempt_count = jobs[k].attempt_count
            /\ \A i \in Job : i # k => jobs'[i] = jobs[i]
            /\ \A l \in Token : l # m => attempts'[l] = attempts[l]
      BY <2>5, LeaseRows
    <3> QED
      BY <2>2, <3>1
  <2>6. CASE \E m \in Token, ts \in Timestamp : Complete(m, ts) \/ Fail(m, ts)
    <3>1. PICK m \in Token, ts \in Timestamp : Complete(m, ts) \/ Fail(m, ts)
      BY <2>6
    <3>2. /\ attempts[m].job = handles[m].id /\ attempts[m].status = "leased"
          /\ attempts[m] # Null
          /\ \A l \in Token : l # m => attempts'[l] = attempts[l]
      BY <3>1, SettleRows, NullAssumption DEF Holds
    <3>3. CASE handles[m].id # j
      <4>1. jobs'[j] = jobs[j]
        BY <3>1, <3>3, SettleRows
      <4>2. \A outcomes : m \notin Closed(j, outcomes)
        BY <3>2, <3>3 DEF Closed
      <4>3. Closed(j, Lost) = {}
        BY <3>2, <4>2 DEF Closed
      <4> QED
        BY <2>1, <4>1, <4>3
    <3>4. CASE handles[m].id = j /\ Complete(m, ts)
      <4>1. attempts'[m].status = "succeeded" /\ jobs'[j].attempt_count = 0
        BY <3>4, SettleCounts
      <4>2. m \in Closed(j, {"succeeded"})
        BY <3>2, <3>4, <4>1 DEF Closed
      <4>3. Closed(j, Lost) = {}
        BY <3>2, <4>1 DEF Closed
      <4> QED
        BY <2>1, <4>1, <4>2, <4>3
    <3>5. CASE handles[m].id = j /\ Fail(m, ts)
      <4>1. /\ attempts'[m].status = "failed"
            /\ jobs'[j].attempt_count = jobs[j].attempt_count + 1
        BY <3>5, SettleCounts
      <4>2. m \in Closed(j, Lost)
        BY <3>2, <3>5, <4>1 DEF Closed
      <4> QED
        BY <2>1, <4>1, <4>2
    <3> QED
      BY <3>1, <3>3, <3>4, <3>5
  <2>7. CASE ReapAny
    <3>1. PICK ts \in Timestamp, seen \in SUBSET Token : Reap(seen, ts)
      BY <2>7, ReapAnyReaps
    <3>2. CASE \A l \in Abandoned(seen, ts) : attempts[l].job # j
      <4>1. jobs'[j] = jobs[j]
        BY <3>1, <3>2, ReapRows
      <4>2. Closed(j, Lost) = {}
        BY <3>1, <3>2, ReapAttempts DEF Closed
      <4> QED
        BY <2>1, <4>1, <4>2
    <3>3. CASE \E l \in Abandoned(seen, ts) : attempts[l].job = j
      <4>1. PICK l \in Abandoned(seen, ts) : attempts[l].job = j
        BY <3>3
      <4>2. jobs'[j].attempt_count = jobs[j].attempt_count + 1
        BY <3>1, <4>1, ReapRows
      <4>3. l \in Token /\ attempts[l] # Null /\ attempts[l].status = "leased"
        BY <4>1 DEF Abandoned
      <4>4. attempts'[l].status = "abandoned"
        BY <3>1, <4>1, <4>3, ReapAttempts
      <4>5. attempts'[l].status \in Lost
        BY <4>4 DEF Lost
      <4>6. attempts[l].job = j /\ l \in Token
        BY <4>1, <4>3
      <4>7. l \in Closed(j, Lost)
        BY <4>3, <4>5, <4>6 DEF Closed
      <4> QED
        BY <2>1, <4>2, <4>7
    <3> QED
      BY <3>2, <3>3
  <2> QED
    BY <2>3, <2>4, <2>5, <2>6, <2>7 DEF Next
<1> QED
  BY <1>1, Invariance, PTL DEF Spec, RetryAccounting

-------------------------------------------------------------------------------
(***************************************************************************)
(* The crawl queue implements the lease ledger, for every value of the     *)
(* constants: under the queue's invariant each of its transactions is a    *)
(* step of the ledger, or leaves it alone.                                 *)
(***************************************************************************)

(* Empty tables are an empty ledger. *)
LEMMA InitIsLedgerInit == Init => Ledger!Init
BY DEF Init, Ledger!Init, HolderOf, LapsedJobs, ReceiptOf, StreakOf

\* Leases only ever run out as time passes.
LEMMA TickIsLedgerStep ==
  ASSUME IInv, Tick PROVE Ledger!Next
<1>1. LapsedJobs \subseteq LapsedJobs'
  <2> SUFFICES ASSUME NEW j \in Job, jobs[j] # Null, LeaseLapsed(jobs[j], now)
               PROVE  LeaseLapsed(jobs[j], now')
    BY DEF LapsedJobs, Tick
  <2>1. jobs[j].lease_token # Null /\ jobs[j].lease_expires_at < now
    BY DEF LeaseLapsed
  <2>2. jobs[j].lease_expires_at \in Nat
    BY <2>1, NullAssumption DEF IInv, TypeOK, JobRow
  <2> QED
    BY <2>1, <2>2 DEF LeaseLapsed, Tick, IInv, TypeOK
<1>2. \A j \in LapsedJobs' : HolderOf[j] # Null
  BY DEF LapsedJobs, LeaseLapsed, HolderOf, Tick
<1>3. HolderOf' = HolderOf /\ ReceiptOf' = ReceiptOf /\ StreakOf' = StreakOf
  BY DEF HolderOf, ReceiptOf, StreakOf, Tick
<1>4. LapsedJobs' \in SUBSET Job
  BY DEF LapsedJobs
<1>5. Ledger!Lapse(LapsedJobs')
  BY <1>1, <1>2, <1>3 DEF Ledger!Lapse
<1> QED
  BY <1>4, <1>5 DEF Ledger!Next

\* Seeding and reseeding are none of the ledger's business.
LEMMA SeedLeavesLedger ==
  ASSUME IInv, SeedAny PROVE UNCHANGED Ledger!ledgerVars
<1>1. PICK k \in Job, enabled \in BOOLEAN, interval \in Interval,
           limit \in 1 .. AttemptCeiling, ts \in Timestamp :
             Seed(k, enabled, interval, limit, ts)
  BY DEF SeedAny
<1>2. ts \in Nat
  BY TimestampIsPast DEF IInv
<1>3. \A j \in Job : jobs[j] = Null =>
        \/ jobs'[j] = Null
        \/ /\ jobs'[j] # Null
           /\ jobs'[j].lease_token = Null
           /\ jobs'[j].attempt_count = 0
  BY <1>1, <1>2, InsertedRow DEF Seed, IInv, TypeOK
<1>4. \A j \in Job : jobs[j] # Null => jobs'[j] # Null
  BY <1>1, <1>2, ReseededRow DEF Seed, IInv, TypeOK
<1>5. \A j \in Job : jobs[j] # Null =>
        /\ jobs'[j].lease_token = jobs[j].lease_token
        /\ jobs'[j].lease_expires_at = jobs[j].lease_expires_at
        /\ jobs'[j].attempt_count = jobs[j].attempt_count
  BY SeedRows
<1>6. attempts' = attempts /\ now' = now
  BY <1>1 DEF Seed
<1>7. HolderOf' = HolderOf /\ StreakOf' = StreakOf
  BY <1>3, <1>4, <1>5 DEF HolderOf, StreakOf
<1>8. LapsedJobs' = LapsedJobs
  BY <1>3, <1>4, <1>5, <1>6 DEF LapsedJobs, LeaseLapsed
<1>9. ReceiptOf' = ReceiptOf
  BY <1>6 DEF ReceiptOf
<1> QED
  BY <1>7, <1>8, <1>9 DEF Ledger!ledgerVars

\* lease() grants a job that nobody holds or whose lease has run out by a time
\* that is past.
LEMMA LeaseIsLedgerStep ==
  ASSUME IInv, LeaseAny PROVE Ledger!Next
<1>1. PICK m \in Token, k \in Job, ts \in Timestamp :
           /\ attempts[m] = Null
           /\ jobs[k] \in JobRow /\ Ready(jobs[k], ts)
           /\ jobs'[k].lease_token = m
           /\ jobs'[k].attempt_count = jobs[k].attempt_count
           /\ \A j \in Job : j # k => jobs'[j] = jobs[j]
           /\ \A l \in Token : l # m => attempts'[l] = attempts[l]
           /\ attempts'[m] = [job |-> k, status |-> "leased"]
  BY LeaseRows
<1>2. now' = now
  BY DEF LeaseAny, Lease
<1>4. jobs[k] # Null /\ jobs'[k] # Null
  <2>1. jobs[k] # Null
    BY <1>1, NullAssumption
  <2>2. jobs'[k] # Null
    <3>1. PICK l \in Token, seconds \in LeaseTime, locked \in SUBSET Job, t \in Timestamp :
            Lease(l, seconds, locked, t)
      BY DEF LeaseAny
    <3>2. PICK j \in Candidates(locked, t) :
            jobs' = [jobs EXCEPT ![j] = Leased(jobs[j], l, t + seconds)]
      BY <3>1 DEF Lease
    <3>3. j \in Job /\ jobs[j] \in JobRow /\ t + seconds \in Nat
      BY TimestampIsPast, BoundsAssumption DEF Candidates, IInv, TypeOK
    <3>4. Leased(jobs[j], l, t + seconds) # Null
      BY <3>3, LeasedRow
    <3> QED
      BY <2>1, <3>2, <3>3, <3>4 DEF IInv, TypeOK
  <2> QED
    BY <2>1, <2>2
<1>5. HolderOf[k] = Null \/ k \in LapsedJobs
  <2>1. ts \in Nat /\ ts <= now
    BY TimestampIsPast DEF IInv
  <2>2. CASE LeaseLapsed(jobs[k], ts)
    <3>1. jobs[k].lease_token # Null /\ jobs[k].lease_expires_at < ts
      BY <2>2 DEF LeaseLapsed
    <3>2. jobs[k].lease_expires_at \in Nat
      BY <1>4, <3>1, NullAssumption DEF IInv, TypeOK, JobRow
    <3>3. jobs[k].lease_expires_at < now
      BY <2>1, <3>1, <3>2 DEF IInv, TypeOK
    <3> QED
      BY <1>4, <3>1, <3>3 DEF LapsedJobs, LeaseLapsed
  <2> QED
    BY <1>1, <1>4, <2>2 DEF Ready, HolderOf
<1>6. ReceiptOf[m] = "unused"
  BY <1>1 DEF ReceiptOf
<1>7. HolderOf' = [HolderOf EXCEPT ![k] = m]
  BY <1>1, <1>4 DEF HolderOf
<1>8. ReceiptOf' = [ReceiptOf EXCEPT ![m] = "leased"]
  <2>1. attempts'[m] \in AttemptRow
    BY <1>1 DEF AttemptRow, Status
  <2>2. attempts'[m] # Null /\ attempts'[m].status = "leased"
    BY <1>1, <2>1, NullAssumption
  <2> QED
    BY <1>1, <2>2 DEF ReceiptOf
<1>9. StreakOf' = StreakOf
  BY <1>1, <1>4 DEF StreakOf
<1>10. \A j \in Job : j # k => (j \in LapsedJobs' <=> j \in LapsedJobs)
  BY <1>1, <1>2 DEF LapsedJobs
<1>11. \E late \in BOOLEAN : Ledger!Grant(k, m, late)
  <2>1. CASE k \in LapsedJobs'
    <3>1. LapsedJobs' = LapsedJobs \cup {k}
      BY <1>10, <2>1 DEF LapsedJobs
    <3> QED
      BY <1>5, <1>6, <1>7, <1>8, <1>9, <3>1 DEF Ledger!Grant
  <2>2. CASE k \notin LapsedJobs'
    <3>1. LapsedJobs' = LapsedJobs \ {k}
      BY <1>10, <2>2 DEF LapsedJobs
    <3> QED
      BY <1>5, <1>6, <1>7, <1>8, <1>9, <3>1 DEF Ledger!Grant
  <2> QED
    BY <2>1, <2>2
<1> QED
  BY <1>11 DEF Ledger!Next

\* complete() and fail() are the holder's settlement: Holds is the holder's right.
LEMMA SettleIsLedgerStep ==
  ASSUME IInv, NEW m \in Token, NEW ts \in Timestamp, Complete(m, ts) \/ Fail(m, ts)
  PROVE  Ledger!Next
<1> DEFINE k == handles[m].id
           outcome == attempts'[m].status
<1>1. /\ Holds(m) /\ attempts[m] \in AttemptRow
      /\ k \in Job /\ jobs[k] # Null /\ jobs[k] \in JobRow
      /\ outcome \in {"succeeded", "failed"}
      /\ \A l \in Token : l # m => attempts'[l] = attempts[l]
      /\ jobs'[k].lease_token = Null
      /\ \A j \in Job : j # k => jobs'[j] = jobs[j]
  BY SettleRows
<1>2. attempts[m] # Null /\ attempts[m].status = "leased" /\ jobs[k].lease_token = m
  BY <1>1, NullAssumption DEF Holds
<1>3. now' = now
  BY DEF Complete, Fail, Settle
<1>5. jobs'[k] # Null
  <2>1. ts \in Nat
    BY TimestampIsPast DEF IInv
  <2>2. CASE Complete(m, ts)
    <3>1. jobs'[k] = Released(jobs[k], ts + jobs[k].interval_seconds, 0, Null)
      BY <1>1, <2>2 DEF Complete, Settle, IInv, TypeOK
    <3>2. jobs[k].interval_seconds \in Nat
      BY <1>1, BoundsAssumption DEF JobRow
    <3>3. ts + jobs[k].interval_seconds \in Nat
      BY <2>1, <3>2
    <3> QED
      BY <1>1, <3>1, <3>3, ReleasedRow
  <2>3. CASE Fail(m, ts)
    <3>1. jobs'[k] = Released(jobs[k], ts + Backoff[handles[m].attempt_count + 1],
                              jobs[k].attempt_count + 1, "failed")
      BY <1>1, <2>3 DEF Fail, Settle, IInv, TypeOK
    <3>2. handles[m].attempt_count = jobs[k].attempt_count
      BY <1>1 DEF IInv, HandleFresh
    <3>3. jobs[k].attempt_count \in Nat /\ jobs[k].attempt_count < AttemptCeiling
      BY <1>1, HeldCount
    <3>4. jobs[k].attempt_count + 1 \in 1 .. AttemptCeiling
      BY <3>3, BoundsAssumption
    <3>5. ts + Backoff[handles[m].attempt_count + 1] \in Nat
      BY <2>1, <3>2, <3>4, BoundsAssumption, SMTT(30)
    <3>6. jobs[k].attempt_count + 1 \in Nat /\ "failed" \in ErrorCode
      BY <3>4 DEF ErrorCode
    <3> DEFINE next == ts + Backoff[handles[m].attempt_count + 1]
               count == jobs[k].attempt_count + 1
    <3>7. jobs'[k] = Released(jobs[k], next, count, "failed") /\ next \in Nat /\ count \in Nat
      BY <3>1, <3>5, <3>6
    <3> HIDE DEF next, count
    <3> QED
      BY <1>1, <3>6, <3>7, ReleasedRow
  <2> QED
    BY <2>2, <2>3
<1>6. attempts'[m] # Null
  <2>1. attempts'[m] = [attempts[m] EXCEPT !.status = outcome]
    BY <1>1 DEF Complete, Fail, Settle, IInv, TypeOK, AttemptRow
  <2>2. attempts'[m] \in AttemptRow
    BY <1>1, <2>1 DEF AttemptRow, Status
  <2> QED
    BY <2>2, NullAssumption
<1>7. HolderOf[k] = m /\ HolderOf[k] # Null
  BY <1>1, <1>2, NullAssumption DEF HolderOf
<1>8. ReceiptOf[m] = "leased"
  BY <1>2 DEF ReceiptOf
<1>9. ReceiptOf' = [ReceiptOf EXCEPT ![m] = outcome]
  BY <1>1, <1>6 DEF ReceiptOf
<1>10. HolderOf' = [HolderOf EXCEPT ![k] = Null]
  BY <1>1, <1>5 DEF HolderOf
<1>11. LapsedJobs' = LapsedJobs \ {k}
  BY <1>1, <1>3 DEF LapsedJobs, LeaseLapsed
<1>12. StreakOf' = [StreakOf EXCEPT ![k] = IF outcome = "succeeded" THEN 0 ELSE StreakOf[k] + 1]
  <2>1. jobs'[k].attempt_count = IF outcome = "succeeded" THEN 0 ELSE jobs[k].attempt_count + 1
    BY SettleCounts
  <2> QED
    BY <1>1, <1>5, <2>1 DEF StreakOf
<1>13. Ledger!Settle(k, outcome)
  BY <1>7, <1>8, <1>9, <1>10, <1>11, <1>12 DEF Ledger!Settle
<1> QED
  BY <1>1, <1>13 DEF Ledger!Next, Ledger!Outcome

\* reap_expired() abandons the leases it finds lapsed, all at once.
LEMMA ReapIsLedgerStep ==
  ASSUME IInv, ReapAny PROVE Ledger!Next
<1>1. PICK ts \in Timestamp, seen \in SUBSET Token : Reap(seen, ts)
  BY ReapAnyReaps
<1> DEFINE ended == {j \in Job : \E l \in Abandoned(seen, ts) : attempts[l].job = j}
<1>2. \A j \in Job \ ended : jobs'[j] = jobs[j]
  BY <1>1, ReapRows
<1>3. \A j \in ended :
        /\ jobs[j].lease_token \in Abandoned(seen, ts)
        /\ jobs[j] # Null /\ jobs[j] \in JobRow /\ LeaseLapsed(jobs[j], ts)
        /\ jobs'[j] # Null /\ jobs'[j].lease_token = Null
        /\ jobs'[j].attempt_count = jobs[j].attempt_count + 1
  BY <1>1, ReapRows
<1>4. \A l \in Abandoned(seen, ts) :
        /\ l \in Token /\ attempts[l] # Null /\ attempts[l].status = "leased"
        /\ attempts[l].job \in ended /\ jobs[attempts[l].job].lease_token = l
  BY DEF Abandoned, Expired
<1>5. ts \in Nat /\ ts <= now /\ now' = now /\ now \in Nat
  BY <1>1, TimestampIsPast DEF Reap, IInv, TypeOK
<1>6. \A j \in ended : j \in LapsedJobs
  <2> TAKE j \in ended
  <2>1. jobs[j].lease_token # Null /\ jobs[j].lease_expires_at < ts
    BY <1>3 DEF LeaseLapsed
  <2>2. jobs[j].lease_expires_at \in Nat
    BY <1>3, <2>1, NullAssumption DEF IInv, TypeOK, JobRow
  <2> QED
    BY <1>3, <1>5, <2>1, <2>2 DEF LapsedJobs, LeaseLapsed
<1>7. \A j \in ended : HolderOf[j] = jobs[j].lease_token
  BY <1>3 DEF HolderOf
<1>8. \A j \in ended : ReceiptOf[HolderOf[j]] = "leased"
  BY <1>3, <1>4, <1>7 DEF ReceiptOf
<1>9. \A l \in Token : l \in Abandoned(seen, ts) <=> \E j \in ended : HolderOf[j] = l
  BY <1>3, <1>4, <1>7
<1>10. ReceiptOf' = [l \in Token |-> IF \E j \in ended : HolderOf[j] = l
                                    THEN "abandoned" ELSE ReceiptOf[l]]
  <2>1. \A l \in Token : ReceiptOf'[l] = IF l \in Abandoned(seen, ts)
                                        THEN "abandoned" ELSE ReceiptOf[l]
    <3> TAKE l \in Token
    <3>1. CASE l \in Abandoned(seen, ts)
      <4>1. attempts'[l] # Null /\ attempts'[l].status = "abandoned"
        BY <1>1, <3>1, ReapAttempts, ZenonT(40)
      <4> QED
        BY <3>1, <4>1 DEF ReceiptOf
    <3>2. CASE l \notin Abandoned(seen, ts)
      <4>1. attempts'[l] = attempts[l]
        BY <1>1, <3>2, ReapAttempts
      <4> QED
        BY <3>2, <4>1 DEF ReceiptOf
    <3> QED
      BY <3>1, <3>2
  <2> QED
    BY <1>9, <2>1 DEF ReceiptOf
<1>11. HolderOf' = [j \in Job |-> IF j \in ended THEN Null ELSE HolderOf[j]]
  BY <1>2, <1>3 DEF HolderOf
<1>12. LapsedJobs' = LapsedJobs \ ended
  BY <1>2, <1>3, <1>5 DEF LapsedJobs, LeaseLapsed
<1>13. StreakOf' = [j \in Job |-> IF j \in ended THEN StreakOf[j] + 1 ELSE StreakOf[j]]
  BY <1>2, <1>3 DEF StreakOf
<1>14. Ledger!Abandon(ended)
  BY <1>6, <1>8, <1>10, <1>11, <1>12, <1>13 DEF Ledger!Abandon
<1> QED
  BY <1>14 DEF Ledger!Next

\* Every transaction of the queue is a step of the ledger of leases, or leaves it
\* alone: no job whose lease lives is granted or abandoned, no receipt is closed
\* twice, no failure is miscounted (queue.rs, all operations).
THEOREM QueueImplementsLedger == Spec => ImplementsLedger
<1>1. ASSUME IInv, [Next]_vars PROVE [Ledger!Next]_(Ledger!ledgerVars)
  <2>1. CASE Tick
    BY <1>1, <2>1, TickIsLedgerStep
  <2>2. CASE SeedAny
    BY <1>1, <2>2, SeedLeavesLedger
  <2>3. CASE LeaseAny
    BY <1>1, <2>3, LeaseIsLedgerStep
  <2>4. CASE \E m \in Token, ts \in Timestamp : Complete(m, ts) \/ Fail(m, ts)
    BY <1>1, <2>4, SettleIsLedgerStep
  <2>5. CASE ReapAny
    BY <1>1, <2>5, ReapIsLedgerStep
  <2>6. CASE UNCHANGED vars
    BY <2>6 DEF vars, Ledger!ledgerVars, HolderOf, LapsedJobs, ReceiptOf, StreakOf
  <2> QED
    BY <1>1, <2>1, <2>2, <2>3, <2>4, <2>5, <2>6 DEF Next
<1> QED
  BY <1>1, InitIsLedgerInit, Invariance, PTL DEF Spec, ImplementsLedger, Ledger!Spec

=============================================================================
