------------------------- MODULE QueueRefinementProofs -------------------------
(***************************************************************************)
(* Theorems about the two modules that implement CrawlQueue, so that its   *)
(* theorems hold of them.  CrawlQueueTx, for any number of sessions:       *)
(* statement by statement the transactions are the queue's operations, and *)
(* every deadlock has a reaper and a lapsed lease in it.  CrawlRuntime,    *)
(* for any number of workers: wherever they die, what they do to the queue *)
(* is what it allows, and a lease long enough for every timeout is never   *)
(* lost.                                                                   *)
(***************************************************************************)
EXTENDS CrawlQueueTx, CrawlRuntime, CrawlQueueProofs

\* A lock is held by a running transaction, and none stays open for longer than
\* MaxLag.
TxTypes ==
  /\ lock \in [Row -> Session \cup {Null}]
  /\ tx \in [Session -> Transaction \cup {Null}]
  /\ \A r \in Row : lock[r] # Null => Running(lock[r])
  /\ \A s \in Session : Running(s) => tx[s].ts \in Timestamp

Locks(s) == {r \in Row : lock[r] = s}

\* What each transaction has locked, what it waits for, and what it may rely on
\* of the rows that it has locked.
SeedInv(s) ==
  LET t == tx[s]
  IN  /\ t.job \in Job
      /\ t.done = 0 => t.want \in {Null, t.job} /\ Locks(s) = {}
      /\ t.done > 0 => t.done = 1 /\ t.want = Null /\ Locks(s) = {t.job}

LeaseInv(s) ==
  LET t == tx[s]
  IN  /\ t.token \in Token /\ attempts[t.token] = Null /\ t.want = Null
      /\ t.done = 0 => Locks(s) = {}
      /\ t.done > 0 => /\ t.done = 1 /\ t.job \in Job /\ Locks(s) = {t.job}
                       /\ jobs[t.job] # Null /\ Ready(jobs[t.job], t.ts)

\* A statement that matched no row leaves the transaction with nothing to do but
\* to bail.
SettleInv(s) ==
  LET t == tx[s]
      open == attempts[t.token].status = "leased"
      owned == jobs[t.job].lease_token = t.token
  IN  /\ t.token \in Token /\ handles[t.token] # Null /\ t.job = handles[t.token].id
      /\ t.done = 0 => \/ t.want \in {Null, t.token} /\ Locks(s) = {}
                       \/ t.want = Null /\ Locks(s) = {t.token} /\ ~open
      /\ t.done > 0 => open
      /\ t.done = 1 => \/ t.want \in {Null, t.job} /\ Locks(s) = {t.token}
                       \/ t.want = Null /\ Locks(s) = {t.token, t.job} /\ ~owned
      /\ t.done = 2 => t.want = Null /\ Locks(s) = {t.token, t.job} /\ owned

\* An open attempt whose job ran out by ts and still carries its token.
Lapsed(l, ts) ==
  /\ attempts[l] # Null /\ attempts[l].status = "leased"
  /\ jobs[attempts[l].job].lease_token = l
  /\ LeaseLapsed(jobs[attempts[l].job], ts)

Caught(s) == tx[s].found \cup tx[s].closed \cup ({tx[s].want} \cap Token)

\* The lapsed attempts that a reaper has caught lie under its lock; those it has
\* not are still to come, or were leased behind its snapshot.
ReapInv(s) ==
  /\ \A l \in Caught(s) : Lapsed(l, tx[s].ts) /\ lock[attempts[l].job] = s
  /\ \A l \in tx[s].closed : lock[l] = s
  /\ \A l \in Token : Lapsed(l, tx[s].ts) =>
       \/ l \in Caught(s)
       \/ l \in CommittedLate(tx[s].ts)
       \/ l \in tx[s].seen /\ attempts[l].job \in tx[s].todo \cup {tx[s].want}

SessionInv(s) ==
  Running(s) => /\ tx[s].op = "seed" => SeedInv(s)
                /\ tx[s].op = "lease" => LeaseInv(s)
                /\ tx[s].op \in Settling => SettleInv(s)
                /\ tx[s].op = "reap" => ReapInv(s)

\* No two leases in flight have one token.
FreshTokens ==
  \A s, p \in Session :
    Running(s) /\ Running(p) /\ s # p /\ tx[s].op = "lease" /\ tx[p].op = "lease"
      => tx[s].token # tx[p].token

TxInv == IInv /\ TxTypes /\ FreshTokens /\ \A s \in Session : SessionInv(s)

-----------------------------------------------------------------------------
(* Steps of one session leave the others alone *)

\* A step spares p: it writes no row that p has locked and no attempt of a job
\* that p has locked, moves no attempt, changes no handle, and leases jobs only
\* behind the snapshots of those that run.
Spares(p) ==
  /\ \A j \in Job : lock[j] = p => jobs'[j] = jobs[j]
  /\ \A l \in Token : attempts[l] # Null =>
       /\ attempts'[l] # Null /\ attempts'[l].job = attempts[l].job
       /\ lock[l] = p \/ lock[attempts[l].job] = p => attempts'[l] = attempts[l]
  /\ \A l \in Token : handles[l] # Null => handles'[l] = handles[l]
  /\ Running(p) /\ tx[p].op = "lease" => attempts'[tx[p].token] = Null
  /\ \A j \in Job : jobs'[j] # Null /\ jobs'[j].lease_token # Null =>
       \/ /\ jobs[j] # Null
          /\ jobs'[j].lease_token = jobs[j].lease_token
          /\ jobs'[j].lease_expires_at = jobs[j].lease_expires_at
       \/ \E seconds \in LeaseTime : jobs'[j].lease_expires_at + MaxLag >= now + seconds

\* The token of a leased job names its open attempt.
LEMMA LeasedAttempt ==
  ASSUME IInv, NEW j \in Job, jobs[j] # Null, jobs[j].lease_token # Null
  PROVE  LET l == jobs[j].lease_token
         IN  /\ l \in Token /\ attempts[l] # Null
             /\ attempts[l] = [job |-> j, status |-> "leased"]
             /\ jobs[j].lease_expires_at \in Nat
<1> DEFINE l == jobs[j].lease_token
<1>1. /\ attempts[l] = [job |-> j, status |-> "leased"]
      /\ l \in Token /\ jobs[j].lease_expires_at \in Nat
  BY DEF IInv, LeaseBacked, TypeOK, JobRow
<1>2. [job |-> j, status |-> "leased"] \in AttemptRow
  BY DEF AttemptRow, Status
<1> QED
  BY <1>1, <1>2, NullAssumption

\* What a reaper relies on survives the commits of others: a lease that lapsed
\* by the reaper's timestamp either did so before or was committed late.
LEMMA ReaperSpared ==
  ASSUME IInv, TxTypes, IInv',
         NEW p \in Session, Running(p), ReapInv(p),
         tx'[p] = tx[p], Spares(p), \A r \in Row : lock[r] = p => lock'[r] = p
  PROVE  ReapInv(p)'
<1> DEFINE ts == tx[p].ts
<1>1. /\ ts \in Nat /\ ts <= now /\ now \in Nat
      /\ \A l \in Caught(p) : l \in Token
  BY TimestampIsPast DEF IInv, TypeOK, TxTypes, Transaction, Running, Caught
<1>2. Caught(p)' = Caught(p)
  BY DEF Caught
<1>3. \A l \in Caught(p) : Lapsed(l, ts)' /\ lock'[attempts'[l].job] = p
  <2> SUFFICES ASSUME NEW l \in Caught(p)
               PROVE  Lapsed(l, ts)' /\ lock'[attempts'[l].job] = p
    OBVIOUS
  <2>1. Lapsed(l, ts) /\ lock[attempts[l].job] = p /\ l \in Token
    BY <1>1 DEF ReapInv
  <2>2. attempts[l].job \in Job /\ attempts[l].job \in Row
    BY <2>1 DEF Lapsed, IInv, TypeOK, AttemptRow, Row
  <2>3. attempts'[l] = attempts[l] /\ jobs'[attempts[l].job] = jobs[attempts[l].job]
    BY <2>1, <2>2 DEF Spares, Lapsed
  <2> QED
    BY <2>1, <2>2, <2>3 DEF Lapsed
<1>4. \A l \in tx[p].closed : lock'[l] = p
  BY <1>1 DEF ReapInv, Caught, Row
<1>5. ASSUME NEW l \in Token, Lapsed(l, ts)'
      PROVE  \/ l \in Caught(p)
             \/ l \in CommittedLate(ts)'
             \/ l \in tx[p].seen /\ attempts'[l].job \in tx[p].todo \cup {tx[p].want}
  <2> DEFINE j == attempts'[l].job
  <2>1. /\ attempts'[l] # Null /\ j \in Job /\ jobs'[j].lease_token = l
        /\ LeaseLapsed(jobs'[j], ts) /\ l # Null
    BY <1>5, NullAssumption DEF Lapsed, IInv, TypeOK, AttemptRow
  <2>2. jobs'[j] # Null
    BY <2>1 DEF IInv, HandleOfAttempt
  <2>3. CASE /\ jobs[j] # Null /\ jobs[j].lease_token = l
             /\ jobs'[j].lease_expires_at = jobs[j].lease_expires_at
    <3>1. attempts[l] = [job |-> j, status |-> "leased"] /\ attempts[l] # Null
      BY <2>1, <2>3, LeasedAttempt
    <3>2. Lapsed(l, ts)
      BY <2>1, <2>3, <3>1 DEF Lapsed, LeaseLapsed
    <3>3. l \in CommittedLate(ts) => l \in CommittedLate(ts)'
      BY <2>1, <2>3, <3>1 DEF CommittedLate
    <3> QED
      BY <3>1, <3>2, <3>3 DEF ReapInv
  <2>4. CASE \E seconds \in LeaseTime : jobs'[j].lease_expires_at + MaxLag >= now + seconds
    <3>1. PICK seconds \in LeaseTime : jobs'[j].lease_expires_at + MaxLag >= now + seconds
      BY <2>4
    <3>2. jobs'[j].lease_expires_at \in Nat
      BY <2>1, <2>2 DEF IInv, TypeOK, JobRow
    <3>3. seconds \in Nat /\ MaxLag \in Nat
      BY BoundsAssumption
    <3>4. jobs'[j].lease_expires_at + MaxLag >= ts + seconds
      BY <1>1, <3>1, <3>2, <3>3
    <3> QED
      BY <2>1, <3>4 DEF CommittedLate
  <2> QED
    BY <2>1, <2>2, <2>3, <2>4 DEF Spares
<1> QED
  BY <1>2, <1>3, <1>4, <1>5 DEF ReapInv

\* A session keeps what it relies on while its locks stay and a step spares it.
LEMMA SessionSpared ==
  ASSUME IInv, TxTypes, IInv', NEW p \in Session, SessionInv(p),
         tx'[p] = tx[p], Spares(p), \A r \in Row : lock'[r] = p <=> lock[r] = p
  PROVE  SessionInv(p)'
<1> SUFFICES ASSUME Running(p) PROVE SessionInv(p)'
  BY DEF SessionInv, Running
<1> DEFINE t == tx[p]
<1>1. Locks(p)' = Locks(p) /\ t \in Transaction
  BY DEF Locks, TxTypes, Running
<1>2. CASE t.op = "seed"
  BY <1>1, <1>2 DEF SessionInv, SeedInv, Settling
<1>3. CASE t.op = "lease"
  <2>1. LeaseInv(p) /\ attempts'[t.token] = Null
    BY <1>3 DEF SessionInv, Spares
  <2>2. t.done > 0 => jobs'[t.job] = jobs[t.job]
    BY <2>1 DEF LeaseInv, Locks, Spares
  <2>3. LeaseInv(p)'
    BY <1>1, <2>1, <2>2 DEF LeaseInv
  <2> QED
    BY <1>3, <2>3 DEF SessionInv, Settling
<1>4. CASE t.op \in Settling
  <2>1. SettleInv(p)
    BY <1>4 DEF SessionInv
  <2>2. t.token \in Token /\ handles'[t.token] = handles[t.token] /\ attempts[t.token] # Null
    BY <2>1 DEF SettleInv, Spares, IInv, HandleOfAttempt
  <2>3. t.token \in Locks(p) => attempts'[t.token] = attempts[t.token]
    BY <2>2 DEF Locks, Spares
  <2>4. t.job \in Locks(p) => jobs'[t.job] = jobs[t.job]
    <3>1. t.job \in Job
      BY <2>1, <2>2 DEF SettleInv, IInv, TypeOK, CrawlJob
    <3> QED
      BY <3>1 DEF Locks, Spares
  <2>5. t.done \in 0 .. 2
    BY <1>1 DEF Transaction
  <2>6. SettleInv(p)'
    <3>1. CASE t.done = 0
      BY <1>1, <2>1, <2>2, <2>3, <3>1 DEF SettleInv
    <3>2. CASE t.done = 1
      BY <1>1, <2>1, <2>2, <2>3, <2>4, <3>2 DEF SettleInv
    <3>3. CASE t.done = 2
      BY <1>1, <2>1, <2>2, <2>3, <2>4, <3>3 DEF SettleInv
    <3> QED
      BY <2>5, <3>1, <3>2, <3>3
  <2> QED
    BY <1>4, <2>6 DEF SessionInv, Settling
<1>5. CASE t.op = "reap"
  <2>1. ReapInv(p)
    BY <1>5 DEF SessionInv
  <2>2. ReapInv(p)'
    BY <2>1, ReaperSpared
  <2> QED
    BY <1>5, <2>2 DEF SessionInv, Settling
<1> QED
  BY <1>1, <1>2, <1>3, <1>4, <1>5 DEF SessionInv

\* What every step of s does to the transactions and the locks: it changes its
\* own transaction, and takes or gives up locks of its own.
Moves(s) ==
  /\ now' = now
  /\ tx' \in [Session -> Transaction \cup {Null}]
  /\ lock' \in [Row -> Session \cup {Null}]
  /\ \A p \in Session \ {s} : tx'[p] = tx[p]
  /\ \A r \in Row : lock'[r] = lock[r] \/ {lock[r], lock'[r]} \subseteq {s, Null}
  /\ Running(s)' => tx'[s].ts \in Timestamp
  /\ ~Running(s)' => \A r \in Row : lock'[r] # s
  /\ Running(s)' /\ tx'[s].op = "lease" =>
       \A p \in Session \ {s} : Running(p) /\ tx[p].op = "lease" => tx[p].token # tx'[s].token

\* So the invariant is kept if the step leaves s what it relies on, and spares
\* the others.
LEMMA MoveKeeps ==
  ASSUME TxInv, IInv', NEW s \in Session, Moves(s), SessionInv(s)',
         \A p \in Session \ {s} : Spares(p)
  PROVE  TxInv'
<1>1. TxTypes'
  <2>1. \A r \in Row : lock'[r] # Null => tx'[lock'[r]] # Null
    <3> SUFFICES ASSUME NEW r \in Row, lock'[r] # Null PROVE tx'[lock'[r]] # Null
      OBVIOUS
    <3>1. CASE lock'[r] = s
      BY <3>1 DEF Moves, Running
    <3>2. CASE lock'[r] # s
      <4>1. lock'[r] = lock[r] /\ lock[r] \in Session \ {s}
        BY <3>2 DEF Moves
      <4> QED
        BY <4>1 DEF TxInv, TxTypes, Moves, Running
    <3> QED
      BY <3>1, <3>2
  <2>2. \A p \in Session : Running(p)' => tx'[p].ts \in Timestamp'
    <3> SUFFICES ASSUME NEW p \in Session, Running(p)' PROVE tx'[p].ts \in Timestamp
      BY DEF Moves, Timestamp
    <3> QED
      BY DEF TxInv, TxTypes, Moves, Running
  <2>3. lock' \in [Row -> Session \cup {Null}] /\ tx' \in [Session -> Transaction \cup {Null}]
    BY DEF Moves
  <2> QED
    BY <2>1, <2>2, <2>3 DEF TxTypes, Running
<1>2. FreshTokens'
  BY DEF FreshTokens, TxInv, Moves, Running
<1>3. ASSUME NEW p \in Session PROVE SessionInv(p)'
  <2>1. CASE p = s
    BY <2>1
  <2>2. CASE p # s
    <3>1. \A r \in Row : lock'[r] = p <=> lock[r] = p
      BY <2>2, RowAssumption DEF Moves
    <3> QED
      BY <2>2, <3>1, SessionSpared DEF Moves, TxInv
  <2> QED
    BY <2>1, <2>2
<1> QED
  BY <1>1, <1>2, <1>3 DEF TxInv

\* A step that leaves the tables alone spares everybody.
LEMMA QuietSpares ==
  ASSUME TxInv, UNCHANGED <<jobs, attempts, handles>>, NEW p \in Session
  PROVE  Spares(p)
BY DEF TxInv, SessionInv, LeaseInv, Spares

\* Statements and their bookkeeping: no table changes before the commit.
LEMMA QuietKeeps ==
  ASSUME TxInv, NEW s \in Session, UNCHANGED vars, Moves(s), SessionInv(s)'
  PROVE  TxInv'
<1>1. IInv'
  BY NextKeeps DEF TxInv
<1>2. \A p \in Session : Spares(p)
  BY QuietSpares DEF vars
<1> QED
  BY <1>1, <1>2, MoveKeeps

\* A transaction that ends without a commit: bail, lost connection, deadlock.
LEMMA EndingMoves ==
  ASSUME TxInv, NEW s \in Session, Ending(s), now' = now
  PROVE  Moves(s) /\ SessionInv(s)'
<1>1. /\ tx' \in [Session -> Transaction \cup {Null}] /\ ~Running(s)'
      /\ lock' \in [Row -> Session \cup {Null}]
      /\ \A r \in Row : lock'[r] = IF lock[r] = s THEN Null ELSE lock[r]
      /\ \A p \in Session \ {s} : tx'[p] = tx[p]
  BY DEF TxInv, TxTypes, Ending, Running
<1>2. Moves(s)
  BY <1>1, RowAssumption DEF Moves
<1> QED
  BY <1>1, <1>2 DEF SessionInv

\* Ending without a commit keeps the invariant.
LEMMA EndingKeeps ==
  ASSUME TxInv, NEW s \in Session, Ending(s), UNCHANGED vars
  PROVE  TxInv'
BY EndingMoves, QuietKeeps DEF vars

-----------------------------------------------------------------------------
(* Steps within a transaction *)

\* now() is a timestamp of a transaction that starts.
LEMMA NowIsTimestamp == ASSUME TypeOK PROVE now \in Timestamp
BY BoundsAssumption DEF TypeOK, Timestamp

\* A session that runs no transaction holds no lock.
LEMMA IdleHoldsNothing ==
  ASSUME TxTypes, NEW s \in Session, ~Running(s)
  PROVE  Locks(s) = {}
BY RowAssumption DEF TxTypes, Locks

\* A transaction starts with nothing locked.
LEMMA BeginKeeps ==
  ASSUME TxInv, NEW s \in Session, BeginAny(s) PROVE TxInv'
<1> USE DEF TxInv
<1>1. /\ UNCHANGED vars /\ lock' = lock /\ ~Running(s)
  BY DEF BeginAny, BeginSeed, BeginLease, BeginSettle, BeginReap, Begin, vars
<1>2. Locks(s) = {} /\ Locks(s)' = {} /\ now \in Timestamp /\ now \in Nat
  BY <1>1, IdleHoldsNothing, NowIsTimestamp DEF Locks, IInv, TypeOK
<1> DEFINE Opens(op, j, l, todo, seen) ==
             \E t \in Transaction :
               /\ tx' = [tx EXCEPT ![s] = t] /\ tx'[s] = t /\ t # Null
               /\ t.op = op /\ t.ts = now /\ t.job = j /\ t.token = l /\ t.done = 0
               /\ t.want = Null /\ t.todo = todo /\ t.seen = seen
               /\ t.found = {} /\ t.closed = {}
<1> HIDE DEF Opens
<1>3. ASSUME NEW t \in Transaction, tx' = [tx EXCEPT ![s] = t], t.ts = now, SessionInv(s)',
             t.op = "lease" => \A p \in Session : Running(p) => tx[p].token # t.token
      PROVE  TxInv'
  <2>1. /\ tx' \in [Session -> Transaction \cup {Null}] /\ tx'[s] = t
        /\ \A p \in Session \ {s} : tx'[p] = tx[p]
    BY <1>3 DEF TxTypes
  <2>2. Moves(s)
    BY <1>1, <1>2, <1>3, <2>1, RowAssumption DEF Moves, TxTypes, Locks, Running, vars, Timestamp
  <2> QED
    BY <1>1, <1>3, <2>2, QuietKeeps
<1>4. ASSUME NEW op \in Settling \cup {"seed", "lease", "reap"}, NEW j \in Job \cup {Null},
             NEW l \in Token \cup {Null}, NEW todo, todo \subseteq Job, NEW seen, seen \subseteq Token,
             Begin(s, op, j, l, todo, seen)
      PROVE  Opens(op, j, l, todo, seen)
  <2> DEFINE t == [op |-> op, ts |-> now, job |-> j, token |-> l, done |-> 0,
                   want |-> Null, todo |-> todo, seen |-> seen, found |-> {}, closed |-> {}]
  <2>1. t \in Transaction
    BY <1>2, <1>4 DEF Transaction
  <2> QED
    BY <1>4, <2>1, TransactionAssumption DEF Begin, TxTypes, Opens
<1>5. CASE BeginSeed(s)
  <2>1. PICK j \in Job : Begin(s, "seed", j, Null, {}, {})
    BY <1>5 DEF BeginSeed
  <2>2. Opens("seed", j, Null, {}, {})
    BY <2>1, <1>4
  <2>3. PICK t \in Transaction : /\ tx' = [tx EXCEPT ![s] = t] /\ tx'[s] = t /\ t # Null
                                 /\ t.ts = now /\ t.op = "seed" /\ t.job = j /\ t.done = 0
                                 /\ t.want = Null
    BY <2>2 DEF Opens
  <2>4. SessionInv(s)'
    BY <1>2, <2>3 DEF SessionInv, SeedInv, Settling
  <2> QED
    BY <1>3, <2>3, <2>4
<1>6. CASE BeginLease(s)
  <2>1. PICK l \in Token : /\ attempts[l] = Null
                           /\ \A p \in Session : Running(p) => tx[p].token # l
                           /\ Begin(s, "lease", Null, l, {}, {})
    BY <1>6 DEF BeginLease
  <2>2. Opens("lease", Null, l, {}, {})
    BY <2>1, <1>4
  <2>3. PICK t \in Transaction : /\ tx' = [tx EXCEPT ![s] = t] /\ tx'[s] = t /\ t # Null
                                 /\ t.ts = now /\ t.op = "lease" /\ t.token = l /\ t.done = 0
                                 /\ t.want = Null
    BY <2>2 DEF Opens
  <2>4. SessionInv(s)'
    BY <1>1, <1>2, <2>1, <2>3 DEF SessionInv, LeaseInv, Settling, vars
  <2> QED
    BY <1>3, <2>1, <2>3, <2>4
<1>7. CASE BeginSettle(s)
  <2>1. PICK l \in Token, op \in Settling :
          handles[l] # Null /\ Begin(s, op, handles[l].id, l, {}, {})
    BY <1>7 DEF BeginSettle
  <2>2. handles[l].id \in Job
    BY <2>1 DEF IInv, TypeOK, CrawlJob
  <2>3. Opens(op, handles[l].id, l, {}, {})
    BY <2>1, <2>2, <1>4
  <2>4. PICK t \in Transaction : /\ tx' = [tx EXCEPT ![s] = t] /\ tx'[s] = t /\ t # Null
                                 /\ t.ts = now /\ t.op = op /\ t.token = l /\ t.done = 0
                                 /\ t.want = Null /\ t.job = handles[l].id
    BY <2>3 DEF Opens
  <2>5. SessionInv(s)'
    BY <1>1, <1>2, <2>1, <2>4 DEF SessionInv, SettleInv, Settling, vars
  <2> QED
    BY <1>3, <2>4, <2>5 DEF Settling
<1>8. CASE BeginReap(s)
  <2> DEFINE todo == {j \in Job : Reapable(j, now)}
             seen == {l \in Token : attempts[l] # Null /\ attempts[l].status = "leased"}
  <2>1. Begin(s, "reap", Null, Null, todo, seen)
    BY <1>8 DEF BeginReap
  <2>2. Opens("reap", Null, Null, todo, seen)
    BY <2>1, <1>4
  <2>3. PICK t \in Transaction : /\ tx' = [tx EXCEPT ![s] = t] /\ tx'[s] = t /\ t # Null
                                 /\ t.ts = now /\ t.op = "reap" /\ t.want = Null
                                 /\ t.todo = todo /\ t.seen = seen
                                 /\ t.found = {} /\ t.closed = {}
    BY <2>2 DEF Opens
  <2>4. ASSUME NEW l \in Token, Lapsed(l, now)
        PROVE  l \in seen /\ attempts[l].job \in todo
    BY <2>4 DEF Lapsed, Reapable, IInv, TypeOK, AttemptRow, HandleOfAttempt
  <2>5. ReapInv(s)'
    BY <1>1, <2>3, <2>4, RowAssumption DEF ReapInv, Caught, Lapsed, Row, vars
  <2>6. SessionInv(s)'
    BY <2>3, <2>5 DEF SessionInv, Settling
  <2> QED
    BY <1>3, <2>3, <2>6
<1> QED
  BY <1>5, <1>6, <1>7, <1>8 DEF BeginAny

\* A statement leaves its transaction running with its timestamp and its token,
\* and locks at most one row that was free.
LEMMA StatementMoves ==
  ASSUME TxInv, NEW s \in Session, Running(s), NEW new \in Transaction,
         tx' = [tx EXCEPT ![s] = new],
         new.op = tx[s].op, new.ts = tx[s].ts, new.token = tx[s].token,
         lock' = lock \/ \E r \in Row : lock[r] = Null /\ lock' = [lock EXCEPT ![r] = s],
         now' = now
  PROVE  Moves(s) /\ tx'[s] = new /\ new # Null
<1>1. /\ tx' \in [Session -> Transaction \cup {Null}] /\ tx'[s] = new
      /\ \A p \in Session \ {s} : tx'[p] = tx[p]
      /\ lock' \in [Row -> Session \cup {Null}]
  BY DEF TxInv, TxTypes
<1>2. \A r \in Row : lock'[r] = lock[r] \/ {lock[r], lock'[r]} \subseteq {s, Null}
  BY DEF TxInv, TxTypes
<1>3. new.ts \in Timestamp /\ new # Null
  BY TransactionAssumption DEF TxInv, TxTypes
<1>4. new.op = "lease" =>
        \A p \in Session \ {s} : Running(p) /\ tx[p].op = "lease" => tx[p].token # new.token
  BY DEF TxInv, FreshTokens
<1> QED
  BY <1>1, <1>2, <1>3, <1>4 DEF Moves, Running

\* The WHERE clause of each kind of statement.
LEMMA MatchesByRow ==
  ASSUME NEW t
  PROVE  /\ \A l \in Token : Matches(t, l) <=> attempts[l].status = "leased"
         /\ t.op \in Settling =>
              \A j \in Job : Matches(t, j) <=> jobs[j].lease_token = t.token
         /\ t.op = "reap" => \A j \in Job : Matches(t, j) <=> Reapable(j, t.ts)
         /\ t.op = "seed" => \A j \in Job : Matches(t, j)
<1>1. \A l \in Token : l \notin Job
  BY RowAssumption
<1>2. \A j \in Job : j \notin Token
  BY RowAssumption
<1>3. \A l \in Token : Matches(t, l) <=> attempts[l].status = "leased"
  BY <1>1 DEF Matches
<1>4. t.op \in Settling => \A j \in Job : Matches(t, j) <=> jobs[j].lease_token = t.token
  BY <1>2 DEF Matches, Settling
<1>5. t.op = "reap" => \A j \in Job : Matches(t, j) <=> Reapable(j, t.ts)
  BY <1>2 DEF Matches, Settling
<1>6. t.op = "seed" => \A j \in Job : Matches(t, j)
  BY <1>2 DEF Matches, Settling
<1> QED
  BY <1>3, <1>4, <1>5, <1>6

\* The row a pending statement goes for: a settlement's attempt, then its job.
LEMMA PendingRow ==
  ASSUME TxInv, NEW s \in Session, Pending(s)
  PROVE  /\ Running(s) /\ tx[s] \in Transaction /\ tx[s].want = Null
         /\ tx[s].op = "seed" => NextRow(s) = tx[s].job /\ tx[s].done = 0
         /\ tx[s].op \in Settling =>
              \/ tx[s].done = 0 /\ NextRow(s) = tx[s].token
              \/ tx[s].done = 1 /\ NextRow(s) = tx[s].job
         /\ tx[s].op \in Settling \cup {"seed"}
<1> DEFINE t == tx[s]
<1>1. /\ Running(s) /\ t \in Transaction /\ t.want = Null
      /\ t.op \in Settling \cup {"seed"} /\ t.done < Len(Statements(t)) /\ t.done \in 0 .. 2
  BY DEF TxInv, TxTypes, Pending, Running, Transaction
<1>2. CASE t.op \in Settling
  <2>1. Statements(t) = <<t.token, t.job>>
    BY <1>2 DEF Statements
  <2>2. t.done \in {0, 1}
    BY <1>1, <2>1
  <2> QED
    BY <1>1, <1>2, <2>1, <2>2 DEF NextRow, Settling
<1>3. CASE t.op = "seed"
  <2>1. Statements(t) = <<t.job>>
    BY <1>3 DEF Statements, Settling
  <2>2. t.done = 0
    BY <1>1, <2>1
  <2> QED
    BY <1>1, <1>3, <2>1, <2>2 DEF NextRow, Settling
<1> QED
  BY <1>1, <1>2, <1>3

\* Going for a row locks nothing yet.
LEMMA RequestKeeps ==
  ASSUME TxInv, NEW s \in Session, Request(s) PROVE TxInv'
<1> DEFINE t == tx[s]
           new == [t EXCEPT !.want = NextRow(s)]
<1>1. /\ UNCHANGED vars /\ lock' = lock /\ tx' = [tx EXCEPT ![s] = new]
      /\ Pending(s) /\ Matches(t, NextRow(s))
  BY DEF Request, vars
<1>2. SessionInv(s) /\ Locks(s)' = Locks(s)
  BY <1>1 DEF TxInv, Locks
<1>3. CASE t.op = "seed"
  <2>1. SeedInv(s) /\ NextRow(s) = t.job /\ t.done = 0
    BY <1>1, <1>2, <1>3, PendingRow DEF SessionInv
  <2>2. new \in Transaction
    BY <1>1, <2>1, PendingRow DEF SeedInv, Transaction, Row
  <2>3. Moves(s) /\ tx'[s] = new /\ new # Null
    BY <1>1, <2>2, StatementMoves, PendingRow DEF Transaction, vars
  <2>4. new.op = "seed" /\ new.job = t.job /\ new.done = t.done /\ new.want = NextRow(s)
    BY <1>1, <1>3, PendingRow DEF Transaction
  <2>5. SessionInv(s)'
    BY <1>2, <2>1, <2>3, <2>4 DEF SessionInv, SeedInv, Settling
  <2> QED
    BY <1>1, <2>3, <2>5, QuietKeeps
<1>4. CASE t.op \in Settling
  <2>1. SettleInv(s) /\ (\/ t.done = 0 /\ NextRow(s) = t.token
                         \/ t.done = 1 /\ NextRow(s) = t.job)
    BY <1>1, <1>2, <1>4, PendingRow DEF SessionInv
  <2>2. t.token \in Token /\ t.job \in Job
    BY <2>1 DEF SettleInv, TxInv, IInv, TypeOK, CrawlJob
  <2>3. new \in Transaction
    BY <1>1, <2>1, <2>2, PendingRow DEF Transaction, Row
  <2>4. Moves(s) /\ tx'[s] = new /\ new # Null
    BY <1>1, <2>3, StatementMoves, PendingRow DEF Transaction, vars
  <2>5. /\ new.op = t.op /\ new.job = t.job /\ new.token = t.token /\ new.done = t.done
        /\ new.want = NextRow(s)
    BY <1>1, PendingRow DEF Transaction
  <2>6. SettleInv(s)'
    <3>1. CASE t.done = 0
      <4>1. NextRow(s) = t.token /\ attempts[t.token].status = "leased"
        BY <1>1, <2>1, <2>2, <3>1, MatchesByRow
      <4> QED
        BY <1>1, <1>2, <2>1, <2>2, <2>4, <2>5, <3>1, <4>1 DEF SettleInv, vars
    <3>2. CASE t.done = 1
      <4>1. NextRow(s) = t.job /\ jobs[t.job].lease_token = t.token
        BY <1>1, <1>4, <2>1, <2>2, <3>2, MatchesByRow
      <4> QED
        BY <1>1, <1>2, <2>1, <2>2, <2>4, <2>5, <3>2, <4>1 DEF SettleInv, vars
    <3> QED
      BY <2>1, <3>1, <3>2
  <2>7. SessionInv(s)'
    BY <1>4, <2>4, <2>5, <2>6 DEF SessionInv, Settling
  <2> QED
    BY <1>1, <2>4, <2>7, QuietKeeps
<1> QED
  BY <1>1, <1>3, <1>4, PendingRow

\* The reaper goes for a job it has still to lock or for an attempt it has found.
LEMMA ReapRequestKeeps ==
  ASSUME TxInv, NEW s \in Session, ReapRequest(s) PROVE TxInv'
<1> DEFINE t == tx[s]
<1>1. /\ UNCHANGED vars /\ lock' = lock /\ Running(s) /\ t.op = "reap" /\ t.want = Null
      /\ t \in Transaction
  BY DEF ReapRequest, vars, TxInv, TxTypes, Running
<1>2. ReapInv(s)
  BY <1>1 DEF TxInv, SessionInv
<1>3. ASSUME NEW new \in Transaction, tx' = [tx EXCEPT ![s] = new],
             new.op = t.op, new.ts = t.ts, new.token = t.token, new.seen = t.seen,
             new.closed = t.closed, new.todo \cup ({new.want} \cap Job) = t.todo,
             new.found \cup ({new.want} \cap Token) = t.found
      PROVE  TxInv'
  <2>1. Moves(s) /\ tx'[s] = new /\ new # Null
    BY <1>1, <1>3, StatementMoves DEF vars
  <2>2. Caught(s)' = Caught(s)
    BY <1>1, <1>3, <2>1, RowAssumption DEF Caught, Row
  <2>3. \A l \in Token : /\ Lapsed(l, t.ts)' <=> Lapsed(l, t.ts)
                         /\ Lapsed(l, t.ts) => attempts[l].job \in Job
    BY <1>1, <1>3, <2>1 DEF Lapsed, vars, TxInv, IInv, TypeOK, AttemptRow
  <2>4. \A l \in Token : attempts[l].job \in Job /\ attempts[l].job \in t.todo \cup {t.want} =>
          attempts[l].job \in new.todo \cup {new.want}
    BY <1>1, <1>3, RowAssumption DEF Row
  <2>5. CommittedLate(t.ts)' = CommittedLate(t.ts)
    BY <1>1, <1>3, <2>1 DEF CommittedLate, vars
  <2>6. \A l \in Caught(s) : l \in Token
    BY <1>1 DEF Caught, Transaction
  <2>7. ReapInv(s)'
    BY <1>1, <1>2, <1>3, <2>1, <2>2, <2>3, <2>4, <2>5, <2>6 DEF ReapInv, vars
  <2>8. SessionInv(s)'
    BY <1>1, <1>3, <2>1, <2>7 DEF SessionInv, Settling
  <2> QED
    BY <1>1, <2>1, <2>8, QuietKeeps
<1>4. CASE \E j \in t.todo : tx' = [tx EXCEPT ![s].want = j, ![s].todo = @ \ {j}]
  <2>1. PICK j \in t.todo : tx' = [tx EXCEPT ![s].want = j, ![s].todo = @ \ {j}]
    BY <1>4
  <2> DEFINE new == [t EXCEPT !.want = j, !.todo = @ \ {j}]
  <2>2. j \in Job /\ j \notin Token /\ tx' = [tx EXCEPT ![s] = new]
    BY <1>1, <2>1, RowAssumption DEF Transaction, Row, TxInv, TxTypes
  <2>3. /\ new \in Transaction
        /\ new.op = t.op /\ new.ts = t.ts /\ new.token = t.token /\ new.seen = t.seen
        /\ new.closed = t.closed /\ new.todo = t.todo \ {j} /\ new.want = j
        /\ new.found = t.found
    BY <1>1, <2>2 DEF Transaction, Row
  <2>4. new.todo \cup ({new.want} \cap Job) = t.todo /\ new.found \cup ({new.want} \cap Token) = t.found
    BY <2>1, <2>2, <2>3
  <2> HIDE DEF new
  <2> QED
    BY <1>3, <2>2, <2>3, <2>4
<1>5. CASE \E l \in t.found : tx' = [tx EXCEPT ![s].want = l, ![s].found = @ \ {l}]
  <2>1. PICK l \in t.found : tx' = [tx EXCEPT ![s].want = l, ![s].found = @ \ {l}]
    BY <1>5
  <2> DEFINE new == [t EXCEPT !.want = l, !.found = @ \ {l}]
  <2>2. l \in Token /\ l \notin Job /\ tx' = [tx EXCEPT ![s] = new]
    BY <1>1, <2>1, RowAssumption DEF Transaction, Row, TxInv, TxTypes
  <2>3. /\ new \in Transaction
        /\ new.op = t.op /\ new.ts = t.ts /\ new.token = t.token /\ new.seen = t.seen
        /\ new.closed = t.closed /\ new.todo = t.todo /\ new.want = l
        /\ new.found = t.found \ {l}
    BY <1>1, <2>2 DEF Transaction, Row
  <2>4. new.todo \cup ({new.want} \cap Job) = t.todo /\ new.found \cup ({new.want} \cap Token) = t.found
    BY <2>1, <2>2, <2>3
  <2> HIDE DEF new
  <2> QED
    BY <1>3, <2>2, <2>3, <2>4
<1> QED
  BY <1>4, <1>5 DEF ReapRequest

\* lease() locks the candidate it has picked, a ready job that nobody had locked.
LEMMA TakeCandidateKeeps ==
  ASSUME TxInv, NEW s \in Session, TakeCandidate(s) PROVE TxInv'
<1> DEFINE t == tx[s]
<1>1. /\ UNCHANGED vars /\ Running(s) /\ t.op = "lease" /\ t.done = 0 /\ t \in Transaction
  BY DEF TakeCandidate, vars, TxInv, TxTypes, Running
<1>2. LeaseInv(s)
  BY <1>1 DEF TxInv, SessionInv
<1>3. PICK j \in Candidates(LockedJobs, t.ts) :
        /\ lock' = [lock EXCEPT ![j] = s]
        /\ tx' = [tx EXCEPT ![s].job = j, ![s].done = 1]
  BY DEF TakeCandidate
<1> DEFINE new == [t EXCEPT !.job = j, !.done = 1]
<1>4. j \in Job /\ j \in Row /\ lock[j] = Null /\ jobs[j] # Null /\ Ready(jobs[j], t.ts)
  BY DEF Candidates, LockedJobs, Row
<1>5. /\ new \in Transaction
      /\ new.op = "lease" /\ new.ts = t.ts /\ new.token = t.token /\ new.job = j
      /\ new.done = 1 /\ new.want = t.want
  <2>1. new \in Transaction
    BY <1>1, <1>4, 1 \in 0 .. 2 DEF Transaction
  <2> QED
    BY <1>1, <2>1 DEF Transaction
<1>5a. tx' = [tx EXCEPT ![s] = new]
  BY <1>3 DEF TxInv, TxTypes
<1> HIDE DEF new
<1>6. Moves(s) /\ tx'[s] = new /\ new # Null
  BY <1>1, <1>3, <1>4, <1>5, <1>5a, StatementMoves DEF vars
<1>7. Locks(s)' = {j}
  BY <1>1, <1>2, <1>3, <1>4, RowAssumption DEF LeaseInv, Locks, TxInv, TxTypes
<1>8. LeaseInv(s)'
  BY <1>1, <1>2, <1>4, <1>5, <1>6, <1>7 DEF LeaseInv, vars
<1>9. SessionInv(s)'
  BY <1>5, <1>6, <1>8 DEF SessionInv, Settling
<1> QED
  BY <1>1, <1>6, <1>9, QuietKeeps

\* Time passes only while no transaction is open for too long.
LEMMA TxTickKeeps ==
  ASSUME TxInv, TxTick PROVE TxInv'
<1>1. /\ Tick /\ lock' = lock /\ tx' = tx /\ UNCHANGED <<jobs, attempts, handles>>
      /\ now' = now + 1
      /\ \A s \in Session : Running(s) => now - tx[s].ts < MaxLag
  BY DEF TxTick, Tick
<1>2. IInv'
  BY <1>1, TickKeeps DEF TxInv
<1>3. TxTypes'
  <2>1. \A s \in Session : Running(s) => tx[s].ts \in Nat /\ tx[s].ts <= now /\ now \in Nat
    BY TimestampIsPast DEF TxInv, TxTypes, IInv, TypeOK
  <2>2. \A s \in Session : Running(s) => tx[s].ts \in Timestamp'
    <3> SUFFICES ASSUME NEW s \in Session, Running(s) PROVE tx[s].ts \in Timestamp'
      OBVIOUS
    <3> QED
      BY <1>1, <2>1, BoundsAssumption DEF Timestamp
  <2> QED
    BY <1>1, <2>2 DEF TxInv, TxTypes, Running
<1>4. FreshTokens'
  BY <1>1 DEF TxInv, FreshTokens, Running
<1>5. ASSUME NEW p \in Session PROVE SessionInv(p)'
  <2>1. Spares(p)
    BY <1>1, QuietSpares
  <2> QED
    BY <1>1, <1>2, <2>1, SessionSpared DEF TxInv
<1> QED
  BY <1>2, <1>3, <1>4, <1>5 DEF TxInv

\* A settlement or a seed has its row: it was still the one the statement is for,
\* or the transaction has nothing left to do but to bail.
LEMMA GrantedRow ==
  ASSUME TxInv, NEW s \in Session, Waits(s), Holder(s) = Null, tx[s].op # "reap",
         lock' = [lock EXCEPT ![tx[s].want] = s], tx' = [tx EXCEPT ![s] = Granted(tx[s])],
         UNCHANGED vars
  PROVE  TxInv'
<1> DEFINE t == tx[s]
           new == Granted(t)
<1>1. /\ Running(s) /\ t \in Transaction /\ t.want \in Row /\ lock[t.want] = Null
      /\ t.done \in 0 .. 2 /\ tx' = [tx EXCEPT ![s] = new] /\ now' = now
      /\ \E r \in Row : lock[r] = Null /\ lock' = [lock EXCEPT ![r] = s]
  BY DEF Waits, Holder, TxInv, TxTypes, Running, Transaction, vars
<1>2. Locks(s)' = Locks(s) \cup {t.want}
  BY <1>1, RowAssumption DEF Locks, TxInv, TxTypes
<1>3. CASE t.op = "seed"
  <2>1. SeedInv(s) /\ t.done = 0 /\ t.want = t.job /\ Locks(s) = {}
    BY <1>1, <1>3 DEF TxInv, SessionInv, SeedInv, Waits
  <2>2. Matches(t, t.want)
    BY <1>3, <2>1, MatchesByRow DEF SeedInv
  <2>3. new = [t EXCEPT !.want = Null, !.done = 1]
    BY <1>3, <2>1, <2>2 DEF Granted
  <2>4. new \in Transaction
    BY <1>1, <2>3, 1 \in 0 .. 2 DEF Transaction
  <2>5. /\ new.op = "seed" /\ new.ts = t.ts /\ new.token = t.token /\ new.job = t.job
        /\ new.done = 1 /\ new.want = Null
    BY <1>1, <1>3, <2>3 DEF Transaction
  <2> HIDE DEF new
  <2>6. Moves(s) /\ tx'[s] = new /\ new # Null
    BY <1>1, <1>3, <2>4, <2>5, StatementMoves
  <2>7. SessionInv(s)'
    BY <1>2, <2>1, <2>5, <2>6 DEF SessionInv, SeedInv, Settling
  <2> QED
    BY <2>6, <2>7, QuietKeeps
<1>4. CASE t.op \in Settling
  <2>1. SettleInv(s) /\ t.token \in Token /\ t.job \in Job
    BY <1>1, <1>4 DEF TxInv, SessionInv, SettleInv, IInv, TypeOK, CrawlJob
  <2>2. \/ t.done = 0 /\ t.want = t.token /\ Locks(s) = {}
        \/ t.done = 1 /\ t.want = t.job /\ Locks(s) = {t.token}
    BY <1>1, <2>1 DEF SettleInv, Waits
  <2>3. \/ Matches(t, t.want) /\ new = [t EXCEPT !.want = Null, !.done = @ + 1]
        \/ ~Matches(t, t.want) /\ new = [t EXCEPT !.want = Null]
    BY <1>4 DEF Granted, Settling
  <2>4. new \in Transaction
    <3>1. t.done + 1 \in 0 .. 2
      BY <2>2
    <3> QED
      BY <1>1, <2>3, <3>1 DEF Transaction
  <2>5. /\ new.op = t.op /\ new.ts = t.ts /\ new.token = t.token /\ new.job = t.job
        /\ new.want = Null
        /\ new.done = IF Matches(t, t.want) THEN t.done + 1 ELSE t.done
    BY <1>1, <2>3 DEF Transaction
  <2> HIDE DEF new
  <2>6. Moves(s) /\ tx'[s] = new /\ new # Null
    BY <1>1, <2>4, <2>5, StatementMoves
  <2>7. SettleInv(s)'
    <3>1. CASE t.done = 0
      <4>1. /\ t.want = t.token /\ Locks(s)' = {t.token}
            /\ Matches(t, t.want) <=> attempts[t.token].status = "leased"
        BY <1>2, <2>1, <2>2, <3>1, MatchesByRow
      <4> QED
        BY <2>1, <2>5, <2>6, <3>1, <4>1 DEF SettleInv, vars
    <3>2. CASE t.done = 1
      <4>1. /\ t.want = t.job /\ Locks(s)' = {t.token, t.job}
            /\ Matches(t, t.want) <=> jobs[t.job].lease_token = t.token
        BY <1>2, <1>4, <2>1, <2>2, <3>2, MatchesByRow
      <4>2. /\ attempts'[t.token] = attempts[t.token] /\ jobs'[t.job] = jobs[t.job]
            /\ handles'[t.token] = handles[t.token]
        BY <2>6 DEF vars
      <4>3. \/ new.done = 2 /\ jobs[t.job].lease_token = t.token
            \/ new.done = 1 /\ jobs[t.job].lease_token # t.token
        BY <2>5, <3>2, <4>1
      <4>4. /\ handles[t.token] # Null /\ t.job = handles[t.token].id
            /\ attempts[t.token].status = "leased"
        BY <2>1, <3>2 DEF SettleInv
      <4>5. /\ tx'[s] = new /\ new.token = t.token /\ new.job = t.job /\ new.want = Null
            /\ t.token \in Token /\ Locks(s)' = {t.token, t.job}
        BY <2>1, <2>5, <2>6, <4>1
      <4>6. CASE new.done = 2 /\ jobs[t.job].lease_token = t.token
        <5>1. new.done # 0 /\ new.done # 1
          BY <4>6
        <5> QED BY <4>2, <4>4, <4>5, <4>6, <5>1, Zenon DEF SettleInv
      <4>7. CASE new.done = 1 /\ jobs[t.job].lease_token # t.token
        <5>1. new.done # 0 /\ new.done # 2
          BY <4>7
        <5> QED BY <4>2, <4>4, <4>5, <4>7, <5>1, Zenon DEF SettleInv
      <4> QED BY <4>3, <4>6, <4>7
    <3> QED
      BY <2>2, <3>1, <3>2
  <2>8. SessionInv(s)'
    BY <1>4, <2>5, <2>6, <2>7 DEF SessionInv, Settling
  <2> QED
    BY <2>6, <2>8, QuietKeeps
<1>5. t.op # "lease"
  BY <1>1 DEF TxInv, SessionInv, LeaseInv, Waits
<1> QED
  BY <1>1, <1>3, <1>4, <1>5 DEF Transaction

\* The reaper has a job, and finds its open attempt if the lease has still lapsed
\* and its snapshot shows it; or it has an attempt, and closes it.
LEMMA GrantedReaper ==
  ASSUME TxInv, NEW s \in Session, Waits(s), Holder(s) = Null, tx[s].op = "reap",
         lock' = [lock EXCEPT ![tx[s].want] = s], tx' = [tx EXCEPT ![s] = Granted(tx[s])],
         UNCHANGED vars
  PROVE  TxInv'
<1> DEFINE t == tx[s]
           new == Granted(t)
<1>1. /\ Running(s) /\ t \in Transaction /\ t.want \in Row /\ lock[t.want] = Null
      /\ t.want # Null /\ tx' = [tx EXCEPT ![s] = new] /\ now' = now
      /\ \E r \in Row : lock[r] = Null /\ lock' = [lock EXCEPT ![r] = s]
  BY DEF Waits, Holder, TxInv, TxTypes, Running, Transaction, vars
<1>2. ReapInv(s)
  BY <1>1 DEF TxInv, SessionInv
<1>3. \A r \in Row : lock[r] = s \/ r = t.want => lock'[r] = s
  BY <1>1, RowAssumption DEF TxInv, TxTypes
<1>4. ASSUME new \in Transaction,
             new.op = t.op, new.ts = t.ts, new.token = t.token, new.seen = t.seen,
             new.want = Null, new.todo = t.todo,
             \A l \in new.closed : l \in Token /\ (l \in t.closed \/ l = t.want),
             Caught(s) \subseteq new.found \cup new.closed,
             \A l \in (new.found \cup new.closed) \ Caught(s) :
               Lapsed(l, t.ts) /\ attempts[l].job = t.want,
             \A l \in t.seen : Lapsed(l, t.ts) /\ attempts[l].job = t.want =>
               l \in new.found \cup new.closed
      PROVE  TxInv'
  <2> HIDE DEF new
  <2>1. Moves(s) /\ tx'[s] = new /\ new # Null
    BY <1>1, <1>4, StatementMoves
  <2>2. Caught(s)' = new.found \cup new.closed
    BY <1>4, <2>1, RowAssumption DEF Caught, Row
  <2>3. /\ \A l \in Token : /\ Lapsed(l, t.ts) => attempts[l].job \in Row
                            /\ Lapsed(l, tx[s].ts)' <=> Lapsed(l, t.ts)
        /\ CommittedLate(tx[s].ts)' = CommittedLate(t.ts)
    BY <1>4, <2>1 DEF CommittedLate, Lapsed, vars, TxInv, IInv, TypeOK, AttemptRow, Row
  <2>4. \A l \in new.found \cup new.closed : l \in Token
    BY <1>4 DEF Transaction
  <2>5. ReapInv(s)'
    <3>1. \A l \in Caught(s)' : Lapsed(l, tx[s].ts)' /\ lock'[attempts'[l].job] = s
      BY <1>2, <1>3, <1>4, <2>2, <2>3, <2>4 DEF ReapInv, vars
    <3>2. \A l \in new.closed : lock'[l] = s
      BY <1>2, <1>3, <1>4 DEF ReapInv, Row
    <3>3. \A l \in Token : Lapsed(l, tx[s].ts)' =>
            \/ l \in Caught(s)'
            \/ l \in CommittedLate(tx[s].ts)'
            \/ l \in new.seen /\ attempts'[l].job \in new.todo \cup {new.want}
      BY <1>2, <1>4, <2>2, <2>3 DEF ReapInv, vars
    <3> QED
      BY <2>1, <3>1, <3>2, <3>3 DEF ReapInv
  <2>6. SessionInv(s)'
    BY <1>4, <2>1, <2>5 DEF SessionInv, Settling
  <2> QED
    BY <2>1, <2>6, QuietKeeps
<1>5. \A j \in Job, l \in Token : Lapsed(l, t.ts) /\ attempts[l].job = j =>
        Reapable(j, t.ts) /\ jobs[j].lease_token = l
  BY DEF Lapsed, Reapable, TxInv, IInv, HandleOfAttempt
<1>6. CASE ~Matches(t, t.want)
  <2>1. t.want \in Job /\ ~Reapable(t.want, t.ts)
    BY <1>1, <1>2, <1>6, MatchesByRow DEF Row, ReapInv, Caught, Lapsed
  <2>2. new = [t EXCEPT !.want = Null]
    BY <1>6 DEF Granted
  <2>3. /\ new \in Transaction
        /\ new.op = t.op /\ new.ts = t.ts /\ new.token = t.token /\ new.seen = t.seen
        /\ new.want = Null /\ new.todo = t.todo /\ new.found = t.found /\ new.closed = t.closed
    BY <1>1, <2>2 DEF Transaction
  <2>4. Caught(s) = new.found \cup new.closed /\ \A l \in new.closed : l \in Token
    BY <1>1, <2>1, <2>3, RowAssumption DEF Caught, Transaction
  <2>5. \A l \in t.seen : ~(Lapsed(l, t.ts) /\ attempts[l].job = t.want)
    BY <1>1, <1>5, <2>1 DEF Transaction
  <2> HIDE DEF new
  <2> QED
    BY <1>4, <2>3, <2>4, <2>5
<1>7. CASE Matches(t, t.want) /\ t.want \in Job
  <2> DEFINE open == {jobs[t.want].lease_token} \cap t.seen
  <2>1. Reapable(t.want, t.ts) /\ t.want \notin Token
    BY <1>7, MatchesByRow, RowAssumption
  <2>2. new = [t EXCEPT !.want = Null, !.found = @ \cup open]
    BY <1>7, <2>1 DEF Granted
  <2>3. /\ new \in Transaction
        /\ new.op = t.op /\ new.ts = t.ts /\ new.token = t.token /\ new.seen = t.seen
        /\ new.want = Null /\ new.todo = t.todo /\ new.found = t.found \cup open
        /\ new.closed = t.closed
    BY <1>1, <2>2 DEF Transaction
  <2>4. Caught(s) = t.found \cup t.closed /\ \A l \in new.closed : l \in Token
    BY <1>1, <2>1, <2>3 DEF Caught, Transaction
  <2>5. \A l \in open : Lapsed(l, t.ts) /\ attempts[l].job = t.want
    <3>1. /\ jobs[t.want] # Null /\ jobs[t.want].lease_token # Null
          /\ LeaseLapsed(jobs[t.want], t.ts)
      BY <2>1 DEF Reapable, LeaseLapsed
    <3>2. LET l == jobs[t.want].lease_token
          IN  attempts[l] # Null /\ attempts[l] = [job |-> t.want, status |-> "leased"]
      BY <1>7, <3>1, LeasedAttempt DEF TxInv
    <3> QED
      BY <3>1, <3>2 DEF Lapsed
  <2>6. \A l \in t.seen : Lapsed(l, t.ts) /\ attempts[l].job = t.want => l \in open
    BY <1>1, <1>5, <1>7 DEF Transaction
  <2> HIDE DEF new, open
  <2> QED
    BY <1>4, <2>3, <2>4, <2>5, <2>6
<1>8. CASE Matches(t, t.want) /\ t.want \in Token
  <2>1. t.want \notin Job
    BY <1>8, RowAssumption
  <2>2. new = [t EXCEPT !.want = Null, !.closed = @ \cup {t.want}]
    BY <1>8, <2>1 DEF Granted
  <2>3. /\ new \in Transaction
        /\ new.op = t.op /\ new.ts = t.ts /\ new.token = t.token /\ new.seen = t.seen
        /\ new.want = Null /\ new.todo = t.todo /\ new.found = t.found
        /\ new.closed = t.closed \cup {t.want}
    <3>1. /\ new.op = t.op /\ new.ts = t.ts /\ new.token = t.token /\ new.seen = t.seen
          /\ new.want = Null /\ new.todo = t.todo /\ new.found = t.found
          /\ new.closed = t.closed \cup {t.want}
      BY <1>1, <2>2 DEF Transaction
    <3>2. t.closed \cup {t.want} \in SUBSET Token
      BY <1>1, <1>8 DEF Transaction
    <3>3. new \in Transaction
      BY <1>1, <2>2, <3>2 DEF Transaction
    <3> QED
      BY <3>1, <3>3
  <2>4. Caught(s) = new.found \cup new.closed /\ \A l \in new.closed : l \in Token
    BY <1>1, <1>8, <2>3 DEF Caught, Transaction
  <2>5. \A l \in t.seen : ~(Lapsed(l, t.ts) /\ attempts[l].job = t.want)
    BY <1>1, <2>1 DEF Lapsed, TxInv, IInv, TypeOK, AttemptRow, Transaction
  <2> HIDE DEF new
  <2> QED
    BY <1>4, <2>3, <2>4, <2>5
<1> QED
  BY <1>1, <1>6, <1>7, <1>8 DEF Row

\* A row is granted when nobody holds it.
LEMMA GrantKeeps ==
  ASSUME TxInv, NEW s \in Session, Grant(s) PROVE TxInv'
<1>1. /\ Waits(s) /\ Holder(s) = Null /\ UNCHANGED vars
      /\ lock' = [lock EXCEPT ![tx[s].want] = s] /\ tx' = [tx EXCEPT ![s] = Granted(tx[s])]
  BY DEF Grant, vars
<1> QED
  BY <1>1, GrantedRow, GrantedReaper

-----------------------------------------------------------------------------
(* Commits *)

\* The commit of a seed() seeds the job it has locked (queue.rs, seed).
LEMMA CommitSeedIsSeed ==
  ASSUME TxInv, NEW s \in Session, CommitSeed(s)
  PROVE  SeedAny /\ \A p \in Session \ {s} : Spares(p)
<1> DEFINE t == tx[s]
<1>1. /\ Running(s) /\ t.op = "seed" /\ t.done = 1 /\ t.ts \in Timestamp
      /\ UNCHANGED <<now, attempts, handles>>
  BY DEF CommitSeed, Committing, TxInv, TxTypes
<1>2. t.job \in Job /\ lock[t.job] = s
  BY <1>1 DEF TxInv, SessionInv, SeedInv, Locks
<1>3. PICK enabled \in BOOLEAN, interval \in Interval, limit \in 1 .. AttemptCeiling :
        jobs' = [jobs EXCEPT ![t.job] = IF @ = Null
                                        THEN Inserted(enabled, interval, limit, t.ts)
                                        ELSE Reseeded(@, enabled, interval, limit, t.ts)]
  BY DEF CommitSeed
<1>4. SeedAny
  BY <1>1, <1>2, <1>3 DEF SeedAny, Seed
<1>5. \A j \in Job : j # t.job => jobs'[j] = jobs[j]
  BY <1>3 DEF TxInv, IInv, TypeOK
<1>6. ASSUME NEW j \in Job, jobs'[j] # Null, jobs'[j].lease_token # Null
      PROVE  /\ jobs[j] # Null
             /\ jobs'[j].lease_token = jobs[j].lease_token
             /\ jobs'[j].lease_expires_at = jobs[j].lease_expires_at
  <2>1. CASE jobs[j] = Null
    <3>1. t.ts \in Nat
      BY <1>1, TimestampIsPast DEF TxInv, IInv
    <3>2. jobs'[j].lease_token = Null
      BY <1>3, <1>5, <1>6, <2>1, <3>1, InsertedRow DEF TxInv, IInv, TypeOK
    <3> QED
      BY <1>6, <3>2
  <2> QED
    BY <1>4, <2>1, SeedRows DEF TxInv
<1>7. ASSUME NEW p \in Session \ {s} PROVE Spares(p)
  <2>1. Running(p) /\ tx[p].op = "lease" => attempts[tx[p].token] = Null
    BY DEF TxInv, SessionInv, LeaseInv
  <2> QED
    BY <1>1, <1>2, <1>5, <1>6, <2>1 DEF Spares
<1> QED
  BY <1>4, <1>7

\* The commit of a lease() leases the candidate it has locked, passing over all
\* the other jobs (queue.rs, lease).
LEMMA CommitLeaseIsLease ==
  ASSUME TxInv, NEW s \in Session, CommitLease(s)
  PROVE  LeaseAny /\ \A p \in Session \ {s} : Spares(p)
<1> DEFINE t == tx[s]
<1>1. /\ Running(s) /\ t.op = "lease" /\ t.done = 1 /\ t.ts \in Timestamp /\ now' = now
      /\ attempts' = [attempts EXCEPT ![t.token] = [job |-> t.job, status |-> "leased"]]
      /\ handles' = [handles EXCEPT ![t.token] =
                       [id |-> t.job, attempt_count |-> jobs[t.job].attempt_count,
                        max_attempts |-> jobs[t.job].max_attempts]]
  BY DEF CommitLease, Committing, TxInv, TxTypes
<1>2. /\ t.token \in Token /\ attempts[t.token] = Null /\ t.job \in Job /\ lock[t.job] = s
      /\ jobs[t.job] # Null /\ Ready(jobs[t.job], t.ts) /\ handles[t.token] = Null
  BY <1>1 DEF TxInv, SessionInv, LeaseInv, Locks, IInv, HandleOfAttempt
<1>3. PICK seconds \in LeaseTime :
        jobs' = [jobs EXCEPT ![t.job] = Leased(@, t.token, t.ts + seconds)]
  BY DEF CommitLease
<1>4. t.job \in Candidates(Job \ {t.job}, t.ts)
      /\ \A k \in Candidates(Job \ {t.job}, t.ts) : k = t.job
  BY <1>2 DEF Candidates
<1>5. /\ t.ts \in Nat /\ seconds \in Nat /\ MaxLag \in Nat /\ now \in Nat
      /\ now <= t.ts + MaxLag
      /\ jobs[t.job].next_run_at \in Nat /\ jobs[t.job] \in JobRow
  BY <1>1, <1>2, BoundsAssumption, SMTT(30) DEF TxInv, IInv, TypeOK, JobRow, Timestamp
<1>6. Lease(t.token, seconds, Job \ {t.job}, t.ts)
  <2>1. \A k \in Candidates(Job \ {t.job}, t.ts) : jobs[t.job].next_run_at <= jobs[k].next_run_at
    <3>1. jobs[t.job].next_run_at <= jobs[t.job].next_run_at
      BY <1>5
    <3> QED
      BY <1>4, <3>1, Zenon
  <2>2. jobs' = [jobs EXCEPT ![t.job] = Leased(jobs[t.job], t.token, t.ts + seconds)]
    BY <1>3
  <2> QED
    BY <1>1, <1>2, <1>4, <2>1, <2>2 DEF Lease
<1>7. LeaseAny
  BY <1>1, <1>2, <1>6 DEF LeaseAny
<1>8. /\ \A j \in Job : j # t.job => jobs'[j] = jobs[j]
      /\ \A l \in Token : l # t.token => attempts'[l] = attempts[l] /\ handles'[l] = handles[l]
  BY <1>1, <1>3 DEF TxInv, IInv, TypeOK
<1>9. jobs'[t.job].lease_expires_at + MaxLag >= now + seconds
  <2>1. jobs'[t.job].lease_expires_at = t.ts + seconds
    BY <1>2, <1>3, <1>5, LeasedRow, SMTT(30) DEF TxInv, IInv, TypeOK
  <2> QED
    BY <1>5, <2>1
<1>10. ASSUME NEW p \in Session \ {s} PROVE Spares(p)
  <2>1. /\ Running(p) /\ tx[p].op = "lease" => /\ attempts[tx[p].token] = Null
                                               /\ tx[p].token \in Token
                                               /\ tx[p].token # t.token
    BY <1>1 DEF TxInv, SessionInv, LeaseInv, FreshTokens
  <2> QED
    BY <1>2, <1>8, <1>9, <2>1 DEF Spares
<1> QED
  BY <1>7, <1>10

\* The commit of a settlement settles an attempt that is open and whose job still
\* carries its token, because it has both locked (queue.rs, complete and fail).
LEMMA CommitSettleIsSettle ==
  ASSUME TxInv, NEW s \in Session, CommitComplete(s) \/ CommitFail(s)
  PROVE  /\ \E l \in Token, ts \in Timestamp : Complete(l, ts) \/ Fail(l, ts)
         /\ \A p \in Session \ {s} : Spares(p)
<1> DEFINE t == tx[s]
           l == t.token
<1>1. /\ Running(s) /\ t.op \in Settling /\ t.done = 2 /\ t.ts \in Timestamp
      /\ now' = now /\ handles' = handles
  BY DEF CommitComplete, CommitFail, Committing, TxInv, TxTypes, Settling
<1>2. /\ l \in Token /\ t.job = handles[l].id /\ handles[l] # Null
      /\ attempts[l].status = "leased" /\ jobs[t.job].lease_token = l
      /\ lock[l] = s /\ lock[t.job] = s
  BY <1>1 DEF TxInv, SessionInv, SettleInv, Locks
<1>3. t.job \in Job /\ attempts[l] # Null /\ attempts[l].job = t.job
  BY <1>2 DEF TxInv, IInv, TypeOK, CrawlJob, HandleOfAttempt
<1>4. Complete(l, t.ts) \/ Fail(l, t.ts)
  <2>1. Holds(l)
    BY <1>2 DEF Holds
  <2>2. CASE CommitComplete(s)
    <3>1. /\ attempts' = [attempts EXCEPT ![l].status = "succeeded"]
          /\ jobs' = [jobs EXCEPT ![handles[l].id] =
               Released(jobs[handles[l].id], t.ts + jobs[handles[l].id].interval_seconds, 0, Null)]
      BY <1>2, <2>2 DEF CommitComplete
    <3> QED
      BY <1>1, <2>1, <3>1 DEF Complete, Settle
  <2>3. CASE CommitFail(s)
    <3>1. /\ attempts' = [attempts EXCEPT ![l].status = "failed"]
          /\ jobs' = [jobs EXCEPT ![handles[l].id] =
               Released(jobs[handles[l].id], t.ts + Backoff[handles[l].attempt_count + 1],
                        jobs[handles[l].id].attempt_count + 1, "failed")]
      BY <1>2, <2>3 DEF CommitFail
    <3> QED
      BY <1>1, <2>1, <3>1 DEF Fail, Settle
  <2> QED
    BY <2>2, <2>3
<1>5. /\ \A k \in Token : k # l => attempts'[k] = attempts[k]
      /\ \A j \in Job : j # t.job => jobs'[j] = jobs[j]
      /\ jobs'[t.job].lease_token = Null
      /\ attempts'[l].job = attempts[l].job
  BY <1>1, <1>2, <1>4, SettleRows DEF TxInv
<1>6. IInv'
  BY <1>1, <1>2, <1>4, CompleteKeeps, FailKeeps DEF TxInv
<1>7. ASSUME NEW p \in Session \ {s} PROVE Spares(p)
  <2>1. Running(p) /\ tx[p].op = "lease" => /\ attempts[tx[p].token] = Null
                                            /\ tx[p].token \in Token
    BY DEF TxInv, SessionInv, LeaseInv
  <2>2. attempts'[l] # Null
    BY <1>1, <1>2, <1>6 DEF IInv, HandleOfAttempt
  <2> QED
    BY <1>1, <1>2, <1>3, <1>5, <2>1, <2>2 DEF Spares
<1> QED
  BY <1>1, <1>2, <1>4, <1>7

\* The commit of a reap_expired() closes exactly the open attempts that had lapsed
\* by its timestamp: those it has closed, but for leases committed behind its
\* snapshot (queue.rs, reap_expired).
LEMMA CommitReapIsReap ==
  ASSUME TxInv, NEW s \in Session, CommitReap(s)
  PROVE  ReapAny /\ \A p \in Session \ {s} : Spares(p)
<1> DEFINE t == tx[s]
           seen == (Token \ CommittedLate(t.ts)) \cup t.closed
<1>1. /\ Running(s) /\ t.op = "reap" /\ t.want = Null /\ t.todo = {} /\ t.found = {}
      /\ t.ts \in Timestamp /\ t.closed \subseteq Token /\ now' = now /\ handles' = handles
  BY DEF CommitReap, Committing, TxInv, TxTypes, Transaction, Running
<1>2. ReapInv(s) /\ Caught(s) = t.closed
  BY <1>1, RowAssumption DEF TxInv, SessionInv, Caught, Row
<1>3. \A l \in Token : l \in Abandoned(seen, t.ts) <=> l \in seen /\ Lapsed(l, t.ts)
  <2>1. \A l \in Token : attempts[l] # Null =>
          attempts[l].job \in Job /\ jobs[attempts[l].job] # Null
    BY DEF TxInv, IInv, TypeOK, AttemptRow, HandleOfAttempt
  <2> QED
    BY <2>1 DEF Abandoned, Expired, Lapsed
<1>4. Abandoned(seen, t.ts) = t.closed
  <2>1. \A l \in t.closed : l \in Abandoned(seen, t.ts)
    BY <1>1, <1>2, <1>3 DEF ReapInv
  <2>2. ASSUME NEW l \in Token, l \in Abandoned(seen, t.ts) PROVE l \in t.closed
    <3>1. l \in seen /\ Lapsed(l, t.ts) /\ attempts[l].job \in Job
      BY <1>3, <2>2 DEF Lapsed, TxInv, IInv, TypeOK, AttemptRow
    <3> QED
      BY <1>1, <1>2, <3>1, RowAssumption DEF ReapInv, Row
  <2>3. Abandoned(seen, t.ts) \subseteq Token
    BY <1>1 DEF Abandoned
  <2> QED
    BY <2>1, <2>2, <2>3
<1>5. seen \in Snapshots(t.ts)
  BY <1>1 DEF Snapshots
<1> HIDE DEF seen
<1>6. Reap(seen, t.ts)
  BY <1>1, <1>4 DEF CommitReap, Reap
<1>7. ReapAny
  BY <1>1, <1>5, <1>6 DEF ReapAny
<1>8. seen \in SUBSET Token
  BY <1>5 DEF Snapshots
<1>9. ASSUME NEW j \in Job
      PROVE  \/ jobs'[j] = jobs[j]
             \/ lock[j] = s /\ jobs'[j].lease_token = Null
  BY <1>1, <1>2, <1>4, <1>6, <1>8, ReapRows DEF ReapInv, TxInv
<1>10. ASSUME NEW l \in Token
       PROVE  \/ attempts'[l] = attempts[l]
              \/ /\ lock[l] = s /\ lock[attempts[l].job] = s
                 /\ attempts'[l] # Null /\ attempts'[l].job = attempts[l].job
                 /\ attempts[l] # Null
  <2>1. IInv
    BY DEF TxInv
  <2>2. \/ l \notin t.closed /\ attempts'[l] = attempts[l]
        \/ l \in t.closed /\ attempts'[l] # Null /\ attempts'[l].job = attempts[l].job
    <3>1. t.ts \in Timestamp
      BY <1>1
    <3>2. \/ l \notin Abandoned(seen, t.ts) /\ attempts'[l] = attempts[l]
          \/ /\ l \in Abandoned(seen, t.ts)
             /\ attempts'[l] # Null /\ attempts'[l].job = attempts[l].job
      BY <1>6, <1>8, <2>1, <3>1, ReapAttempts
    <3> QED
      BY <1>4, <3>2
  <2>3. l \in t.closed => lock[l] = s /\ lock[attempts[l].job] = s /\ attempts[l] # Null
    BY <1>2 DEF ReapInv, Lapsed
  <2> QED
    BY <2>2, <2>3
<1>11. ASSUME NEW p \in Session \ {s} PROVE Spares(p)
  <2>1. Running(p) /\ tx[p].op = "lease" => /\ attempts[tx[p].token] = Null
                                            /\ tx[p].token \in Token
    BY DEF TxInv, SessionInv, LeaseInv
  <2>2. Running(p) /\ tx[p].op = "lease" => attempts'[tx[p].token] = Null
    BY <1>10, <2>1
  <2> QED
    BY <1>1, <1>9, <1>10, <2>2 DEF Spares
<1> QED
  BY <1>7, <1>11

\* Every commit is a step of the queue, and keeps the invariant.
LEMMA CommitKeeps ==
  ASSUME TxInv, NEW s \in Session, Commit(s) PROVE Next /\ TxInv'
<1>1. Next /\ \A p \in Session \ {s} : Spares(p)
  BY CommitSeedIsSeed, CommitLeaseIsLease, CommitSettleIsSettle, CommitReapIsReap
     DEF Commit, Next
<1>2. Ending(s) /\ now' = now
  BY DEF Commit, CommitSeed, CommitLease, CommitComplete, CommitFail, CommitReap, Committing
<1>3. IInv'
  BY <1>1, NextKeeps DEF TxInv
<1>4. Moves(s) /\ SessionInv(s)'
  BY <1>2, EndingMoves
<1> QED
  BY <1>1, <1>3, <1>4, MoveKeeps

-----------------------------------------------------------------------------
(* The invariant and the refinement *)

\* Before the first transaction nothing is locked.
LEMMA TxInitEstablishes == TxInit => TxInv
<1> SUFFICES ASSUME TxInit PROVE TxInv
  OBVIOUS
<1>1. IInv
  BY InitEstablishes DEF TxInit
<1>2. /\ lock \in [Row -> Session \cup {Null}] /\ tx \in [Session -> Transaction \cup {Null}]
      /\ \A r \in Row : lock[r] = Null
      /\ \A s \in Session : ~Running(s)
  BY DEF TxInit, Running
<1>3. TxTypes /\ FreshTokens /\ \A s \in Session : SessionInv(s)
  BY <1>2 DEF TxTypes, FreshTokens, SessionInv
<1> QED
  BY <1>1, <1>3 DEF TxInv

\* Each step keeps the invariant, and is a step of the queue or a stutter.
LEMMA TxStep ==
  ASSUME TxInv, [TxNext]_txVars PROVE TxInv' /\ [Next]_vars
<1>1. CASE TxTick
  BY <1>1, TxTickKeeps DEF TxTick, Tick, Next
<1>2. CASE \E s \in Session : BeginAny(s)
  <2>1. UNCHANGED vars
    BY <1>2 DEF BeginAny, BeginSeed, BeginLease, BeginSettle, BeginReap, Begin, vars
  <2> QED
    BY <1>2, <2>1, BeginKeeps
<1>3. CASE \E s \in Session : Commit(s)
  BY <1>3, CommitKeeps
<1>4. CASE \E s \in Session : Request(s) \/ ReapRequest(s) \/ TakeCandidate(s) \/ Grant(s)
  <2>1. UNCHANGED vars
    BY <1>4 DEF Request, ReapRequest, TakeCandidate, Grant, vars
  <2> QED
    BY <1>4, <2>1, RequestKeeps, ReapRequestKeeps, TakeCandidateKeeps, GrantKeeps
<1>5. CASE \E s \in Session : Bail(s) \/ NoCandidate(s) \/ Disconnect(s) \/ DeadlockAbort(s)
  <2>1. UNCHANGED vars /\ \E s \in Session : Ending(s)
    BY <1>5 DEF Bail, NoCandidate, Disconnect, DeadlockAbort, vars
  <2> QED
    BY <2>1, EndingKeeps
<1>6. CASE UNCHANGED txVars
  <2>1. UNCHANGED vars /\ lock' = lock /\ tx' = tx
    BY <1>6 DEF txVars
  <2>2. IInv' /\ \A p \in Session : Spares(p)
    BY <2>1, NextKeeps, QuietSpares DEF TxInv, vars
  <2>3. \A p \in Session : SessionInv(p)'
    BY <2>1, <2>2, SessionSpared DEF TxInv
  <2>4. TxTypes' /\ FreshTokens'
    BY <2>1 DEF TxInv, TxTypes, FreshTokens, Running, Timestamp, vars
  <2> QED
    BY <2>1, <2>2, <2>3, <2>4 DEF TxInv
<1> QED
  BY <1>1, <1>2, <1>3, <1>4, <1>5, <1>6 DEF TxNext, Proceed

\* Statement by statement, whoever waits, dies or is aborted, the transactions
\* keep the invariant.
THEOREM TxInvariance == TxSpec => []TxInv
<1>1. TxInv /\ [TxNext]_txVars => TxInv'
  BY TxStep
<1> QED
  BY <1>1, TxInitEstablishes, PTL DEF TxSpec

\* The transactions of queue.rs, statement by statement over row locks, implement
\* its operations as CrawlQueue has them: each takes effect at its commit.
THEOREM TransactionsRefineQueue == TxSpec => RefinesQueue
<1>1. TxInit => Init
  BY DEF TxInit
<1>2. TxInv /\ [TxNext]_txVars => [Next]_vars
  BY TxStep
<1> QED
  BY <1>1, <1>2, TxInvariance, PTL DEF TxSpec, RefinesQueue, Spec

-----------------------------------------------------------------------------
(* Deadlocks *)

\* Who waits with a row locked, and is no reaper, is a settlement that has its
\* attempt and goes for its job.
LEMMA WaitingHolder ==
  ASSUME TxInv, NEW s \in Session, Waits(s), tx[s].op # "reap", NEW r \in Row, lock[r] = s
  PROVE  /\ tx[s].op \in Settling /\ Locks(s) = {tx[s].token} /\ r = tx[s].token
         /\ tx[s].want = tx[s].job /\ tx[s].token \in Token /\ tx[s].job \in Job
         /\ handles[tx[s].token] # Null /\ tx[s].job = handles[tx[s].token].id
<1> DEFINE t == tx[s]
<1>1. /\ Running(s) /\ t \in Transaction /\ t.want # Null /\ r \in Locks(s)
      /\ SessionInv(s)
  BY DEF Waits, TxInv, TxTypes, Running, Locks
<1>2. t.done \in 0 .. 2 /\ t.op \in Settling \cup {"seed", "lease"}
  BY <1>1 DEF Transaction
<1>3. t.op # "lease"
  BY <1>1 DEF SessionInv, LeaseInv
<1>4. t.op # "seed"
  BY <1>1, <1>2 DEF SessionInv, SeedInv
<1>5. t.op \in Settling /\ SettleInv(s)
  BY <1>1, <1>2, <1>3, <1>4 DEF SessionInv
<1>6. t.done = 1 /\ t.want = t.job /\ Locks(s) = {t.token}
  BY <1>1, <1>2, <1>5 DEF SettleInv
<1>7. t.token \in Token /\ handles[t.token] # Null /\ t.job = handles[t.token].id
  BY <1>5 DEF SettleInv
<1>8. t.job \in Job
  BY <1>7 DEF TxInv, IInv, TypeOK, CrawlJob
<1> QED
  BY <1>1, <1>5, <1>6, <1>7, <1>8

\* seed(), lease(), complete() and fail() never deadlock among themselves, late
\* and repeated settlements included: who waits for a job holds an attempt, and
\* who holds an attempt and waits is waited for by none that holds a job.
THEOREM DeadlocksHaveReapers == TxSpec => []DeadlockHasReaper
<1>1. ASSUME TxInv PROVE DeadlockHasReaper
  <2> SUFFICES ASSUME NEW cycle \in SUBSET {s \in Session : Running(s) /\ tx[s].op # "reap"},
                      cycle # {},
                      \A p \in cycle : Waits(p) /\ Holder(p) \in cycle
               PROVE  FALSE
    BY DEF DeadlockHasReaper
  <2>1. \A p \in cycle : p \in Session /\ tx[p].op # "reap" /\ tx[p].want \in Row
    BY <1>1, RowAssumption DEF TxInv, TxTypes, Transaction, Waits, Running
  <2>2. ASSUME NEW p \in cycle PROVE tx[Holder(p)].token = tx[p].want
    BY <1>1, <2>1, <2>2, WaitingHolder DEF Holder
  <2>3. ASSUME NEW p \in cycle
        PROVE  /\ tx[Holder(p)].want = tx[Holder(p)].job
               /\ tx[Holder(p)].job \in Job /\ tx[Holder(p)].token \in Token
    BY <1>1, <2>1, <2>3, WaitingHolder DEF Holder
  <2>4. PICK p \in cycle : TRUE
    OBVIOUS
  <2>5. Holder(p) \in cycle /\ Holder(Holder(p)) \in cycle
    BY <2>4
  <2>6. tx[Holder(p)].want \in Job /\ tx[Holder(p)].want \in Token
    BY <2>2, <2>3, <2>5
  <2> QED
    BY <2>6, RowAssumption
<1> QED
  BY <1>1, TxInvariance, PTL

\* The detector takes a complete() or a fail() only when its lease has lapsed: the
\* one that waits for its attempt is a reaper that found the job expired.
THEOREM LiveSettlementsDoNotDeadlock == TxSpec => []LiveSettlementNotDeadlocked
<1>1. ASSUME TxInv PROVE LiveSettlementNotDeadlocked
  <2> SUFFICES ASSUME NEW s \in Session, Deadlocked(s), tx[s].op \in Settling
               PROVE  LeaseLapsed(jobs[tx[s].job], now)
    BY DEF LiveSettlementNotDeadlocked
  <2> DEFINE l == tx[s].token
  <2>1. PICK cycle \in SUBSET Session :
          /\ s \in cycle
          /\ \A p \in cycle : /\ Waits(p) /\ Holder(p) \in cycle
                              /\ \E q \in cycle : Waits(q) /\ Holder(q) = p
    BY DEF Deadlocked
  <2>2. \A p \in cycle : p \in Session /\ Running(p) /\ tx[p].want \in Row
    BY <1>1, <2>1, RowAssumption DEF TxInv, TxTypes, Transaction, Waits, Running
  <2>3. PICK q \in cycle : Waits(q) /\ Holder(q) = s
    BY <2>1
  <2>4. /\ tx[q].want = l /\ l \in Token /\ handles[l] # Null /\ tx[s].job = handles[l].id
        /\ tx[s].job \in Job
    BY <1>1, <2>1, <2>2, <2>3, WaitingHolder DEF Holder, Settling
  <2>5. tx[q].op = "reap"
    <3> SUFFICES ASSUME tx[q].op # "reap" PROVE FALSE
      OBVIOUS
    <3>1. PICK p \in cycle : Waits(p) /\ Holder(p) = q
      BY <2>1
    <3>2. tx[q].want \in Job
      BY <1>1, <2>2, <2>3, <3>1, WaitingHolder DEF Holder
    <3> QED
      BY <2>4, <3>2, RowAssumption
  <2>6. Lapsed(l, tx[q].ts)
    BY <1>1, <2>2, <2>4, <2>5 DEF TxInv, SessionInv, ReapInv, Caught
  <2>7. attempts[l].job = tx[s].job
    BY <1>1, <2>4 DEF TxInv, IInv, HandleOfAttempt
  <2>8. /\ tx[q].ts \in Nat /\ tx[q].ts <= now /\ now \in Nat
        /\ jobs[tx[s].job] # Null /\ LeaseLapsed(jobs[tx[s].job], tx[q].ts)
    BY <1>1, <2>2, <2>4, <2>6, <2>7, TimestampIsPast
       DEF Lapsed, TxInv, TxTypes, IInv, TypeOK, HandleOfAttempt
  <2>9. jobs[tx[s].job].lease_expires_at \in Nat
    BY <1>1, <2>4, <2>8, LeasedAttempt DEF LeaseLapsed, TxInv
  <2> QED
    BY <2>8, <2>9 DEF LeaseLapsed
<1> QED
  BY <1>1, TxInvariance, PTL
-----------------------------------------------------------------------------
(* The workers implement the queue *)

\* Every step of the runtime is a step of the queue or leaves it unchanged.
LEMMA RuntimeStepIsQueueStep ==
  ASSUME RuntimeTypeOK, [RuntimeNext]_runtimeVars PROVE [Next]_vars
<1>1. CASE RuntimeTick
  BY <1>1 DEF RuntimeTick, Next
<1>2. CASE Admin
  BY <1>2 DEF Admin, Next
<1>3. CASE \E w \in Worker : WorkerStep(w)
  <2>1. PICK w \in Worker : WorkerStep(w)
    BY <1>3
  <2>2. CASE \/ Start(w) \/ Stop(w) \/ Wake(w) \/ NothingDue(w)
             \/ Crawled(w) \/ GaveUp(w) \/ Receipt(w) \/ LostLease(w)
    BY <2>2 DEF Start, Stop, Wake, NothingDue, Crawled, GaveUp, Receipt, LostLease, vars
  <2>3. CASE WorkerReap(w)
    BY <2>3 DEF WorkerReap, Next
  <2>4. CASE WorkerLease(w)
    BY <2>4, RuntimeAssumption DEF WorkerLease, Next, LeaseAny
  <2>5. CASE WorkerSettle(w)
    <3>1. pc[w] \in Working
      BY <2>5 DEF WorkerSettle, Working
    <3>2. mine[w] \in Token
      BY <3>1 DEF RuntimeTypeOK
    <3> QED
      BY <2>5, <3>2 DEF WorkerSettle, Next
  <2> QED
    BY <2>1, <2>2, <2>3, <2>4, <2>5 DEF WorkerStep
<1>4. CASE \E l \in Token : Accept(l)
  BY <1>4 DEF Accept, vars
<1>5. CASE UNCHANGED runtimeVars
  BY <1>5 DEF runtimeVars, vars
<1> QED
  BY <1>1, <1>2, <1>3, <1>4, <1>5 DEF RuntimeNext

\* Moving a worker to another phase keeps the worker variables well typed, if
\* it has a lease exactly in the working phases.
LEMMA GotoKeepsTypes ==
  ASSUME RuntimeTypeOK, now \in Nat, NEW w \in Worker, NEW phase \in Phase, Goto(w, phase),
         NEW l \in Token \cup {Null}, mine' = [mine EXCEPT ![w] = l],
         l # Null <=> phase \in Working
  PROVE  /\ pc' \in [Worker -> Phase]
         /\ mine' \in [Worker -> Token \cup {Null}]
         /\ since' \in [Worker -> Nat]
         /\ \A v \in Worker : mine'[v] # Null <=> pc'[v] \in Working
BY DEF RuntimeTypeOK, Goto

\* Each step of a worker keeps the types.
LEMMA WorkerStepKeepsTypes ==
  ASSUME IInv, RuntimeTypeOK, NEW w \in Worker, WorkerStep(w)
  PROVE  RuntimeTypeOK'
<1>1. now \in Nat
  BY DEF IInv, TypeOK
<1> USE <1>1, NullAssumption DEF Phase, Working
<1>2. mine[w] \in Token \cup {Null} /\ mine = [mine EXCEPT ![w] = mine[w]]
  BY DEF RuntimeTypeOK
<1>3. CASE Start(w)
  <2>1. mine[w] = Null
    BY <1>3 DEF Start, RuntimeTypeOK
  <2> QED
    BY <1>2, <1>3, <2>1, GotoKeepsTypes DEF Start, RuntimeTypeOK
<1>4. CASE Stop(w)
  BY <1>4, GotoKeepsTypes DEF Stop, RuntimeTypeOK
<1>5. CASE Wake(w) \/ WorkerReap(w)
  <2>1. mine[w] = Null
    BY <1>5 DEF Wake, WorkerReap, RuntimeTypeOK
  <2> QED
    BY <1>2, <1>5, <2>1, GotoKeepsTypes DEF Wake, WorkerReap, RuntimeTypeOK
<1>6. CASE WorkerLease(w)
  <2>1. PICK l \in Token : mine' = [mine EXCEPT ![w] = l]
    BY <1>6 DEF WorkerLease
  <2> QED
    BY <1>6, <2>1, GotoKeepsTypes DEF WorkerLease, RuntimeTypeOK
<1>7. CASE NothingDue(w)
  BY <1>7, GotoKeepsTypes DEF NothingDue, Finish, RuntimeTypeOK
<1>8. CASE Crawled(w) \/ GaveUp(w) \/ Receipt(w)
  <2>1. mine[w] # Null
    BY <1>8 DEF Crawled, GaveUp, Receipt, RuntimeTypeOK
  <2>2. mine' = mine /\ \E phase \in {"ingest", "fail", "complete"} : Goto(w, phase)
    BY <1>8 DEF Crawled, GaveUp, Receipt
  <2>3. /\ pc' \in [Worker -> Phase]
        /\ mine' \in [Worker -> Token \cup {Null}]
        /\ since' \in [Worker -> Nat]
        /\ \A v \in Worker : mine'[v] # Null <=> pc'[v] \in Working
    BY <1>2, <2>1, <2>2, GotoKeepsTypes
  <2>4. sent' \subseteq Token /\ pages' \subseteq sent'
    BY <1>2, <1>8, <2>1 DEF Crawled, GaveUp, Receipt, RuntimeTypeOK
  <2> QED
    BY <2>3, <2>4 DEF RuntimeTypeOK
<1>9. CASE WorkerSettle(w)
  BY <1>9, GotoKeepsTypes DEF WorkerSettle, Finish, RuntimeTypeOK
<1>10. CASE LostLease(w)
  BY <1>10, GotoKeepsTypes DEF LostLease, RuntimeTypeOK
<1> QED
  BY <1>3, <1>4, <1>5, <1>6, <1>7, <1>8, <1>9, <1>10 DEF WorkerStep

\* The queue's invariant and the types of the workers hold throughout.
THEOREM RuntimeInvariance == RuntimeSpec => [](IInv /\ RuntimeTypeOK)
<1>1. RuntimeInit => IInv /\ RuntimeTypeOK
  <2> SUFFICES ASSUME RuntimeInit PROVE IInv /\ RuntimeTypeOK
    OBVIOUS
  <2>1. IInv
    BY InitEstablishes DEF RuntimeInit
  <2>2. RuntimeTypeOK
    BY DEF RuntimeInit, RuntimeTypeOK, Phase, Working
  <2> QED
    BY <2>1, <2>2
<1>2. IInv /\ RuntimeTypeOK /\ [RuntimeNext]_runtimeVars => (IInv /\ RuntimeTypeOK)'
  <2> SUFFICES ASSUME IInv, RuntimeTypeOK, [RuntimeNext]_runtimeVars
               PROVE  IInv' /\ RuntimeTypeOK'
    OBVIOUS
  <2>1. IInv'
    BY RuntimeStepIsQueueStep, NextKeeps
  <2>2. CASE RuntimeTick \/ Admin \/ UNCHANGED runtimeVars
    BY <2>1, <2>2 DEF RuntimeTick, Admin, runtimeVars, RuntimeTypeOK
  <2>3. CASE \E w \in Worker : WorkerStep(w)
    BY <2>1, <2>3, WorkerStepKeepsTypes
  <2>4. CASE \E l \in Token : Accept(l)
    BY <2>1, <2>4 DEF Accept, RuntimeTypeOK
  <2> QED
    BY <2>2, <2>3, <2>4 DEF RuntimeNext
<1> QED
  BY <1>1, <1>2, PTL DEF RuntimeSpec

\* The phases, leases and posted pages of the workers keep their types, and a
\* worker has a lease exactly while it works (main.rs, process_next).
THEOREM RuntimeTypeCorrect == RuntimeSpec => []RuntimeTypeOK
BY RuntimeInvariance, PTL

-----------------------------------------------------------------------------
(* A success stands for a page the API accepted *)

\* A worker completes its job only once the API has accepted its page.
AcceptedFirst == \A w \in Worker : pc[w] = "complete" => mine[w] \in pages

\* A worker's step records a success only of its own lease, in complete().
LEMMA SuccessOnlyByCompletion ==
  ASSUME IInv, RuntimeTypeOK, [RuntimeNext]_runtimeVars,
         NEW l \in Token, attempts'[l] # Null, attempts'[l].status = "succeeded"
  PROVE  \/ attempts[l] # Null /\ attempts[l].status = "succeeded"
         \/ \E w \in Worker : pc[w] = "complete" /\ mine[w] = l
<1>1. CASE attempts' = attempts
  BY <1>1
<1>2. CASE ReapAny
  BY <1>2, ReapAnyReaps, ReapAttempts
<1>3. ASSUME NEW w \in Worker, WorkerLease(w)
      PROVE  attempts[l] # Null /\ attempts[l].status = "succeeded"
  <2>1. PICK m \in Token, j \in Job :
          attempts' = [attempts EXCEPT ![m] = [job |-> j, status |-> "leased"]]
    BY <1>3 DEF WorkerLease, Lease, Candidates
  <2>2. l # m
    BY <2>1 DEF IInv, TypeOK
  <2> QED
    BY <2>1, <2>2
<1>4. ASSUME NEW w \in Worker, WorkerSettle(w)
      PROVE  \/ attempts[l] # Null /\ attempts[l].status = "succeeded"
             \/ pc[w] = "complete" /\ mine[w] = l
  <2>1. CASE l = mine[w] /\ pc[w] = "complete"
    BY <2>1
  <2>2. CASE l # mine[w]
    <3>1. PICK ts \in Timestamp : Complete(mine[w], ts) \/ Fail(mine[w], ts)
      BY <1>4 DEF WorkerSettle
    <3>2. \E outcome : attempts' = [attempts EXCEPT ![mine[w]].status = outcome]
      BY <3>1 DEF Complete, Fail, Settle
    <3>3. attempts'[l] = attempts[l]
      BY <2>2, <3>2 DEF IInv, TypeOK
    <3> QED
      BY <3>3
  <2>3. CASE l = mine[w] /\ pc[w] # "complete"
    <3>1. attempts' = [attempts EXCEPT ![l].status = "failed"] /\ Holds(l)
      BY <1>4, <2>3 DEF WorkerSettle, Fail, Settle
    <3>2. attempts[l] \in AttemptRow
      BY <3>1 DEF IInv, TypeOK, Holds
    <3> QED
      BY <3>1, <3>2 DEF AttemptRow, IInv, TypeOK
  <2> QED
    BY <2>1, <2>2, <2>3
<1>5. CASE \E w \in Worker : WorkerStep(w)
  <2>1. PICK w \in Worker : WorkerStep(w)
    BY <1>5
  <2>2. \/ attempts' = attempts \/ ReapAny \/ WorkerLease(w) \/ WorkerSettle(w)
    BY <2>1 DEF WorkerStep, Start, Stop, Wake, WorkerReap, NothingDue, Crawled, GaveUp,
                Receipt, LostLease
  <2> QED
    BY <1>1, <1>2, <1>3, <1>4, <2>2
<1>6. CASE RuntimeTick \/ Admin \/ (\E m \in Token : Accept(m)) \/ UNCHANGED runtimeVars
  BY <1>1, <1>2, <1>6 DEF RuntimeTick, Tick, Admin, SeedAny, Seed, Accept, runtimeVars
<1> QED
  BY <1>5, <1>6 DEF RuntimeNext

\* No step lets a worker into complete() before its page was accepted, and the
\* API takes no page back.
LEMMA AcceptedFirstKept ==
  ASSUME IInv, RuntimeTypeOK, AcceptedFirst, [RuntimeNext]_runtimeVars
  PROVE  AcceptedFirst' /\ pages \subseteq pages'
<1>1. CASE RuntimeTick \/ Admin \/ (\E l \in Token : Accept(l)) \/ UNCHANGED runtimeVars
  BY <1>1 DEF RuntimeTick, Admin, Accept, runtimeVars, AcceptedFirst
<1>2. ASSUME NEW w \in Worker, WorkerStep(w)
      PROVE  AcceptedFirst' /\ pages' = pages
  <2>1. pages' = pages
    BY <1>2 DEF WorkerStep, Start, Stop, Wake, WorkerReap, WorkerLease, NothingDue, Crawled,
                GaveUp, Receipt, WorkerSettle, LostLease
  <2>2. CASE Receipt(w)
    BY <2>1, <2>2 DEF Receipt, Goto, AcceptedFirst, RuntimeTypeOK
  <2>3. CASE ~Receipt(w)
    <3>1. \A processed : Finish(w, processed) => pc'[w] # "complete"
      BY DEF Finish, Goto, RuntimeTypeOK
    <3>2. pc'[w] # "complete"
      BY <1>2, <2>3, <3>1 DEF WorkerStep, Start, Stop, Wake, WorkerReap, WorkerLease, NothingDue,
                        Crawled, GaveUp, WorkerSettle, LostLease, Goto, RuntimeTypeOK
    <3>3. \A v \in Worker \ {w} : mine'[v] = mine[v] /\ pc'[v] = pc[v]
      BY <1>2, <2>3 DEF WorkerStep, Start, Stop, Wake, WorkerReap, WorkerLease, NothingDue,
                        Crawled, GaveUp, WorkerSettle, LostLease, Finish, Goto, RuntimeTypeOK
    <3> QED
      BY <2>1, <3>2, <3>3 DEF AcceptedFirst
  <2> QED
    BY <2>1, <2>2, <2>3
<1> QED
  BY <1>1, <1>2 DEF RuntimeNext

\* A success is recorded only for a page the API accepted, whatever answers were
\* late or lost and wherever workers died (main.rs, process_next).
THEOREM SuccessesAreAccepted == RuntimeSpec => []SuccessAccepted
<1>1. RuntimeInit => AcceptedFirst /\ SuccessAccepted
  BY DEF RuntimeInit, Init, AcceptedFirst, SuccessAccepted
<1>2. ASSUME IInv, RuntimeTypeOK, AcceptedFirst, SuccessAccepted, [RuntimeNext]_runtimeVars
      PROVE  AcceptedFirst' /\ SuccessAccepted'
  BY <1>2, AcceptedFirstKept, SuccessOnlyByCompletion DEF AcceptedFirst, SuccessAccepted
<1> QED
  BY <1>1, <1>2, RuntimeInvariance, PTL DEF RuntimeSpec

-----------------------------------------------------------------------------
(* A lease long enough for every timeout is never lost *)

\* What the phases after this one may still take.
RestAfter == [crawl    |-> ApiTimeout + DbPatience, ingest |-> DbPatience,
              complete |-> 0, fail |-> 0]

\* A working worker with a long lease holds it, is within the limit of its phase,
\* and the lease outlasts this phase and those to come.
OnTime(w) ==
  w \in LongLeased /\ pc[w] \in Working =>
    LET l == mine[w]
        p == pc[w]
    IN  /\ Holds(l)
        /\ since[w] <= now
        /\ now <= since[w] + PhaseLimit[p]
        /\ since[w] + PhaseLimit[p] + RestAfter[p] <= jobs[handles[l].id].lease_expires_at

\* Two workers never work for one lease, and no lease in use is granted again.
LeasesApart ==
  \A v \in Worker : mine[v] # Null =>
    /\ attempts[mine[v]] # Null
    /\ \A w \in Worker : mine[v] = mine[w] => v = w

RInv == IInv /\ RuntimeTypeOK /\ LeasesApart /\ \A w \in Worker : OnTime(w)

\* A held, unexpired lease survives every step that does not settle it.
LEMMA LeaseSurvives ==
  ASSUME IInv, [Next]_vars, NEW l \in Token, Holds(l),
         now <= jobs[handles[l].id].lease_expires_at,
         attempts'[l].status \notin {"succeeded", "failed"}
  PROVE  /\ Holds(l)' /\ handles'[l] = handles[l]
         /\ jobs'[handles[l].id].lease_expires_at = jobs[handles[l].id].lease_expires_at
<1> DEFINE j == handles[l].id
<1>1. j \in Job /\ jobs[j] # Null /\ jobs[j].lease_token = l /\ l # Null
  BY NullAssumption DEF Holds, IInv, TypeOK, CrawlJob, HandleOfAttempt
<1>2. /\ jobs'[j].lease_token = l /\ attempts'[l].status = "leased"
      /\ jobs'[j].lease_expires_at = jobs[j].lease_expires_at
  BY <1>1, LiveLeaseStep DEF LiveLeaseEndedByHolder
<1>3. handles'[l] = handles[l]
  <2>1. CASE LeaseAny
    <3>1. PICK m \in Token, seconds \in LeaseTime, locked \in SUBSET Job, ts \in Timestamp :
            Lease(m, seconds, locked, ts)
      BY <2>1 DEF LeaseAny
    <3>2. m # l
      BY <3>1 DEF Lease, Holds, IInv, HandleOfAttempt
    <3> QED
      BY <3>1, <3>2 DEF Lease, IInv, TypeOK
  <2>2. CASE ~LeaseAny
    BY <2>2 DEF Next, Tick, SeedAny, Seed, Complete, Fail, Settle, Reap, ReapAny, vars
  <2> QED
    BY <2>1, <2>2
<1> QED
  BY <1>1, <1>2, <1>3 DEF Holds

\* A worker that neither moves nor has its lease settled stays on time, as long
\* as the clock stands still or it is patient.
LEMMA OnTimeKept ==
  ASSUME RInv, [Next]_vars, NEW v \in Worker, OnTime(v),
         pc'[v] = pc[v], mine'[v] = mine[v], since'[v] = since[v],
         now' = now \/ (now' = now + 1 /\ Patient(v)),
         v \in LongLeased /\ pc[v] \in Working => attempts'[mine[v]].status \notin {"succeeded", "failed"}
  PROVE  OnTime(v)'
<1> SUFFICES ASSUME v \in LongLeased, pc[v] \in Working PROVE OnTime(v)'
  BY DEF OnTime, LongLeased
<1> DEFINE l == mine[v]
           j == handles[l].id
           p == pc[v]
<1>1. l \in Token /\ now \in Nat /\ since[v] \in Nat
  BY DEF RInv, IInv, TypeOK, RuntimeTypeOK
<1>2. PhaseLimit[p] \in Nat /\ RestAfter[p] \in Nat
  BY RuntimeAssumption DEF Working, PhaseLimit, RestAfter
<1>3. Holds(l) /\ jobs[j].lease_token # Null /\ j \in Job /\ jobs[j] \in JobRow
  BY <1>1, NullAssumption DEF OnTime, Holds, RInv, IInv, TypeOK, CrawlJob, HandleOfAttempt
<1>4. jobs[j].lease_expires_at \in Nat
  BY <1>3, NullAssumption DEF RInv, IInv, TypeOK, JobRow, HandleOfAttempt, Holds
<1>5. now <= jobs[j].lease_expires_at
  BY <1>1, <1>2, <1>4 DEF OnTime
<1>6. /\ Holds(l)' /\ handles'[l] = handles[l]
      /\ jobs'[j].lease_expires_at = jobs[j].lease_expires_at
  BY <1>1, <1>3, <1>5, LeaseSurvives DEF RInv
<1>7. now' <= since[v] + PhaseLimit[p] /\ since[v] <= now'
  BY <1>1, <1>2 DEF OnTime, Patient
<1> QED
  BY <1>6, <1>7 DEF OnTime

\* A held attempt becomes succeeded or failed only by complete() or fail() of it.
LEMMA OnlySettlementSettles ==
  ASSUME IInv, [Next]_vars, NEW l \in Token, Holds(l),
         \A ts \in Timestamp : ~Complete(l, ts) /\ ~Fail(l, ts)
  PROVE  attempts'[l].status \notin {"succeeded", "failed"}
<1>1. attempts[l] # Null /\ attempts[l].status = "leased"
  BY DEF Holds, IInv, HandleOfAttempt
<1>2. CASE Tick \/ SeedAny \/ UNCHANGED vars
  BY <1>1, <1>2 DEF Tick, SeedAny, Seed, vars
<1>3. CASE LeaseAny
  BY <1>1, <1>3, LeaseRows
<1>4. CASE \E m \in Token, ts \in Timestamp : Complete(m, ts) \/ Fail(m, ts)
  BY <1>1, <1>4, SettleRows
<1>5. CASE ReapAny
  BY <1>1, <1>5, ReapAnyReaps, ReapAttempts
<1> QED
  BY <1>2, <1>3, <1>4, <1>5 DEF Next

\* A fresh long lease runs for the whole budget from the commit of its transaction.
LEMMA FreshLease ==
  ASSUME IInv, NEW l \in Token, NEW seconds \in LeaseTime,
         seconds >= MaxLag + CrawlTimeout + ApiTimeout + DbPatience,
         NEW locked \in SUBSET Job, NEW ts \in Timestamp, Lease(l, seconds, locked, ts)
  PROVE  /\ Holds(l)' /\ attempts[l] = Null /\ now' = now
         /\ now + CrawlTimeout + ApiTimeout + DbPatience
              <= jobs'[handles'[l].id].lease_expires_at
<1>1. PICK k \in Candidates(locked, ts) :
        /\ jobs' = [jobs EXCEPT ![k] = Leased(jobs[k], l, ts + seconds)]
        /\ attempts' = [attempts EXCEPT ![l] = [job |-> k, status |-> "leased"]]
        /\ handles' = [handles EXCEPT ![l] = [id |-> k, attempt_count |-> jobs[k].attempt_count,
                                                 max_attempts |-> jobs[k].max_attempts]]
  BY DEF Lease
<1>2. /\ k \in Job /\ jobs[k] \in JobRow
      /\ ts \in Nat /\ now \in Nat /\ now - ts <= MaxLag /\ ts <= now
      /\ seconds \in Nat /\ seconds >= MaxLag + CrawlTimeout + ApiTimeout + DbPatience
  BY BoundsAssumption DEF Candidates, IInv, TypeOK, Timestamp
<1>3. /\ jobs'[k].lease_token = l /\ jobs'[k].lease_expires_at = ts + seconds
      /\ handles'[l] = [id |-> k, attempt_count |-> jobs[k].attempt_count,
                        max_attempts |-> jobs[k].max_attempts]
      /\ attempts'[l] = [job |-> k, status |-> "leased"]
  <2>1. jobs'[k] = Leased(jobs[k], l, ts + seconds)
    BY <1>1, <1>2 DEF IInv, TypeOK
  <2>2. ts + seconds \in Nat
    BY <1>2
  <2>3. jobs'[k].lease_token = l /\ jobs'[k].lease_expires_at = ts + seconds
    BY <1>2, <2>1, <2>2, LeasedRow
  <2> QED
    BY <1>1, <2>3 DEF IInv, TypeOK
<1>4. handles'[l] # Null
  BY <1>2, <1>3, NullAssumption DEF CrawlJob, JobRow
<1>5. Holds(l)'
  BY <1>3, <1>4 DEF Holds
<1>6. now + CrawlTimeout + ApiTimeout + DbPatience <= ts + seconds
  BY <1>2, BoundsAssumption, RuntimeAssumption
<1> QED
  BY <1>3, <1>5, <1>6 DEF Lease

\* An attempt, once recorded, is never removed.
LEMMA AttemptStays ==
  ASSUME IInv, [Next]_vars, NEW l \in Token, attempts[l] # Null PROVE attempts'[l] # Null
<1>1. attempts[l] \in AttemptRow
  BY DEF IInv, TypeOK
<1>2. CASE Tick \/ SeedAny \/ UNCHANGED vars
  BY <1>2 DEF Tick, SeedAny, Seed, vars
<1>3. CASE LeaseAny
  BY <1>3, LeaseRows
<1>4. ASSUME NEW m \in Token, NEW outcome \in Status, attempts' = [attempts EXCEPT ![m].status = outcome]
      PROVE  attempts'[l] # Null
  <2>1. attempts'[l] \in AttemptRow
    BY <1>1, <1>4 DEF IInv, TypeOK, AttemptRow
  <2> QED
    BY <2>1, NullAssumption
<1>5. CASE \E m \in Token, ts \in Timestamp : Complete(m, ts) \/ Fail(m, ts)
  BY <1>4, <1>5 DEF Complete, Fail, Settle, Status
<1>6. CASE ReapAny
  BY <1>6, ReapAnyReaps, ReapAttempts
<1> QED
  BY <1>2, <1>3, <1>5, <1>6 DEF Next

\* Every worker stays on time through a step of one of them.
LEMMA WorkerStepOnTime ==
  ASSUME RInv, NEW w \in Worker, WorkerStep(w)
  PROVE  LeasesApart' /\ \A v \in Worker : OnTime(v)'
<1>1. [Next]_vars
  BY RuntimeStepIsQueueStep DEF RInv, RuntimeNext
<1>2. now' = now
  BY DEF WorkerStep, Start, Stop, Wake, WorkerReap, Reap, ReapAny, WorkerLease, Lease, NothingDue,
         Crawled, GaveUp, Receipt, WorkerSettle, Complete, Fail, Settle, LostLease
<1>3. \A v \in Worker : v # w => pc'[v] = pc[v] /\ mine'[v] = mine[v] /\ since'[v] = since[v]
  BY DEF WorkerStep, Start, Stop, Wake, WorkerReap, WorkerLease, NothingDue, Crawled,
         GaveUp, Receipt, WorkerSettle, LostLease, Goto, Finish, RInv, RuntimeTypeOK
<1>4. \A v \in LongLeased : pc[v] \in Working => Holds(mine[v]) /\ mine[v] \in Token
  BY DEF RInv, OnTime, RuntimeTypeOK, LongLeased
<1>5. ASSUME NEW v \in Worker, v # w PROVE OnTime(v)'
  <2>1. ASSUME v \in LongLeased, pc[v] \in Working
        PROVE  attempts'[mine[v]].status \notin {"succeeded", "failed"}
    <3>1. Holds(mine[v]) /\ mine[v] \in Token
      BY <1>4, <2>1
    <3>2. CASE WorkerSettle(w)
      <4>1. PICK ts \in Timestamp : Complete(mine[w], ts) \/ Fail(mine[w], ts)
        BY <3>2 DEF WorkerSettle
      <4>2. mine[w] \in Token /\ mine[w] # mine[v]
        BY <1>5, <2>1, <3>2, <3>1, NullAssumption
           DEF WorkerSettle, Working, RInv, RuntimeTypeOK, LeasesApart
      <4>3. attempts'[mine[v]] = attempts[mine[v]]
        BY <3>1, <4>1, <4>2, SettleRows DEF RInv
      <4> QED
        BY <3>1, <4>3 DEF Holds
    <3>3. CASE WorkerLease(w)
      BY <3>1, <3>3, LeaseRows, RuntimeAssumption DEF WorkerLease, LeaseAny, Holds, RInv, IInv, HandleOfAttempt
    <3>4. CASE WorkerReap(w)
      BY <3>1, <3>4, ReapAnyReaps, ReapAttempts DEF WorkerReap, Holds, RInv
    <3>5. CASE ~(WorkerSettle(w) \/ WorkerLease(w) \/ WorkerReap(w))
      <4>1. attempts' = attempts
        BY <3>5 DEF WorkerStep, Start, Stop, Wake, NothingDue, Crawled, GaveUp, Receipt, LostLease
      <4> QED
        BY <3>1, <4>1 DEF Holds
    <3> QED
      BY <3>2, <3>3, <3>4, <3>5
  <2> QED
    BY <1>1, <1>2, <1>3, <1>5, <2>1, OnTimeKept DEF RInv
<1>6. \A v \in Worker : mine[v] # Null => attempts'[mine[v]] # Null
  BY <1>1, AttemptStays DEF RInv, LeasesApart, RuntimeTypeOK
<1>7. OnTime(w)' /\ LeasesApart'
  <2>1. CASE Start(w) \/ Stop(w) \/ Wake(w) \/ WorkerReap(w) \/ NothingDue(w)
             \/ WorkerSettle(w) \/ LostLease(w)
    <3>1. pc'[w] \notin Working /\ (mine'[w] = mine[w] \/ mine'[w] = Null)
      BY <2>1 DEF Start, Stop, Wake, WorkerReap, NothingDue, WorkerSettle, LostLease,
                  Goto, Finish, Working, RInv, RuntimeTypeOK
    <3> QED
      BY <1>3, <1>6, <3>1 DEF OnTime, LeasesApart, RInv
  <2>2. CASE WorkerLease(w)
    <3>1. PICK l \in Token, locked \in SUBSET Job, ts \in Timestamp :
            Lease(l, LeaseSeconds[w], locked, ts) /\ mine' = [mine EXCEPT ![w] = l]
      BY <2>2 DEF WorkerLease
    <3>2. /\ mine'[w] = l /\ pc'[w] = "crawl" /\ since'[w] = now
      BY <2>2, <3>1 DEF WorkerLease, Goto, Working, RInv, RuntimeTypeOK
    <3>3. attempts[l] = Null /\ attempts'[l] # Null
      <4>1. PICK j \in Job : attempts' = [attempts EXCEPT ![l] = [job |-> j, status |-> "leased"]]
        BY <3>1 DEF Lease, Candidates
      <4>2. [job |-> j, status |-> "leased"] # Null
        BY NullAssumption DEF AttemptRow, Status
      <4> QED
        BY <3>1, <4>1, <4>2 DEF Lease, RInv, IInv, TypeOK
    <3>4. \A v \in Worker : mine[v] # l
      BY <3>3, NullAssumption DEF LeasesApart, RInv
    <3>5. LeasesApart'
      BY <1>3, <1>6, <3>2, <3>3, <3>4 DEF LeasesApart, RInv
    <3>6. CASE w \in LongLeased
      <4>1. /\ Holds(l)'
            /\ now + CrawlTimeout + ApiTimeout + DbPatience
                 <= jobs'[handles'[l].id].lease_expires_at
        BY <3>1, <3>6, RuntimeAssumption, FreshLease DEF RInv, LongLeased
      <4>2. now \in Nat
        BY DEF RInv, IInv, TypeOK
      <4>3. OnTime(w)'
        BY <1>2, <3>2, <4>1, <4>2, RuntimeAssumption DEF OnTime, PhaseLimit, RestAfter
      <4> QED
        BY <3>5, <4>3
    <3> QED
      BY <3>5, <3>6 DEF OnTime, LongLeased
  <2>3. CASE Crawled(w) \/ GaveUp(w) \/ Receipt(w)
    <3>1. /\ jobs' = jobs /\ attempts' = attempts /\ handles' = handles /\ mine' = mine
          /\ since'[w] = now
          /\ \/ pc[w] = "crawl" /\ pc'[w] \in {"ingest", "fail"}
             \/ pc[w] = "ingest" /\ pc'[w] \in {"complete", "fail"}
      BY <2>3 DEF Crawled, GaveUp, Receipt, Goto, Working, RInv, RuntimeTypeOK
    <3>2. LeasesApart'
      BY <3>1 DEF LeasesApart, RInv
    <3> SUFFICES ASSUME w \in LongLeased PROVE OnTime(w)'
      BY <3>2 DEF OnTime, LongLeased
    <3>3. OnTime(w) /\ pc[w] \in Working /\ now \in Nat /\ since[w] \in Nat
      BY <3>1 DEF RInv, IInv, TypeOK, RuntimeTypeOK, Working
    <3>4. Holds(mine[w]) /\ Holds(mine[w])'
      BY <3>1, <3>3 DEF OnTime, Holds
    <3> DEFINE e == jobs[handles[mine[w]].id].lease_expires_at
    <3>5. e \in Nat
      BY <1>4, <3>3, <3>4, NullAssumption
         DEF RInv, IInv, TypeOK, JobRow, CrawlJob, HandleOfAttempt, Holds
    <3>6. now + PhaseLimit[pc'[w]] + RestAfter[pc'[w]] <= e
      <4>1. CASE pc[w] = "crawl"
        BY <3>1, <3>3, <3>5, <4>1, RuntimeAssumption DEF OnTime, PhaseLimit, RestAfter, Working
      <4>2. CASE pc[w] = "ingest"
        BY <3>1, <3>3, <3>5, <4>2, RuntimeAssumption DEF OnTime, PhaseLimit, RestAfter, Working
      <4> QED
        BY <3>1, <4>1, <4>2
    <3>7. now <= now + PhaseLimit[pc'[w]]
      BY <3>1, <3>3, RuntimeAssumption DEF PhaseLimit
    <3>8. OnTime(w)'
      BY <1>2, <3>1, <3>3, <3>4, <3>6, <3>7 DEF OnTime
    <3> QED
      BY <3>8
  <2> QED
    BY <2>1, <2>2, <2>3 DEF WorkerStep
<1> QED
  BY <1>5, <1>7

\* A worker whose lease_seconds outlasts the lag, both timeouts and the wait for
\* the database holds its job from its lease to its settlement, also among workers
\* with shorter leases (main.rs, process_next).
THEOREM LongLeasesAreNeverLost == RuntimeSpec => []WorkerHoldsLease
<1>1. RuntimeInit => LeasesApart /\ \A w \in Worker : OnTime(w)
  BY DEF RuntimeInit, LeasesApart, OnTime, Working
<1>2. ASSUME RInv, (IInv /\ RuntimeTypeOK)', [RuntimeNext]_runtimeVars
      PROVE  (LeasesApart /\ \A w \in Worker : OnTime(w))'
  <2>1. [Next]_vars
    BY <1>2, RuntimeStepIsQueueStep DEF RInv
  <2>2. CASE \E w \in Worker : WorkerStep(w)
    BY <1>2, <2>2, WorkerStepOnTime
  <2>3. CASE RuntimeTick \/ Admin \/ (\E l \in Token : Accept(l)) \/ UNCHANGED runtimeVars
    <3>1. pc' = pc /\ mine' = mine /\ since' = since
      BY <2>3 DEF RuntimeTick, Admin, Accept, runtimeVars
    <3>2. \A v \in Worker : now' = now \/ (now' = now + 1 /\ Patient(v))
      BY <2>3 DEF RuntimeTick, Tick, Admin, SeedAny, Seed, Reap, ReapAny, Accept, runtimeVars
    <3>3. \A v \in LongLeased : pc[v] \in Working =>
            attempts'[mine[v]].status \notin {"succeeded", "failed"}
      <4> SUFFICES ASSUME NEW v \in LongLeased, pc[v] \in Working
                   PROVE  attempts'[mine[v]].status \notin {"succeeded", "failed"}
        OBVIOUS
      <4>1. Holds(mine[v]) /\ mine[v] \in Token
        BY <1>2 DEF RInv, OnTime, RuntimeTypeOK, LongLeased
      <4>2. CASE attempts' = attempts
        BY <4>1, <4>2 DEF Holds
      <4>3. CASE ReapAny
        BY <1>2, <4>1, <4>3, ReapAnyReaps, ReapAttempts DEF Holds, RInv
      <4> QED
        BY <2>3, <4>2, <4>3 DEF RuntimeTick, Tick, Admin, SeedAny, Seed, Accept, runtimeVars
    <3>4. \A v \in Worker : OnTime(v)'
      BY <1>2, <2>1, <3>1, <3>2, <3>3, OnTimeKept DEF RInv
    <3>5. \A v \in Worker : mine[v] # Null => attempts'[mine[v]] # Null
      BY <1>2, <2>1, AttemptStays DEF RInv, LeasesApart, RuntimeTypeOK
    <3> QED
      BY <1>2, <3>1, <3>4, <3>5 DEF LeasesApart, RInv
  <2> QED
    BY <1>2, <2>2, <2>3 DEF RuntimeNext
<1>3. RInv => WorkerHoldsLease
  BY DEF RInv, OnTime, WorkerHoldsLease, LongLeased
<1> QED
  BY <1>1, <1>2, <1>3, RuntimeInvariance, PTL DEF RuntimeSpec, RInv
=============================================================================
