----------------------------- MODULE LeaseLedger -----------------------------
(***************************************************************************)
(* What the crawl queue promises its workers, without tables, timestamps   *)
(* or schedules: a ledger of who holds which job and of what became of     *)
(* every lease.  A job has at most one holder; a lease ends by its         *)
(* holder's own settlement or, once it has lapsed, by being abandoned or   *)
(* taken over; every receipt is closed at most once; a job's streak counts *)
(* the leases of it that were closed without a success since the last one  *)
(* with.  CrawlQueue implements it.                                        *)
(***************************************************************************)
EXTENDS Naturals

CONSTANTS Job, Token, Free

VARIABLES
  holder,  \* the lease that holds a job, or Free
  lapsed,  \* the jobs whose lease may be ended by others
  receipt, \* what became of a lease
  streak   \* failures in a row

ledgerVars == <<holder, lapsed, receipt, streak>>

Outcome == {"succeeded", "failed"}

Init ==
  /\ holder = [j \in Job |-> Free]
  /\ lapsed = {}
  /\ receipt = [l \in Token |-> "unused"]
  /\ streak = [j \in Job |-> 0]

\* Time passes, and some leases run out.
Lapse(ended) ==
  /\ \A j \in ended : holder[j] # Free
  /\ lapsed' = lapsed \cup ended
  /\ UNCHANGED <<holder, receipt, streak>>

\* A free or lapsed job is granted.  A slow grant may have lapsed already; the
\* receipt of a lease that is taken over stays open for ever.
Grant(j, l, late) ==
  /\ holder[j] = Free \/ j \in lapsed
  /\ receipt[l] = "unused"
  /\ holder' = [holder EXCEPT ![j] = l]
  /\ receipt' = [receipt EXCEPT ![l] = "leased"]
  /\ lapsed' = IF late THEN lapsed \cup {j} ELSE lapsed \ {j}
  /\ UNCHANGED streak

\* The holder settles.
Settle(j, outcome) ==
  /\ holder[j] # Free
  /\ receipt[holder[j]] = "leased"
  /\ receipt' = [receipt EXCEPT ![holder[j]] = outcome]
  /\ holder' = [holder EXCEPT ![j] = Free]
  /\ lapsed' = lapsed \ {j}
  /\ streak' = [streak EXCEPT ![j] = IF outcome = "succeeded" THEN 0 ELSE streak[j] + 1]

\* Some lapsed leases are abandoned together.
Abandon(ended) ==
  /\ ended \subseteq lapsed
  /\ \A j \in ended : receipt[holder[j]] = "leased"
  /\ receipt' = [l \in Token |-> IF \E j \in ended : holder[j] = l THEN "abandoned" ELSE receipt[l]]
  /\ holder' = [j \in Job |-> IF j \in ended THEN Free ELSE holder[j]]
  /\ lapsed' = lapsed \ ended
  /\ streak' = [j \in Job |-> IF j \in ended THEN streak[j] + 1 ELSE streak[j]]

Next ==
  \/ \E ended \in SUBSET Job : Lapse(ended) \/ Abandon(ended)
  \/ \E j \in Job, l \in Token, late \in BOOLEAN : Grant(j, l, late)
  \/ \E j \in Job, outcome \in Outcome : Settle(j, outcome)

Spec == Init /\ [][Next]_ledgerVars
=============================================================================
