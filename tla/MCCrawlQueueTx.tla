---------------------------- MODULE MCCrawlQueueTx ----------------------------
(* The instances of CrawlQueueTx that TLC checks.                            *)
EXTENDS CrawlQueueTx, FiniteSets, TLC

MCBackoff == [n \in 1 .. AttemptCeiling |-> n]
Symmetry == Permutations(Session) \cup Permutations(Job) \cup Permutations(Token)

\* Of all instances with three sessions and two jobs, the corners that tell
\* something apart: three sessions about one job; two sessions about two, each
\* seeded once; and two that seed, lease and reap one job for so long that a
\* lease() commits after its own lease has run out.
OneJob == \E j \in Job : jobs[j] = Null /\ \A s \in Session : Running(s) => tx[s].job # j

TwoSessions == Cardinality({s \in Session : Running(s)}) <= 2

SeededOnce ==
  /\ \A j \in Job : jobs[j] # Null => jobs[j].enabled
  /\ \A s \in Session : Running(s) /\ tx[s].op = "seed" =>
       now = 0 /\ jobs[tx[s].job] = Null

SettlesNothing ==
  \A s \in Session : Running(s) => tx[s].op \in {"seed", "lease", "reap"}

Prompt == \A s \in Session : Running(s) => now - tx[s].ts <= 1

Corners ==
  \/ now <= 2 /\ OneJob
  \/ now <= 2 /\ TwoSessions /\ SeededOnce /\ Prompt
  \/ OneJob /\ TwoSessions /\ SeededOnce /\ SettlesNothing
=============================================================================
