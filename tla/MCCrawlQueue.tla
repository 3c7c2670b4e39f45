----------------------------- MODULE MCCrawlQueue -----------------------------
(* The instance of CrawlQueue that TLC checks.  One tick stands for half a    *)
(* minute: the first backoff is 30 seconds, a reaped job waits 60.            *)
EXTENDS CrawlQueue, TLC

MCBackoff == [n \in 1 .. AttemptCeiling |-> 2 ^ (n - 1)]
Symmetry == Permutations(Job) \cup Permutations(Token)

\* A job alone may use up the tokens; two jobs share all but one of them.
TwoJobsShareTwo == (\A j \in Job : jobs[j] # Null) => \E l \in Token : attempts[l] = Null
=============================================================================
