---------------------------- MODULE MCCrawlRuntime ----------------------------
(* The instances of CrawlRuntime that TLC checks, in ticks of half a minute.  *)
EXTENDS CrawlRuntime, TLC

CONSTANT Careful  \* the workers configured with the longest lease

MCBackoff == [n \in 1 .. AttemptCeiling |-> 2 ^ (n - 1)]
Longest == CHOOSE t \in LeaseTime : \A u \in LeaseTime : u <= t
Shortest == CHOOSE t \in LeaseTime : \A u \in LeaseTime : t <= u
MCLeaseSeconds == [w \in Worker |-> IF w \in Careful THEN Longest ELSE Shortest]
Symmetry == Permutations(Token)
=============================================================================
