SPECIFICATION Spec
CONSTANTS
  Job = {j1, j2}
  Token = {t1, t2, t3}
  Null = Null
  Interval = {3}
  AttemptCeiling = 2
  LeaseTime = {1}
  Backoff <- MCBackoff
  ReapDelay = 2
  MaxLag = 1
  MaxClock = 5
SYMMETRY Symmetry
CONSTRAINT TwoJobsShareTwo
INVARIANTS TypeOK LeaseBacked HandleFresh RetryBounded
PROPERTIES LiveLeaseKept OrphanOnlyByLease BackoffHonoured ImplementsLedger
