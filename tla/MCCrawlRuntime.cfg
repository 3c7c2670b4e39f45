SPECIFICATION RuntimeSpec
CONSTANTS
  Job = {j1}
  Token = {t1, t2}
  Null = Null
  Interval = {2}
  AttemptCeiling = 2
  LeaseTime = {1, 4}
  Backoff <- MCBackoff
  ReapDelay = 2
  MaxLag = 1
  MaxClock = 6
  Worker = {w1, w2}
  Once = {w2}
  Careful = {w1}
  LeaseSeconds <- MCLeaseSeconds
  CrawlTimeout = 1
  ApiTimeout = 1
  DbPatience = 1
SYMMETRY Symmetry
INVARIANTS WorkerHoldsLease SuccessAccepted
