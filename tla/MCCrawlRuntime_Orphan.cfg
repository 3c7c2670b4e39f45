SPECIFICATION RuntimeSpec
CONSTANTS
  Job = {j1}
  Token = {t1, t2}
  Null = Null
  Interval = {2}
  AttemptCeiling = 2
  LeaseTime = {3}
  Backoff <- MCBackoff
  ReapDelay = 2
  MaxLag = 0
  MaxClock = 8
  Worker = {w1, w2}
  Once = {w2}
  Careful = {}
  LeaseSeconds <- MCLeaseSeconds
  CrawlTimeout = 1
  ApiTimeout = 1
  DbPatience = 1
SYMMETRY Symmetry
INVARIANTS OpenAttemptsAreHeld
