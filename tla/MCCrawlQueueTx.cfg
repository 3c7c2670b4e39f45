SPECIFICATION TxSpec
CONSTANTS
  Session = {s1, s2, s3}
  Job = {j1, j2}
  Token = {t1, t2}
  Null = Null
  Interval = {1}
  AttemptCeiling = 1
  LeaseTime = {1}
  Backoff <- MCBackoff
  ReapDelay = 1
  MaxLag = 2
  MaxClock = 4
SYMMETRY Symmetry
CONSTRAINT Corners
INVARIANTS DeadlockHasReaper LiveSettlementNotDeadlocked
PROPERTIES RefinesQueue
