SPECIFICATION FairTxSpec
CONSTANTS
  Session = {s1, s2}
  Job = {j1}
  Token = {t1}
  Null = Null
  Interval = {1}
  AttemptCeiling = 1
  LeaseTime = {1}
  Backoff <- MCBackoff
  ReapDelay = 1
  MaxLag = 1
  MaxClock = 2
PROPERTIES TransactionsEnd
