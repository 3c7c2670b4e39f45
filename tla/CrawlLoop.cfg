SPECIFICATION LoopSpec
CONSTANTS
  Job = {j1, j2}
  Worker = {w1, w2}
  Null = Null
  Dead = Dead
  MaxAttempts = 2
  LongLeased = {w1}
  MaxCrashes = 2
  MaxSeeds = 1
PROPERTIES DeadLeaseEnds DueJobLeased RetriesEnd
