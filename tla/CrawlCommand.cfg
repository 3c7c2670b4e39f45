SPECIFICATION Spec
CHECK_DEADLOCK FALSE
CONSTANTS
    MaxRequest = 3
    PipeSize = 2
    StdoutLimit = 2
    StderrLimit = 1
    MaxOutput = 4
INVARIANTS LimitsAreExact OnlyStallsTimeOut
PROPERTIES CommandEnds
