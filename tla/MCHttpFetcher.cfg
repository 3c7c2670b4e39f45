SPECIFICATION Spec
CHECK_DEADLOCK FALSE
CONSTANTS
    Fetch = {f1, f2}
    Request <- MCRequest
    Target <- MCTarget
    Limit = 1
    MaxRedirects = 2
    Null = Null
INVARIANTS FetcherTypeOK HostSpared WireInScope
PROPERTIES FetchReturns
