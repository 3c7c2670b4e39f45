SPECIFICATION Spec
CHECK_DEADLOCK FALSE
CONSTANTS
    Fetch = {f1, f2}
    Request <- DottedRequest
    Target <- DottedTarget
    Limit = 1
    MaxRedirects = 1
    Null = Null
INVARIANTS NamedHostSpared
