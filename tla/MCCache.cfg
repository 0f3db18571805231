\* Two callers of both functions, with entries that expire.
SPECIFICATION Spec
CONSTANTS
    Callers = {a, b}
    Profiles = {u1}
    Recommendations = {r1}
    MaxCalls = 4
CHECK_DEADLOCK FALSE
INVARIANTS
    FetchedOnce
