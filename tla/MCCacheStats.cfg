\* Two callers, one user: both count a miss at the same time.
SPECIFICATION Spec
CONSTANTS
    Callers = {a, b}
    Profiles = {u1}
    Recommendations = {}
    MaxCalls = 3
CHECK_DEADLOCK FALSE
INVARIANTS
    StatsAddUp
