\* Three concurrent callers, a limit of two failures, a quota of two successes.
SPECIFICATION Spec
CONSTANTS
    Callers = {a, b, c}
    MaxFailures = 2
    SuccessesNeeded = 2
INVARIANTS
    TypeOK
    WithinLimits
PROPERTIES
    OpensAfterStreak
    StatesInOrder
    FailedProbeReopens
    ProbedAgain
