\* 03_authentication, line 110: the status that the audit handler records.
SPECIFICATION ExampleSpec
CONSTANTS
    AdviceIds <- Handlers
    Names <- AllNames
    EmptyName = ""
    Calls = {1, 2, 3}
    WrapperNames <- Wrapped
    InitialRegistries <- Programs
    Advices <- ConfirmOnly
    MaxChains = 4
    TargetKinds = {"return"}
    TargetValues = {"v"}
    TargetErrors = {"failed", "timeout", "unavailable"}
    HandlerOutcomes = {"ok", "error", "panic"}
    HandlerValues = {}
    ForeignValues = {}
    HandlerErrors = {}
    HandlerPanics = {}
    HandlerSkips = {}
    RetryLimits = {0, 2}
    RetryErrors = {"failed", "timeout", "unavailable"}
    NoError = "nil"
INVARIANTS
    AuditTruthful
\* The program ends.
CHECK_DEADLOCK FALSE
