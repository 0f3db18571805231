\* Every request of the three programs, up to two retries.
SPECIFICATION ExampleSpec
CONSTANTS
    AdviceIds <- Handlers
    Names <- AllNames
    EmptyName = ""
    Calls = {1, 2, 3}
    WrapperNames <- Wrapped
    InitialRegistries <- Programs
    Advices <- ConfirmOnly
    MaxChains = 4
    TargetKinds = {"return"}
    TargetValues = {"v"}
    TargetErrors = {"failed", "timeout", "unavailable"}
    HandlerOutcomes = {"ok", "error", "panic"}
    HandlerValues = {}
    ForeignValues = {}
    HandlerErrors = {}
    HandlerPanics = {}
    HandlerSkips = {}
    RetryLimits = {0, 2}
    RetryErrors = {"failed", "timeout", "unavailable"}
    NoError = "nil"
INVARIANTS
    UnauthorizedKeptOut
    NoHandlerTrips
    AuditComplete
    OrdersConfirmed
    RetriesAccounted
PROPERTIES
    RequestAnswered
\* The program ends.
CHECK_DEADLOCK FALSE
