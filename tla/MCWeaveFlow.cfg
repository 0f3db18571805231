\* One call, all four outcomes of every handler and target, inert handlers; other
\* goroutines attach advice, unregister, clear, register and replace the registry.
SPECIFICATION Spec
CONSTANTS
    AdviceIds = {"b", "o", "r", "t", "f", "b1", "b2", "o1", "o2", "r1", "r2", "t1", "t2", "f1", "f2", "f3", "o3", "u"}
    Names = {"main", ""}
    EmptyName = ""
    Calls = {"p"}
    WrapperNames = {"Wrap2E"}
    InitialRegistries <- FlowRegistries
    Advices <- LateAdvice
    MaxChains = 2
    TargetKinds = {"return", "panic", "goexit"}
    TargetValues = {"v"}
    TargetErrors = {"targetError"}
    HandlerOutcomes = {"ok", "error", "panic", "goexit"}
    HandlerValues = {}
    ForeignValues = {}
    HandlerErrors = {}
    HandlerPanics = {}
    HandlerSkips = {TRUE}
INVARIANTS
    TypeOK
    ExecutionOrder
    TargetGuarded
    ThrowingMatchesPanic
    TargetLeftOut
    ReturningOnlyOnSuccess
    CleanupAttempted
    LastFailureWins
