\* advice.go:13 says that AfterThrowing advice runs only if the function panics.
SPECIFICATION Spec
CONSTANTS
    AdviceIds = {"b", "o", "r", "t", "f", "b1", "b2", "o1", "o2", "r1", "r2", "t1", "t2", "f1", "f2", "f3"}
    Names = {"main", ""}
    EmptyName = ""
    Calls = {"p"}
    WrapperNames = {"Wrap0", "Wrap0RE", "Wrap1R", "Wrap2E", "Wrap3RE"}
    InitialRegistries <- FlowRegistries
    Advices = {}
    MaxChains = 1
    TargetKinds = {"return", "panic", "goexit"}
    TargetValues = {"v"}
    TargetErrors = {"targetError"}
    HandlerOutcomes = {"ok", "error", "panic", "goexit"}
    HandlerValues = {}
    ForeignValues = {}
    HandlerErrors = {}
    HandlerPanics = {}
    HandlerSkips = {TRUE}
INVARIANTS
    ThrowingOnlyIfFunctionPanics
