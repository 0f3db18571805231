\* One call of every wrapper; handlers store results, errors, panic values and
\* Skipped in the context.
SPECIFICATION Spec
CONSTANTS
    AdviceIds = {"b", "o", "r", "t", "f"}
    Names = {"main", ""}
    EmptyName = ""
    Calls = {"p"}
    WrapperNames = {"Wrap0", "Wrap0R", "Wrap0RE", "Wrap1", "Wrap1R", "Wrap1RE", "Wrap1E", "Wrap2", "Wrap2R", "Wrap2RE", "Wrap2E", "Wrap3RE"}
    InitialRegistries <- EffectRegistries
    Advices = {}
    MaxChains = 1
    TargetKinds = {"return", "panic"}
    TargetValues = {"v", "zero"}
    TargetErrors = {"targetError"}
    HandlerOutcomes = {"ok", "panic"}
    HandlerValues = {"cached", "foreign"}
    ForeignValues = {"foreign"}
    HandlerErrors = {"handlerError", "nil"}
    HandlerPanics = {"stored"}
    HandlerSkips = {TRUE, FALSE}
INVARIANTS
    AnswerKept
    SkipResultUsed
    Transparency
    LastFailureWins
PROPERTIES
    ImplementsWrappedCall
