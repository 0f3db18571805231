\* Two clients, two growing calls each, all methods.
SPECIFICATION Spec
CONSTANTS
    AdviceIds = {"logging"}
    Names = {"main", "other", ""}
    EmptyName = ""
    Clients = {"c", "d"}
    Operations <- AllOperations
    MaxGrowth = 2
INVARIANTS
    TypeOK
    NoDataRace
    NoSharedChain
    NobodyStranded
PROPERTIES
    NoChainReused
    ImplementsAtomic
    EveryCallReturns
