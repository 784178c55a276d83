SPECIFICATION CommandsSpec
CONSTANTS
    Handlers = {h1, h2}
    NoHandler = NoHandler
    Clients = {"Teku"}
    OtherClient = "OtherClient"
    NumTranches = 1
    GenesisAccounts = 1
    Requests <- SomeRequests
    MaxCalls = 2
    Faults = {"create"}
    Terminals = {t1, t2}
    CommandLines <- SomeLines
INVARIANTS
    ListsAreComplete
PROPERTIES
    EveryCommandEnds
    EveryCallReturns
    AgentUnderCommands
