SPECIFICATION Spec
CONSTANTS
    Handlers = {h1, h2}
    NoHandler = NoHandler
    teku = teku
    prysm = prysm
    unknown = unknown
    Clients = {teku, prysm}
    OtherClient = unknown
    NumTranches = 1
    GenesisAccounts = 1
    Requests <- AllRequests
    MaxCalls = 2
    Faults = {}
INVARIANT
    QueriesAreHarmless
