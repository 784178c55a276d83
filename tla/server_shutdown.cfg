SPECIFICATION StopSpec
CONSTANTS
    Handlers = {h1, h2}
    NoHandler = NoHandler
    teku = teku
    prysm = prysm
    unknown = unknown
    Clients = {teku, prysm}
    OtherClient = unknown
    NumTranches = 1
    GenesisAccounts = 1
    Requests <- StopRequests
    MaxCalls = 2
    Faults = {"start", "stop", "exit", "race"}
INVARIANTS
    OnlyLateNodesSurvive
PROPERTIES
    DeploymentSpec
    ShutdownCompletes
