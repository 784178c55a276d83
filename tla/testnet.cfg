SPECIFICATION Spec
CONSTANTS
    AccountLists <- SomeAccounts
    MinerKey = "miner"
    MaxDeploys = 6
    MaxEvents = 1
INVARIANTS
    TypeOK
    InputsAreThere
    KeysAreOwn
    EndpointsReachTarget
    RunningNodeHasItsAddress
    DownIsKnown
PROPERTIES
    ExitIsNoticed
    DeploymentSpec
