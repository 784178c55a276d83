SPECIFICATION GenesisSpec
CONSTANTS
    Configs <- SomeConfigs
    MaxStarts = 2
    FirstStart = 1
    Flags <- SomeFlags
    TwoTo64 = 100
    MaxClock = 2
INVARIANTS
    TypeOK
    NodesWereReady
    GenesisHoldsTheTranches
    BecomesServer
    GenesisMatchesSpec
PROPERTIES
    FilesAreKept
    BootstrapEnds
