SPECIFICATION Spec
CONSTANTS
    Configs <- SomeConfigs
    MaxStarts = 2
INVARIANTS
    EnodeIsKnown
