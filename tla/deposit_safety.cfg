SPECIFICATION FairSpec
CONSTANTS
    a1 = a1
    a2 = a2
    a3 = a3
    Accounts = {a1, a2, a3}
    Calls = 2
    CallOf <- TwoThenOne
    MaxPolls = 1
    MaxFailures = 1
INVARIANTS
    TypeOK
    NoncesUnique
    FundedBeforeDeposit
    NilMeansAllDeposited
    ReportNeverBlocks
PROPERTIES
    PromiseSpec
    DepositsEnd
