SPECIFICATION Spec
CONSTANTS
    alice = alice
    bob = bob
    carol = carol
    genesis = genesis
    otherNetwork = otherNetwork
    Accounts <- MCAccounts
    Miners <- MCMiners
    GenesisAllocation <- MCAllocation
    GenesisHash = genesis
    GenesisSupply = 8
    TotalSupply = 15
    HalvingInterval = 2
    InitialTarget = 2
    MaxTarget = 6
    TargetBlockTime = 2
    RetargetWindow = 2
    RetargetFactor = 4
    HashSpace = 20
    MaxFutureSeconds = 9
    MaxTransactionsPerBlock = 2
    MinTransactionFee = 1
    MaxHeight = 6
    TimestampSteps <- MCTimestampSteps
    Clocks <- MCClocks
    TransactionLists <- MCTransactionLists
    MaxBlocks = 4
INVARIANTS StateOK ChainLinked Conservation AccountsMatchBlocks IssuanceOnSchedule
PROPERTIES RetargetBounded WorkGrows
CHECK_DEADLOCK FALSE
