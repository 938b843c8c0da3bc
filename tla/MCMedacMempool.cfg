SPECIFICATION Spec
CONSTANTS
    alice = alice
    bob = bob
    genesis = genesis
    None = None
    Accounts <- MCAccounts
    GenesisAllocation <- MCAllocation
    GenesisHash = genesis
    GenesisSupply = 8
    TotalSupply = 15
    HalvingInterval = 2
    InitialTarget = 2
    MaxTarget = 6
    TargetBlockTime = 2
    RetargetWindow = 2
    RetargetFactor = 4
    HashSpace = 20
    MaxFutureSeconds = 9
    MaxTransactionsPerBlock = 3
    MinTransactionFee = 1
    MaxHeight = 6
    Transaction <- MCTransaction
    PeerLists <- MCPeerLists
    PeerChains <- MCPeerChains
    FramesPerTick = 3
    MaxBlocks = 3
INVARIANTS MempoolFresh MempoolExecutable
PROPERTY SearchNotWasted
CHECK_DEADLOCK FALSE
