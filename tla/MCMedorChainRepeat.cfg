SPECIFICATION Spec
CONSTANTS
    owner = owner
    miner = miner
    treasury = treasury
    Address = {owner, miner, treasury}
    Miner = {miner}
    Owner = owner
    Treasury = treasury
    NoSignature = NoSignature
    NoHash = NoHash
    None = None
    SupplyKey = SupplyKey
    FeeKey = FeeKey
    Schedule <- OneReward
    MaxSupply = 1000
    InitialBaseFee = 3
    TargetGas = 10
    Maturity = 1
    MaxAmount = 100000
    MaxTransactions = 10000
    Garbled = {}
    MaxTime = 1
    MaxWrites = 4
INVARIANT EmptyBlocksAdd
CHECK_DEADLOCK FALSE
