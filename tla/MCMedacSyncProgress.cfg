SPECIFICATION FairSpec
CONSTANTS
    n1 = n1
    n2 = n2
    n3 = n3
    a1 = a1
    a2 = a2
    a3 = a3
    b1 = b1
    gen = gen
    None = None
    Node = {n1, n2}
    Links <- PairLinks
    Block <- PairBlock
    Genesis = gen
    Parent <- PairParent
    CumulativeWork <- PairWork
    MinedBy <- PairMinedBy
    MaxBlocksPerResponse = 1
    LocatorDense = 0
    LocatorMax = 3
    MaxDrops = 1
PROPERTY CatchesUp
CHECK_DEADLOCK FALSE
