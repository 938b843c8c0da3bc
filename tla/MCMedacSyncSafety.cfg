SPECIFICATION Spec
CONSTANTS
    n1 = n1
    n2 = n2
    n3 = n3
    a1 = a1
    a2 = a2
    a3 = a3
    b1 = b1
    gen = gen
    None = None
    Node = {n1, n2, n3}
    Links <- StarLinks
    Block <- StarBlock
    Genesis = gen
    Parent <- StarParent
    CumulativeWork <- StarWork
    MinedBy <- StarMinedBy
    MaxBlocksPerResponse = 1
    LocatorDense = 0
    LocatorMax = 3
    MaxDrops = 1
INVARIANT AnnouncedIsReal
PROPERTY EveryNodeHeaviest
CHECK_DEADLOCK FALSE
