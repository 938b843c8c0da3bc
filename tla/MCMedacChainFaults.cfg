SPECIFICATION Spec
CONSTANTS
    a1 = a1
    a2 = a2
    a3 = a3
    b1 = b1
    b2 = b2
    gen = gen
    NoFile = NoFile
    Block <- MCBlock
    Inode = {i1, i2, i3}
    Genesis = gen
    Parent <- MCParent
    CumulativeWork <- MCCumulativeWork
    Candidates <- MCCandidates
    CrashKinds = {"power"}
    MaxLoaded = 3
    FaultPoints <- AllFaults
INVARIANT AckDurable
