SPECIFICATION FairSpec
\* Two seeds and one inbound connection for two places, so that each can find
\* the table full; a third dialled socket is to spare, for a seed that would be
\* dialled twice.
CONSTANTS
    None = None
    Url = {u1, u2}
    Outbound = {o1, o2, o3}
    Inbound = {i1}
    MaxPeers = 2
INVARIANTS TableExact SeedsCovered
PROPERTIES StopCompletes DeadPeersLeave
CHECK_DEADLOCK FALSE
