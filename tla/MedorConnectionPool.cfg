INIT Init
NEXT Next
\* Two clients of one peer, three descriptors, TLS on: one client's request
\* meets the other's at every queue.
CONSTANTS
    Client = {c1, c2}
    Fd = {f1, f2, f3}
    NoFd = NoFd
    MaxConnsPerPeer = 1
    GlobalMaxFds = 2
    Tls = TRUE
    MaxRequests = 4
INVARIANT AlwaysInvoked
CHECK_DEADLOCK FALSE
