SPECIFICATION Spec
CONSTANTS
    even = even
    odd = odd
    Peer = {even, odd}
    Thread = {t1, t2}
    t1 = t1
    t2 = t2
    HashOf <- MCHashOf
    FirstCount = 1
    PerShard = 1
    MaxShards = 2
INVARIANT EachInItsShard
