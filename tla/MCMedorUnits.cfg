SPECIFICATION Spec
CONSTANTS
    a = a
    b = b
    c = c
    d = d
    t1 = t1
    t2 = t2
    t3 = t3
    Absent = Absent
    \* The key file: three keys, two failing calls or power failures.
    SecretKey = {a, b, c}
    NoFile = NoFile
    Torn = Torn
    MaxKeyFaults = 2
    \* Two threads, two accounts, two blocks of which one has no state root, one
    \* failing write or crash.
    NodeThread = {t1, t2}
    Address = {a, b}
    Height = {1, 2}
    Balances <- TwoBlocks
    Senders <- TwoSenders
    Rootless = {1}
    Amount = {2}
    MaxBalance = 2
    GasPayer = {a}
    MaxCount = 1
    MaxFaults = 1
    \* One client, three keys, two threads, one failing write or crash.
    Client = {d}
    NoKey = Absent
    Ttl = {0, 1}
    DefaultTtl = 0
    MaxKeysClock = 2
    \* Two clients of one peer that may keep one connection, three sockets.
    PoolClient = {t1, t2}
    Fd = {a, b, c}
    NoFd = Absent
    MaxConnsPerPeer = 1
    GlobalMaxFds = 2
    Tls = TRUE
    MaxRequests = 4
    \* Two threads and three requests in three seconds, a window of one.
    Request <- Requests
    CURRENT_TX_VERSION = 1
    Uint32 = 4
    Uint64 = 8
    MAX_ADDRESS_LEN = 1
    MAX_TX_DATA_BYTES = 0
    WordBytes = 1
    MEDORCOIN_CHAIN_ID = 1
    REPLAY_WINDOW_SECONDS = 1
    MaxSubmitClock = 3
    MaxCalls = 3
    \* One key and two threads, a bucket of one call, two shards to sweep.
    LimitedKey = {a}
    Shards = {0, 1}
    ShardOf <- InSecond
    RequestsPerSecond = 1
    BurstSize = 1
    Second = 2
    IdleTimeout = 3
    MaxStall = 1
    MaxLimiterClock = 6
    MaxEvictions = 1
    \* Two threads of two nonces each and one nonce more.
    MinedBlock = {1, 2}
    Threads = 2
    MaxNonce = 5
    Zeros <- HitsOfTwo
    MinDifficulty = 1
    MaxDifficulty = 2
    NoNonce = Absent
    MaxSearches = 2
    \* A trusted peer and another on one host that allows one connection.  The
    \* first violation of the rate ends the process, so that none is counted.
    Peer = {a, b}
    Trusted = {a}
    Bootstrap = {a}
    HostOf <- OneHost
    PerIp = 1
    MaxPeers = 1
    MaxRetries = 1
    MaxDelay = 1
    BanSecs = 1
    MaxBan = 1
    MsgLimit = 1
    MaxViolations = 0
    MaxRegistryClock = 1
    \* Three connections to two workers; two messages have one prefix.
    Conn = {t1, t2, t3}
    InboundMessage <- Messages
    KindOf <- Kinds
    PrefixOf <- Prefixes
    StoredAddress = {a}
    InboundQueueDepth = 2
    InboundWorkers = 2
    SeenLimit = 2
    \* Three tasks for a queue of two, and two workers: one may be late.
    Pool = {"thread", "worker", "broadcast", "background", "logger"}
    Worker = {t1, t2}
    Task = {a, b, c}
    QueueLimit = 2
    NoTask = Absent
    MaxResizes = 1
    \* A contract and an account, one failing put, read or crash.
    Slot = {c}
    Word = {0, 1}
    EmptySlot = Absent
    Contract = {a}
    Funded <- Endowed
    MaxLogs = 1
    \* One peer, which can be added, banned, unbanned, saved and loaded while
    \* frames of it are handled and the manager restarts.
    ScoredPeer = {a}
    FrameWorker = {t1}
    MaxScore = 100
    UnbanScore = 50
    MaxBans = 1
    MaxDecodeErrors = 2
    Burst = 2
    Rate = 1
    PeerTimeout = 0
    Incremental = TRUE
    HalfSeen = 1
    MaxPeersClock = 2
    MaxStarts = 2
    HandledMessage = {"ping", "other version", "short", "batch"}
    MaxReceived = 2
    \* Three accounts; a clock of two seconds, four blocks.
    ChainAddress = {a, b, c}
    Miner = {b}
    Owner = a
    Treasury = c
    NoSignature = Absent
    NoHash = noHash
    SupplyKey = supplyKey
    FeeKey = feeKey
    Schedule <- TwoRewards
    MaxSupply = 1216
    InitialBaseFee = 3
    TargetGas = 10
    Maturity = 2
    MaxAmount = 2000
    MaxTransactions = 2
    Garbled = {c}
    MaxTime = 1
    MaxWrites = 4
    \* Four transactions, room for two and one orphan.
    Tx = {a, b, c, d}
    InputsOf <- InputsOfFour
    RecipientOf <- RecipientOfFour
    NonceOf <- NonceOfFour
    StripeOf <- StripeOfFour
    MaxTx = 2
    MaxBytes = 2
    MaxOrphans = 1
    MaxPoolCalls = 5
    \* Batches and a queue of two.
    PersistKey = {a, b}
    MaxPersistQueue = 2
    PersistBatch = 2
    MaxJobs = 4
    \* Each of the four classes, a key of their own besides the health probe, the
    \* ban and the metrics, two writes, one failing write or power failure.
    DatabaseKey = {a, b, c, d}
    DatabaseValue = {t1, t2}
    HealthKey = d
    Ok = t1
    BanKey = b
    MetricsKey = c
    MaxDatabaseWrites = 2
INVARIANTS
    OutputsBacked CommittedSurvive StopsClean PerIpLimit NoneAtZero NoReplay
    SpentOnce LastJobWins SearchIsExact OneHolder
    ReachesCallbackOnce NeverLost RateHolds NeverLockedOut BlocksWhole
    AcknowledgedKept KeyWhole OncePerWindow CodecsInvert
PROPERTY CreditsNeverLower
CHECK_DEADLOCK FALSE
