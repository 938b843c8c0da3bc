----------------------------- MODULE MedorUnits -----------------------------
(***************************************************************************)
(* The units of the C++ node that theorems are about, beside each other.   *)
(* No unit reads the state of another, so a behaviour of the node is seen  *)
(* here as one of any of them: unit names it, and the variables of the     *)
(* others stay Absent.  A name that two units have stands for both.        *)
(***************************************************************************)
EXTENDS Integers, Sequences, FiniteSets

CONSTANTS Absent, NodeThread

VARIABLES unit, clock, call, faults

-----------------------------------------------------------------------------
(* The key file *)

CONSTANTS SecretKey, NoFile, Torn, MaxKeyFaults
VARIABLES file, tmp, name, disk, step, key

Identity == INSTANCE MedorNodeIdentity WITH Key <- SecretKey, MaxFaults <- MaxKeyFaults

ASSUME IdentityAssumption == NoFile \notin SecretKey /\ Torn \notin SecretKey

fileVars == <<file, tmp, name, disk, step, key>>
NoFileVars ==
    file = Absent /\ tmp = Absent /\ name = Absent /\ disk = Absent /\ step = Absent /\ key = Absent

-----------------------------------------------------------------------------
(* Balances and state roots *)

CONSTANTS Address, Height, Balances, Senders, Rootless, Amount, MaxBalance, GasPayer, MaxCount,
          MaxFaults
VARIABLES balance, nonce, root, gas, setBy, since, noted

Accounts == INSTANCE MedorAccounts WITH Thread <- NodeThread

\* Heights from 1, and blocks that set balances of known accounts.
ASSUME AccountsAssumption ==
    /\ Height \subseteq Nat \ {0}
    /\ \A h \in Height : DOMAIN Balances[h] \subseteq Address

recordVars == <<balance, nonce, root, gas, setBy, since, noted>>
NoRecordVars ==
    /\ balance = Absent /\ nonce = Absent /\ root = Absent /\ gas = Absent
    /\ setBy = Absent /\ since = Absent /\ noted = Absent

-----------------------------------------------------------------------------
(* API keys *)

CONSTANTS Client, NoKey, Ttl, DefaultTtl, MaxKeysClock
VARIABLES record, writes, asked

Keys == INSTANCE MedorApiKeys WITH
    Thread <- NodeThread, Key <- SecretKey, MaxClock <- MaxKeysClock

\* Client names are no marks of absent records, and times to live are naturals.
ASSUME KeysAssumption ==
    "none" \notin Client /\ NoKey \notin SecretKey /\ DefaultTtl \in Nat /\ Ttl \subseteq Nat

keyVars == <<record, writes, asked>>
NoKeyVars == record = Absent /\ writes = Absent /\ asked = Absent

-----------------------------------------------------------------------------
(* Sockets in a bucket *)

CONSTANTS PoolClient, Fd, NoFd, MaxConnsPerPeer, GlobalMaxFds, Tls, MaxRequests
VARIABLES client, slots, strayed, openFds, open, waiting, poolRunning, requests

Connections == INSTANCE MedorConnectionPool WITH Client <- PoolClient

ASSUME ConnectionsAssumption == NoFd \notin Fd

socketVars == <<client, slots, strayed, openFds, open, waiting, poolRunning, requests>>
NoSocketVars ==
    /\ client = Absent /\ slots = Absent /\ strayed = Absent /\ openFds = Absent
    /\ open = Absent /\ waiting = Absent /\ poolRunning = Absent /\ requests = Absent

-----------------------------------------------------------------------------
(* The replay cache *)

CONSTANTS Request, CURRENT_TX_VERSION, Uint32, Uint64, MAX_ADDRESS_LEN,
          MAX_TX_DATA_BYTES, WordBytes, MEDORCOIN_CHAIN_ID, REPLAY_WINDOW_SECONDS,
          MaxSubmitClock, MaxCalls
VARIABLES seen, returned, wrapped, calls

Submit == INSTANCE MedorSubmit WITH Thread <- NodeThread, MaxClock <- MaxSubmitClock

\* A clock in seconds does not reach 2^64.
ASSUME SubmitAssumption ==
    /\ MaxSubmitClock \in Nat /\ Uint64 \in Nat /\ MaxSubmitClock < Uint64
    /\ REPLAY_WINDOW_SECONDS \in Nat

cacheVars == <<seen, returned, wrapped, calls>>
NoCacheVars == seen = Absent /\ returned = Absent /\ wrapped = Absent /\ calls = Absent

-----------------------------------------------------------------------------
(* Token buckets *)

CONSTANTS LimitedKey, Shards, ShardOf, RequestsPerSecond, BurstSize, Second, IdleTimeout,
          MaxStall, MaxLimiterClock, MaxEvictions
VARIABLES bucket, janitor, clearing, evictions, granted, reading, slack

Limiter == INSTANCE MedorRateLimiter WITH
    Key <- LimitedKey, Thread <- NodeThread, MaxClock <- MaxLimiterClock

\* A bucket is full again before it is idle long enough to be swept, with the
\* time a call may wait for its shard: 2 s and 60 s by default
\* (src/include/rate_limiter.h:49-55).
ASSUME LimiterAssumption ==
    /\ RequestsPerSecond \in Nat \ {0} /\ BurstSize \in Nat /\ Second \in Nat
    /\ IdleTimeout \in Nat /\ MaxStall \in Nat
    /\ Limiter!MaxCredit + MaxStall <= IdleTimeout + 1

bucketVars == <<bucket, janitor, clearing, evictions, granted, reading, slack>>
NoBucketVars ==
    /\ bucket = Absent /\ janitor = Absent /\ clearing = Absent /\ evictions = Absent
    /\ granted = Absent /\ reading = Absent /\ slack = Absent

-----------------------------------------------------------------------------
(* The search for a nonce *)

CONSTANTS MinedBlock, Threads, MaxNonce, Zeros, MinDifficulty, MaxDifficulty, NoNonce, MaxSearches
VARIABLES mined, difficulty, miner, abort, found, foundNonce, foundHash, nonceState, tried,
          stopped, searches

Pow == INSTANCE MedorPow WITH Block <- MinedBlock

ASSUME PowAssumption == Threads \in Nat \ {0} /\ MaxNonce \in Nat

searchVars == <<mined, difficulty, miner, abort, found, foundNonce, foundHash, nonceState,
                tried, stopped, searches>>
NoSearchVars ==
    /\ mined = Absent /\ difficulty = Absent /\ miner = Absent /\ abort = Absent /\ found = Absent
    /\ foundNonce = Absent /\ foundHash = Absent /\ nonceState = Absent /\ tried = Absent
    /\ stopped = Absent /\ searches = Absent

-----------------------------------------------------------------------------
(* The table of peers *)

CONSTANTS Peer, Trusted, HostOf, Bootstrap, PerIp, MaxPeers, MaxRetries, MaxDelay, BanSecs,
          MaxBan, MsgLimit, MaxViolations, MaxRegistryClock
VARIABLES running, peers, ipCount, thread, toRetry, nowSecs

Registry == INSTANCE MedorNetManager WITH MaxClock <- MaxRegistryClock, now <- nowSecs

ASSUME RegistryAssumption == PerIp \in Nat /\ Bootstrap \subseteq Peer

tableVars == <<running, peers, ipCount, thread, toRetry, nowSecs>>
NoTableVars ==
    /\ running = Absent /\ peers = Absent /\ ipCount = Absent /\ thread = Absent
    /\ toRetry = Absent /\ nowSecs = Absent

-----------------------------------------------------------------------------
(* Connections that bring messages *)

CONSTANTS Conn, InboundMessage, KindOf, PrefixOf, StoredAddress, InboundQueueDepth,
          InboundWorkers, SeenLimit
VARIABLES network, conn, seenMsgIds, activePeers, peerStore, pendingStore, fresh, delivered

Network == INSTANCE MedorNetwork WITH Message <- InboundMessage, Address <- StoredAddress

inboundVars == <<network, conn, seenMsgIds, activePeers, peerStore, pendingStore, fresh,
                 delivered>>
NoInboundVars ==
    /\ network = Absent /\ conn = Absent /\ seenMsgIds = Absent /\ activePeers = Absent
    /\ peerStore = Absent /\ pendingStore = Absent /\ fresh = Absent /\ delivered = Absent

-----------------------------------------------------------------------------
(* Queues with workers *)

CONSTANTS Pool, Worker, Task, QueueLimit, NoTask, MaxResizes
VARIABLES pool, worker, task, queue, stopping, owner, submitted, finished, owed, resizes

Pools == INSTANCE MedorPools

\* A pool has workers, though none checks it: two and more by default.
ASSUME PoolsAssumption == IsFiniteSet(Worker) /\ Worker # {}

taskVars == <<pool, worker, task, queue, stopping, owner, submitted, finished, owed, resizes>>
NoTaskVars ==
    /\ pool = Absent /\ worker = Absent /\ task = Absent /\ queue = Absent /\ stopping = Absent
    /\ owner = Absent /\ submitted = Absent /\ finished = Absent /\ owed = Absent
    /\ resizes = Absent

-----------------------------------------------------------------------------
(* Contracts *)

CONSTANTS Slot, Word, EmptySlot, Contract, Funded, MaxLogs
VARIABLES schema, code, slot, host, burned

Evm == INSTANCE MedorEvm WITH NoRecord <- EmptySlot

ASSUME EvmAssumption ==
    IsFiniteSet(Address) /\ EmptySlot \notin Address /\ Funded \in [Address -> Nat]

contractVars == <<schema, code, slot, host, burned>>
NoContractVars ==
    schema = Absent /\ code = Absent /\ slot = Absent /\ host = Absent /\ burned = Absent

-----------------------------------------------------------------------------
(* Scores, bans and seen messages, and the frames that change them *)

CONSTANTS ScoredPeer, FrameWorker, MaxScore, UnbanScore, MaxBans, MaxDecodeErrors, Burst, Rate,
          PeerTimeout, Incremental, HalfSeen, MaxPeersClock, MaxStarts, HandledMessage,
          MaxReceived
VARIABLES scored, dirtyIds, peerFile, seenActive, seenStale, todo, accepted, starts, received

Peers == INSTANCE MedorMessageHandler WITH
    Peer <- ScoredPeer, Worker <- FrameWorker, Message <- HandledMessage,
    MaxClock <- MaxPeersClock, peers <- scored

ASSUME PeersAssumption ==
    /\ MaxScore \in Nat \ {0} /\ UnbanScore \in Nat \ {0} /\ HalfSeen \in Nat \ {0}

scoreVars == <<scored, dirtyIds, peerFile, seenActive, seenStale, todo, accepted, starts,
               received>>
NoScoreVars ==
    /\ scored = Absent /\ dirtyIds = Absent /\ peerFile = Absent /\ seenActive = Absent
    /\ seenStale = Absent /\ todo = Absent /\ accepted = Absent /\ starts = Absent
    /\ received = Absent

-----------------------------------------------------------------------------
(* The units beside each other *)

unitVars == <<clock, call, faults, fileVars, recordVars, keyVars, socketVars, cacheVars,
              bucketVars, searchVars, tableVars, inboundVars, taskVars, contractVars, scoreVars>>

IdentityInit ==
    /\ unit = "identity" /\ Identity!Init
    /\ clock = Absent /\ call = Absent
    /\ NoRecordVars /\ NoKeyVars /\ NoSocketVars /\ NoCacheVars /\ NoBucketVars /\ NoSearchVars
    /\ NoTableVars /\ NoInboundVars /\ NoTaskVars /\ NoContractVars /\ NoScoreVars

AccountsInit ==
    /\ unit = "accounts" /\ Accounts!Init
    /\ clock = Absent
    /\ NoFileVars /\ NoKeyVars /\ NoSocketVars /\ NoCacheVars /\ NoBucketVars /\ NoSearchVars
    /\ NoTableVars /\ NoInboundVars /\ NoTaskVars /\ NoContractVars /\ NoScoreVars

KeysInit ==
    /\ unit = "keys" /\ Keys!Init
    /\ NoFileVars /\ NoRecordVars /\ NoSocketVars /\ NoCacheVars /\ NoBucketVars /\ NoSearchVars
    /\ NoTableVars /\ NoInboundVars /\ NoTaskVars /\ NoContractVars /\ NoScoreVars

ConnectionsInit ==
    /\ unit = "connections" /\ Connections!Init
    /\ clock = Absent /\ call = Absent /\ faults = Absent
    /\ NoFileVars /\ NoRecordVars /\ NoKeyVars /\ NoCacheVars /\ NoBucketVars /\ NoSearchVars
    /\ NoTableVars /\ NoInboundVars /\ NoTaskVars /\ NoContractVars /\ NoScoreVars

SubmitInit ==
    /\ unit = "submit" /\ Submit!Init
    /\ faults = Absent
    /\ NoFileVars /\ NoRecordVars /\ NoKeyVars /\ NoSocketVars /\ NoBucketVars /\ NoSearchVars
    /\ NoTableVars /\ NoInboundVars /\ NoTaskVars /\ NoContractVars /\ NoScoreVars

LimiterInit ==
    /\ unit = "limiter" /\ Limiter!Init
    /\ faults = Absent
    /\ NoFileVars /\ NoRecordVars /\ NoKeyVars /\ NoSocketVars /\ NoCacheVars /\ NoSearchVars
    /\ NoTableVars /\ NoInboundVars /\ NoTaskVars /\ NoContractVars /\ NoScoreVars

PowInit ==
    /\ unit = "pow" /\ Pow!Init
    /\ clock = Absent /\ call = Absent /\ faults = Absent
    /\ NoFileVars /\ NoRecordVars /\ NoKeyVars /\ NoSocketVars /\ NoCacheVars /\ NoBucketVars
    /\ NoTableVars /\ NoInboundVars /\ NoTaskVars /\ NoContractVars /\ NoScoreVars

RegistryInit ==
    /\ unit = "registry" /\ Registry!Init
    /\ clock = Absent /\ call = Absent /\ faults = Absent
    /\ NoFileVars /\ NoRecordVars /\ NoKeyVars /\ NoSocketVars /\ NoCacheVars /\ NoBucketVars
    /\ NoSearchVars /\ NoInboundVars /\ NoTaskVars /\ NoContractVars /\ NoScoreVars

NetworkInit ==
    /\ unit = "network" /\ Network!Init
    /\ clock = Absent /\ call = Absent /\ faults = Absent
    /\ NoFileVars /\ NoRecordVars /\ NoKeyVars /\ NoSocketVars /\ NoCacheVars /\ NoBucketVars
    /\ NoSearchVars /\ NoTableVars /\ NoTaskVars /\ NoContractVars /\ NoScoreVars

PoolsInit ==
    /\ unit = "pools" /\ Pools!Init
    /\ clock = Absent /\ call = Absent /\ faults = Absent
    /\ NoFileVars /\ NoRecordVars /\ NoKeyVars /\ NoSocketVars /\ NoCacheVars /\ NoBucketVars
    /\ NoSearchVars /\ NoTableVars /\ NoInboundVars /\ NoContractVars /\ NoScoreVars

EvmInit ==
    /\ unit = "evm" /\ Evm!Init
    /\ clock = Absent /\ call = Absent /\ nonce = Absent /\ root = Absent /\ gas = Absent
    /\ setBy = Absent /\ since = Absent /\ noted = Absent
    /\ NoFileVars /\ NoKeyVars /\ NoSocketVars /\ NoCacheVars /\ NoBucketVars /\ NoSearchVars
    /\ NoTableVars /\ NoInboundVars /\ NoTaskVars /\ NoScoreVars

PeersInit ==
    /\ unit = "peers" /\ Peers!HandlerInit
    /\ call = Absent /\ faults = Absent
    /\ NoFileVars /\ NoRecordVars /\ NoKeyVars /\ NoSocketVars /\ NoCacheVars /\ NoBucketVars
    /\ NoSearchVars /\ NoTableVars /\ NoInboundVars /\ NoTaskVars /\ NoContractVars

IdentityNext ==
    /\ unit = "identity" /\ Identity!Next
    /\ UNCHANGED <<unit, clock, call, recordVars, keyVars, socketVars, cacheVars, bucketVars,
                   searchVars, tableVars, inboundVars, taskVars, contractVars, scoreVars>>

AccountsNext ==
    /\ unit = "accounts" /\ Accounts!Next
    /\ UNCHANGED <<unit, clock, fileVars, keyVars, socketVars, cacheVars, bucketVars, searchVars,
                   tableVars, inboundVars, taskVars, contractVars, scoreVars>>

KeysNext ==
    /\ unit = "keys" /\ Keys!Next
    /\ UNCHANGED <<unit, fileVars, recordVars, socketVars, cacheVars, bucketVars, searchVars,
                   tableVars, inboundVars, taskVars, contractVars, scoreVars>>

ConnectionsNext ==
    /\ unit = "connections" /\ Connections!Next
    /\ UNCHANGED <<unit, clock, call, faults, fileVars, recordVars, keyVars, cacheVars,
                   bucketVars, searchVars, tableVars, inboundVars, taskVars, contractVars,
                   scoreVars>>

SubmitNext ==
    /\ unit = "submit" /\ Submit!Next
    /\ UNCHANGED <<unit, faults, fileVars, recordVars, keyVars, socketVars, bucketVars,
                   searchVars, tableVars, inboundVars, taskVars, contractVars, scoreVars>>

LimiterNext ==
    /\ unit = "limiter" /\ Limiter!Next
    /\ UNCHANGED <<unit, faults, fileVars, recordVars, keyVars, socketVars, cacheVars,
                   searchVars, tableVars, inboundVars, taskVars, contractVars, scoreVars>>

PowNext ==
    /\ unit = "pow" /\ Pow!Next
    /\ UNCHANGED <<unit, clock, call, faults, fileVars, recordVars, keyVars, socketVars,
                   cacheVars, bucketVars, tableVars, inboundVars, taskVars, contractVars,
                   scoreVars>>

RegistryNext ==
    /\ unit = "registry" /\ Registry!Next
    /\ UNCHANGED <<unit, clock, call, faults, fileVars, recordVars, keyVars, socketVars,
                   cacheVars, bucketVars, searchVars, inboundVars, taskVars, contractVars,
                   scoreVars>>

NetworkNext ==
    /\ unit = "network" /\ Network!Next
    /\ UNCHANGED <<unit, clock, call, faults, fileVars, recordVars, keyVars, socketVars,
                   cacheVars, bucketVars, searchVars, tableVars, taskVars, contractVars,
                   scoreVars>>

PoolsNext ==
    /\ unit = "pools" /\ Pools!Next
    /\ UNCHANGED <<unit, clock, call, faults, fileVars, recordVars, keyVars, socketVars,
                   cacheVars, bucketVars, searchVars, tableVars, inboundVars, contractVars,
                   scoreVars>>

EvmNext ==
    /\ unit = "evm" /\ Evm!Next
    /\ UNCHANGED <<unit, clock, call, nonce, root, gas, setBy, since, noted, fileVars, keyVars,
                   socketVars, cacheVars, bucketVars, searchVars, tableVars, inboundVars, taskVars, scoreVars>>

PeersNext ==
    /\ unit = "peers" /\ Peers!HandlerNext
    /\ UNCHANGED <<unit, call, faults, fileVars, recordVars, keyVars, socketVars, cacheVars,
                   bucketVars, searchVars, tableVars, inboundVars, taskVars, contractVars>>

UnitsInit ==
    IdentityInit \/ AccountsInit \/ KeysInit \/ ConnectionsInit \/ SubmitInit \/ LimiterInit
    \/ PowInit \/ RegistryInit \/ NetworkInit \/ PoolsInit \/ EvmInit \/ PeersInit

UnitsNext ==
    IdentityNext \/ AccountsNext \/ KeysNext \/ ConnectionsNext \/ SubmitNext \/ LimiterNext
    \/ PowNext \/ RegistryNext \/ NetworkNext \/ PoolsNext \/ EvmNext \/ PeersNext

UnitsSpec == UnitsInit /\ [][UnitsNext]_<<unit, unitVars>>

-----------------------------------------------------------------------------
(* Properties *)

\* Once the path of the key file leads to a key it leads to a whole one, and
\* to that of the running node, through failing calls and power failures.
KeyWhole == unit = "identity" => Identity!KeyWhole

\* A block's balances are set all or none, and its root with them: a failed
\* or interrupted batch leaves none of its writes, and overlapping commits
\* and puts hide no part of one.
BlocksWhole == unit = "accounts" => Accounts!BlocksWhole

\* Until one of its keys is revoked on request, a client that was given a
\* key without an expiry holds one that works: a rotation that fails or
\* crashes included.
NeverLockedOut == unit = "keys" => Keys!NeverLockedOut

\* A socket has one holder and is open as long as it has one, through
\* acquisitions, releases, evictions, handshakes and the janitor.
OneHolder == unit = "connections" => Connections!OneHolder

\* One process hands on a transaction once within the replay window, whichever
\* handlers and threads bring it and whatever else they bring.
OncePerWindow == unit = "submit" => Submit!OncePerWindow

\* No key is allowed more calls than its burst, the time since and what
\* the code is known to credit twice come to.
RateHolds == unit = "limiter" => Limiter!RateHolds

\* The threads of a search cover every nonce between them and make one valid
\* block of their hits, whatever was found or given up at the same moment.
SearchIsExact == unit = "pow" => Pow!SearchIsExact

\* The count of a host never falls below the connections it has, and those
\* exceed the limit by at most one other thread's connection.
PerIpLimit == unit = "registry" => Registry!PerIpLimit

\* A prefix that is remembered reaches a callback exactly once, or is on its
\* way, however many connections bring it at the same time.
ReachesCallbackOnce == unit = "network" => Network!ReachesCallbackOnce

\* Stop and network.cpp's drain leave no task submitted before them behind,
\* ThreadPool's drain none that no worker is at; and a stop that sets its
\* flag under the mutex leaves no worker asleep.
StopsClean == unit = "pools" => Pools!StopsClean

\* SELFDESTRUCT never loses money to a failing put or a crash between its
\* two writes.
NeverLost == unit = "evm" => Evm!NeverLost

\* A peer whose score has reached zero is banned, whoever lowers, unbans,
\* saves or loads it.
NoneAtZero == unit = "peers" => Peers!NoneAtZero

\* markSeen takes no message for new again before SEEN_MAX / 2 others have
\* been, unless all were forgotten in between.
NoReplay == unit = "peers" => Peers!NoReplay
=============================================================================
