# Verification of the MedorCoin / MEDAC blockchain

TLA+ modules, TLC configurations and TLAPS proofs kept beside the code under `src/`.
Paths below are relative to the repository root (`src/` here).

## 1. The system

The repository holds two blockchains that share nothing but their name.

**MEDAC** is a proof-of-work chain in JavaScript, complete, tested and started by `npm run medac:start`.

| Part | Source | State | Operations |
|---|---|---|---|
| Consensus rules | `medac_consensus.cjs` | none; a ledger state is a value (height, tip, target, work, supply, balances, nonces, blocks) | `createGenesisState`, `applyTransactions`, `calculateBlockReward`, `calculateNextTarget`, `applyMinedBlock`, `mineBlock`, `mineBlockAsync` |
| Journal store | `medac_store.cjs` | `node.lock`, `chain.ndjson`, one descriptor, `this.blocks` | `open` (lock, create, repair, load), `append`, `replace`, `close` |
| Persistent chain | `medac_chain.cjs` | `this.state` | `open` with replay, `appendBlock`, `considerChain`, `acceptTransaction`, `close` |
| Node | `medac_node.cjs` | `peers` (ready, work, download under way), `mempool`, reconnection timers, the running search | frames `version`, `get_blocks`, `blocks`, `block`, `transaction`; `mine`, `submitTransaction`, `connectTo`, `start`, `stop` |

A node calls its chain, the chain calls the rules and then the store; nodes talk over WebSockets.
Everything in a node runs on one event loop: chain and store calls are never interrupted, but
every caller awaits them, so what it does with the answer runs in a promise callback, after the
other frames of the same read. Hard here: crashes between the system calls of the store; calls
that fail half way; downloads of a chain in batches while both ends change branch; announcements
that arrive late or never; a mempool checked at one moment and changed at another; a mining
search that outlives its tip.

**MedorCoin** is a C++ node (`src/src`, `src/include`) with several generations of JavaScript services, Solidity
contracts and web pages round it. Nothing links its parts into one program that builds, so each is modelled as what its
callers, as far as there are any, make of it.

| Part | Source | State | Operations |
|---|---|---|---|
| Blockchain | `src/src/blockchain.cpp`, `block.cpp`, `miner.cpp` | chain, outputs, supply, base fee in memory; blocks in LevelDB, accounts and supply in RocksDB | construction with reload, `addBlock` (checks, storing, application, rollback, fees, persistence) |
| Mempool | `src/src/mempool/mempool.cpp` | entries, orphans, spent outpoints, sizes; a queue of jobs for the database | `addTransaction`, promotion of orphans, trimming, removal, the persistence worker |
| Databases | `src/src/db/*.cpp`, `src/src/net/peer_store.cpp` | key-value stores of blocks, accounts, API keys, peers | puts, deletions and batches, synced or not; `commitBlockState`; balances and nonces |
| Proof of work | `src/src/proof_of_work.cpp` | difficulty, saved nonce, the shared state of a parallel search | `mine`, `mineParallel`, `adjustDifficulty` |
| Network | `src/src/network.cpp` | connections, inbound queue, seen ids, peer files | receive loops, inbound workers, connecting, drain and stop |
| Peers | `src/src/net/net_manager.cpp`, `peer_manager.cpp`, `message_handler.cpp` | peer tables, counts per host, scores, bans, seen ids, rate buckets | add, remove, ban, retry, save, load, handle a frame |
| Connection pool | `src/src/connection_pool.cpp` | slots of idle and used sockets, a budget of descriptors, a reactor, TLS workers | `acquire`, `acquireAsync`, `release`, eviction, janitor, stop |
| Pools of threads | `thread_pool.cpp`, `async_logger.cpp`, parts of `network.cpp` and `net_manager.cpp` | a queue, a stop flag, workers | submit, take, resize, drain, stop |
| Rate limiter, API keys | `rate_limiter.cpp`, `api_key_manager.cpp` | buckets; key records in RocksDB | `allow`, sweeps; create, check, revoke, rotate |
| EVM store | `src/src/evm/host.cpp`, `storage.cpp` | balances, code, slots in RocksDB | host calls of evmone, transfers, `SELFDESTRUCT` |
| Node identity, codecs, submission | `node_identity.cpp`, `crypto/rlp.cpp`, `message_codec.cpp`, `net/serialization.cpp`, two handlers of `api_server.cpp` and `rpc_server.cpp` | the key file; a replay cache | generate, load; encode, decode; `deserializeTx` |

Hard here: lock order, a lock given up and taken again, reads and writes under different locks, clocks read before a lock,
queues and workers at shutdown, state on disk and in memory that part ways, several writes of which one fails.

The list of all parts, with the reason for each that is left out, is `components` in `PROJECT.json`; the list of what
can go wrong, line by line, is `hazards`.

What makes each part correct:

* Consensus: money is neither made nor lost, the issuance follows the halving schedule up to the
  reserve, no transaction is replayed, difficulty moves only at window ends, in the right direction.
* Store and chain: an acknowledged chain survives every crash, and the chain only ever moves to a
  strictly heavier valid one.
* Synchronisation: the same of every node of a network whatever the frames' order, and a node that
  knows of a heavier chain gets it.
* Mempool: between events nothing stale waits in it and all of it can be mined; a search is not
  thrown away without reason.
* MedorCoin's chain: what can be spent comes from its blocks, what was added survives a restart, paying never takes.
* Its pools, tables and limits: no task is left behind at a stop, no descriptor has two owners, no limit, ban or
  replay check gives way to an interleaving.
* Its stores: what was acknowledged is kept, half a batch is never seen, and a failing write loses no money and no key.

## 2. Modules

| Module | Models | State and actions |
|---|---|---|
| `MedacConsensus` | `medac_consensus.cjs` | operators only, one per function; a refusal is a false guard |
| `MedacLedger` | a ledger under `applyMinedBlock` | `state`; the action `ApplyBlock`, on blocks as `prepareBlock` makes them and with one field altered |
| `BlockTree` | blocks seen from outside the rules | a fixed tree with cumulative work; a chain is a path from genesis |
| `HeaviestChain` | what a chain promises | abstract: the acknowledged chain moves to a valid, strictly heavier one |
| `MedacStore` | `medac_store.cjs` | files as the kernel and as the disk have them, the directory entry likewise, the descriptor, `pc`; one action per system call or group of them that a crash cannot tell apart |
| `MedacChain` | `medac_chain.cjs` over `MedacStore` | the in-memory chain, the history `acked`; the calls, crashes, restarts, the removal of a stale lock; implements `HeaviestChain` |
| `MedacSync` | the peer protocol of `medac_node.cjs` | each node's chain, each side's peer object, a channel each way; one action per handler, and mining, dialling, breaking |
| `MedacMempool` | mempool, callbacks and mining of `medac_node.cjs` | chain, mempool, callback queue, running search; uses the rules of `MedacConsensus` |
| `MedacPeers` | connections of one node in `medac_node.cjs`, stopped as `medac_main.cjs` does | a slot for each socket with its peer object, the `peers` table, the reconnection timers; one action per timer, socket event and call |
| `MedorChain` | `blockchain.cpp` | chain, outputs, supply, fee, both databases, `pc` within `addBlock`; one action per write between which a crash can fall |
| `MedorMempool` | `addTransaction` of `mempool.cpp` | entries, orphans, spent outpoints, a stack of calls for each thread (an orphan is promoted by re-entry), stripes; one action per span of a lock |
| `MedorMempoolPersist` | the persistence queue of `mempool.cpp` | queue, batch, database, worker |
| `MedorDatabase` | `AccountDB`, `RocksDBWrapper`, `PeerStore`, `BlockDB` | what is on disk, the log behind it, what callers must expect; one action per call, crashes and power failures |
| `MedorAccounts` | the account operations of `accountdb.cpp` | balances, nonces, root, gas; a call per thread between its read and its write |
| `MedorPow` | `proof_of_work.cpp` | a thread per range, the shared flag, nonce and hash; one action per access to shared state |
| `MedorPools` | `ThreadPool`, `WorkerPool` (two), `BroadcastPool`, `AsyncLogger`, the background threads | queue, workers, flag, mutex; one action per span of the mutex |
| `MedorNetwork` | receiving and dispatching in `network.cpp` | connections, inbound queue, seen ids, what callbacks got, the peer files |
| `MedorNetManager` | the peer table of `net_manager.cpp` | peers, counts per host, a thread between its check and its insertion, the retry thread |
| `MedorPeerManager` | scores, bans, files and seen ids of `peer_manager.cpp` | peers, dirty ids, the file, two buckets of ids |
| `MedorMessageHandler` | `message_handler.cpp` over `MedorPeerManager`, which it extends | what each worker still has to do for its frame |
| `MedorPeerShards` | the shards of `peer_manager.cpp` | peers of each shard, the count, an insertion on its way |
| `MedorConnectionPool` | `connection_pool.cpp` | a slot per socket, clients, the budget, callbacks owed |
| `MedorRateLimiter` | `rate_limiter.cpp` | buckets, calls between clock and lock, the janitor |
| `MedorApiKeys` | `api_key_manager.cpp` | key records, the writes a call still has to do |
| `MedorEvm` | `evm/host.cpp`, `evm/storage.cpp` | schema, balances, code, slots, the writes of a transfer |
| `MedorNodeIdentity` | `node_identity.cpp` | the files, the names in memory and on disk, where `generate` is |
| `MedorRlp`, `MedorCodec` | `crypto/rlp.cpp`, `message_codec.cpp` | operators on sequences of bytes; a value, raw input or a block that grows |
| `MedorSubmit` | `deserializeTx` and its callers | the replay cache, a call per thread between the clock and the lock |
| `MedorUnits` | twelve of the C++ modules beside each other | `unit` and the variables of each; what the theorems of `MedorUnits_proofs` are about |
| `MedorStateUnits` | the chain, the mempool, its persistence queue and the databases beside those | `unit` and the variables of each; what the theorems of `MedorStateUnits_proofs` are about |
| `MC*` | instances for TLC | |
| `Totals` | lemmas | sums over finite sets, folds over lists |
| `MedacLedger_proofs`, `MedacChain_proofs`, `MedacSync_proofs`, `MedacMempool_proofs`, `MedacPeers_proofs` | theorems about MEDAC | |
| `MedorUnits_proofs`, `MedorStateUnits_proofs` | theorems about the units of `MedorUnits`, and about the four of `MedorStateUnits` | |

The layers meet at named places. `MedacConsensus` says which blocks a ledger accepts;
`BlockTree` keeps of it that acceptance of a block at its place depends on its ancestors and that
work grows along a chain (`ChainLinked` and `WorkGrows`, proved of `MedacLedger`, are those two
facts). `MedacChain` shows that the store below a node's chain cannot be told from `HeaviestChain`;
`MedacSync` therefore has a node's chain as one variable changed by atomic steps of the same kind
(`HeavierStep` is the step of `HeaviestChain`).

Abstractions: a block's hash is the tuple of the fields the code hashes, and what it spells as a
number, compared with the target, is a field `pow`. A signature is the account it recovers to.
Syntax checks of fields (hexadecimal, decimal strings, safe integers), sizes in bytes and the rate limit
are left out. In `MedacSync` a handler with its callbacks is one step (`MedacMempool` has the
several frames of one read), a broken connection is gone on both sides at once, and two nodes dial
each other in one direction only. In `MedacMempool` every block is worth the same work and rewards go
to an account that sends nothing.

The C++ modules do not read one another's state: the code shares none between these parts but databases, and those are
modelled in the part that owns them. `MedorUnits` therefore has twelve of them side by side, each an `INSTANCE` with variables and constants of its own (a name that two have stands for both).
Its variable `unit` says which one a behaviour is about; the variables of the others are `Absent`. `MedorStateUnits` extends it by the chain, the mempool,
its persistence queue and the databases. `UnitsSpec` and `StateSpec` are what the theorems are about, and `MCMedorUnits` gives both an instance and adds the
two codecs, whose operators are recursive, on variables `s1` to `s3`. Each invariant is guarded by its unit, and TLC explores each state space for itself.

Abstractions there: a transaction's hash is the record of the fields that are hashed, a block's hash leaves out its
transactions as the code does. Time is counted in whole units of what is compared (seconds, tokens). A mutex is a span that is one action unless
another lock is taken within it. 64-bit sums of outputs and inputs wrap in `MedorChain`, and the difference of times does in
`MedorSubmit`; other 64-bit arithmetic (balances of the EVM have 256 bits) is taken to fit where the code checks no overflow. What `serialize` and `deserialize` make of a block is whether it reads back
(`Readable`): too many transactions, or a `|` in an address, and it does not. An address whose `|` is followed by digits that make the block read as another one is left out. A write to a database is there whole or not at all, and `MedorDatabase` says which writes a power failure may take;
the other modules let processes die, not machines.

Operators whose comment begins with "Variant:" are deliberately wrong forms of the definition that
follows them. No specification uses them; `mutants` in `PROJECT.json` pairs each with the property
that notices when it takes the place of the right one.

## 3. What the runs check

| Run | Configuration | Distinct states | Shows |
|---|---|---|---|
| `ledger` | `MCMedacLedger.cfg` | 17 333 | `StateOK`, `ChainLinked`, `Conservation`, `AccountsMatchBlocks`, `IssuanceOnSchedule`, `RetargetBounded`, `WorkGrows` hold |
| `chain` | `MCMedacChain.cfg` | 189 164 | `AckDurable`, `ReadyAgrees` hold and `MedacChain` implements `HeaviestChain` |
| `chain_faults` | `MCMedacChainFaults.cfg` | | `AckDurable` is violated when a call after the rename fails |
| `sync_safety` | `MCMedacSyncSafety.cfg` | 198 989 | `AnnouncedIsReal`, `EveryNodeHeaviest` hold |
| `sync_progress` | `MCMedacSyncProgress.cfg` | 14 584 | `CatchesUp` holds under fairness |
| `sync_converges` | `MCMedacSyncConverges.cfg` | | `Converges` is violated although no connection breaks |
| `mempool` | `MCMedacMempool.cfg` | 63 835 | `MempoolFresh`, `MempoolExecutable`, `SearchNotWasted` hold |
| `peers` | `MedacPeers.cfg` | 17 068 | `TableExact`, `SeedsCovered` hold, and under fairness `StopCompletes` and `DeadPeersLeave` |
| `cxx_units` | `MCMedorUnits.cfg` | 1 483 683 | the properties of the next table hold |
| `cxx_chain_repeat` | `MCMedorChainRepeat.cfg` | | `EmptyBlocksAdd` is violated by the second empty block of a miner |
| `cxx_shards` | `MCMedorPeerShards.cfg` | | `EachInItsShard` is violated when the shards grow during an insertion |
| `cxx_pool_answers` | `MedorConnectionPool.cfg` | | `AlwaysInvoked` is violated when every address of a host fails at once |

The units of `cxx_units`, with what each contributes to its states:

| Unit | Module | States | Properties | Instance |
|---|---|---|---|---|
| `chain` | `MedorChain` | 238 312 | `OutputsBacked`, `CommittedSurvive`, `CreditsNeverLower` | rewards 1200 and 10 under a cap of 1216 that cuts the third short; four blocks in all; transactions that pay on one output, whole, all but lost or one too many, that join two or one with itself, or whose two outputs wrap the sum; at most two to a block, while three, the coinbase included, or the address `c` make a block that does not read back; amounts up to 2000, so that sums and an account overflow; crashes anywhere |
| `pools` | `MedorPools` | 22 835 | `StopsClean` | five kinds of pool, both kinds of drain, three tasks, a queue of two, two workers, one resize |
| `registry` | `MedorNetManager` | 112 941 | `PerIpLimit` | two peers of one host that allows one connection, one of them trusted; bans, retries, a rate limit whose first violation ends the process (in the code it is the tenth) |
| `peers` | `MedorMessageHandler` | 334 392 | `NoneAtZero`, `NoReplay` | one peer, two frames of four kinds, saves, loads and two processes |
| `mempool` | `MedorMempool` | 14 762 | `SpentOnce` | a conflict, an orphan, a nonce that follows; room for two, two threads |
| `persist` | `MedorMempoolPersist` | 4 408 | `LastJobWins` | two keys, batches and a queue of two, four jobs |
| `pow` | `MedorPow` | 5 844 | `SearchIsExact` | two threads, five nonces, three hits of different worth, and a block with none |
| `connections` | `MedorConnectionPool` | 20 566 | `OneHolder` | two clients, three sockets, a budget of two, TLS |
| `network` | `MedorNetwork` | 102 879 | `ReachesCallbackOnce` | three connections, two workers, four messages of three prefixes, a set of ids that is cleared at two |
| `evm` | `MedorEvm` | 50 995 | `NeverLost` | a contract and an account, one failing call or crash |
| `limiter` | `MedorRateLimiter` | 67 029 | `RateHolds` | one key, two threads, a burst of one, two shards to sweep |
| `keys` | `MedorApiKeys` | 102 533 | `NeverLockedOut` | one client, three keys, two threads, one failing write or crash |
| `accounts` | `MedorAccounts` | 313 056 | `BlocksWhole` | two accounts, two blocks, one of them without a root, committed in any order and at once by two threads, with setters of balances and roots in between; one failing write or crash; the largest nonce is one, so that a block is committed again only by calls that overlap |
| `database` | `MedorDatabase` | 21 763 | `AcknowledgedKept` | each class, four keys, two writes, one failing write or power failure |
| `identity` | `MedorNodeIdentity` | 13 590 | `KeyWhole` | three keys, two failing calls or power failures |
| `submit` | `MedorSubmit` | 55 024 | `OncePerWindow` | two threads, three requests of eight, a window of one second in three |
| `rlp`, `codec` | `MedorRlp`, `MedorCodec` | 2 754 | `CodecsInvert` | values three deep, strings of 0, 1, 2, 55, 56 and 256 bytes, all inputs of up to three of eleven bytes; blocks of up to two transactions |

What these properties say, and why they are not obvious:

* `OutputsBacked`: the rollback of `addBlock` is itself a sequence of writes over outpoints that may occur twice. The code compares 64-bit sums, so that two outputs may pay out more than they claim:
  the property holds up to what the sums of applied transactions have lost (`hidden`, the exact sum less the one that wrapped), and says so; where none wraps nothing is unbacked. `CommittedSurvive`: a reload sorts
  blocks by second, checks no link and skips what it cannot read; the property says that it drops nothing else (`skipped` is what this process could not read). `CreditsNeverLower`: a flat fee may exceed the output it is charged to. It is said of accounts with room for what the transaction pays:
  `addBalance` refuses a credit that would overflow, which its caller does not learn (`blockchain.cpp:411`), and the fee is deducted all the same; `MaxAmount` stands for the largest 64-bit number.
* `StopsClean`: every stop, and the drain of `network.cpp`, return only when all that was submitted before has run. ThreadPool's drain waits for an empty queue alone (`thread_pool.cpp:43`): of it the property says that
  what has not run is at a worker. That nobody is left asleep is stated of the pools that set their flag under the mutex; of the others see the limits below.
* `PerIpLimit`: the count is kept beside the table and never lowered by a ban, so it may exceed the connections; it must not fall below.
* `NoneAtZero`, `NoReplay`, `OncePerWindow`, `RateHolds`: a state that one call leaves is undone by a sweep, a rotation, a reload or a stale clock.
* `SpentOnce`, `LastJobWins`, `SearchIsExact`, `OneHolder`, `ReachesCallbackOnce`: two actors at one moment of each other's lock.
* `BlocksWhole`: no lock holds from the first read of `commitBlockState` to its batch, and setters write the same records. What a block set shows its balance until something sets it again, all of a block's balances are
  there or none, and its root with them if it has one. It does not say that the balances are those of the newest root: commits that overlap may be written in any order.
* `NeverLost`, `NeverLockedOut`, `AcknowledgedKept`, `KeyWhole`: one of several writes fails or is the last.
* `CodecsInvert`: also that no prefix of an encoding decodes, which a test with whole messages does not show.

Bounds, and why they are enough:

* `ledger`: a reserve of 7 over a halving interval of 2 gives the rewards 3, 3, 1 and 0, so four blocks
  cross a halving, the cut of the last reward and the end of the reserve. A window of two blocks retargets
  twice, with elapsed times below, at and above the plan, and meets the clamp at 1 and at `MaxTarget`.
  The transaction lists hold a self-transfer, a spend of money received in the same block, a repeat, a
  foreign network, a forged signature and a fee of zero. The clock takes two values in any order.
* `chain`: a tree in which the shorter branch is the heavier and a tie occurs; three inodes are all that can
  be live at once (named, durably named, open or temporary). Crashes and restarts are unbounded.
  `MaxLoaded` only stops `this.blocks` from growing when one object is opened again and again.
* `sync_safety`: the least network in which a serving node changes branch in the middle of a download (a
  third node gives it the heavier one). Batches hold one block, so every chain longer than that takes several; locators go sparse at once.
* `sync_progress`: two branches, one broken connection at any point.
* `mempool`: three frames a tick are the least that put a callback of each kind in one queue; two senders,
  two transactions that exclude each other, a chain of nonces and a dependent transaction.
* `peers`: two seeds and an inbound connection for two places, so each of them can find the table full; a
  third dialled socket would be there for a seed that is dialled twice. Failures, silence and reconnections are unbounded.
* `cxx_units`: the column "Instance" above. Two actors of each kind meet in every module that has any, and each limit (queue, budget, burst, bucket, cap) is one or two, so it is
  reached and passed. Counters that stop growth are named `Max...` in the modules: of writes, calls, requests, faults and the clock.

**Fairness.** `FairSpec` of `MedacSync` assumes weak fairness of each pair's frame handling (TCP delivers
and the event loop runs every ready callback), and of accepting and opening a connection (the reconnection
timer of `_scheduleReconnect` fires again after every failure, at most 60 seconds apart). Nobody is required to mine,
and a connection that breaks does so at most `MaxDrops` times.
`FairSpec` of `MedacPeers` assumes weak fairness of the timers (heartbeat, handshake, reconnection), of the close event of a
socket that is closing or being dialled (`ws` destroys a socket whose close frame is not answered after 30 seconds, and a dial
fails in the end) and of the end of `stop`. No remote end has to open, answer or close anything.

The C++ modules state safety only. Their threads wait on condition variables and sockets, and where something must happen in the end it
is said of the states in which nothing more can (`StopsClean`, `LastJobWins`, `AlwaysInvoked`).

**Disagreements with tests, headers and comments.**

* `chain_faults`: after a failure between the rename and the end of `replace` the node's descriptor is on a
  file without a name. Its memory has the old chain, the disk the new one, and blocks appended afterwards are acknowledged and
  lost at the next open. `medac_consensus.test.js:202` checks that what `appendBlock` acknowledged is there after reopening.
* `sync_converges`: a node sends its version once, on attaching. A block it mines before the peer's version
  arrives is broadcast to ready peers only, so this peer is not told. `medac_consensus.test.js:218` expects peers to synchronise.
* `cxx_chain_repeat`: the hash of a transaction covers neither height nor time. The coinbase of a second empty block for one miner is the first one again; its outputs exist
  and the block is refused. `src/tests/test_blockchain.cpp:124` adds five.
* `cxx_shards`: a peer's shard is chosen by the number of shards before its lock is taken. When the shards grow in between, the peer is
  put where no lookup looks. The comment at `peer_manager.cpp:145` calls growth free of races.
* `cxx_pool_answers`: when `connect` fails at once for every address the branch that would answer is guarded by `fd >= 0` and never runs. The header
  (`connection_pool.h:112`) says the callback is always invoked.

**Limits the models brought to light**, for which no run is needed:

* If the process alone may die (`CrashKinds` with `"process"`), `AckDurable` fails even without failing calls: `open` reads
  what the kernel has, syncs neither file nor directory again, and acknowledges further blocks on top; a
  power failure then takes all of it. The runs and theorems have `CrashKinds = {"power"}`.
* Two submissions in one tick are checked against the same mempool and may exclude each other. The
  mempool stays inexecutable, and the node's own searches fail, until a block or chain of
  another node makes it revalidate. The variable `exposed` marks that window in `MempoolExecutable` and `SearchNotWasted`.
* A reorganisation does not return the transactions of the removed blocks to the mempool.
* A reconnection timer that fires while the table is full gives its seed up for good: `connectTo` returns at its first line and
  nothing schedules another attempt. `SeedsCovered` excepts these seeds (`gaveUp`) and shows that there is no other way to lose one.
* A crash right after the creation of `chain.ndjson` leaves an empty file that `open` refuses from then on.

Of the C++ node:

* Chain. Blocks are written unsynced and accounts synced, so a power failure may take a block and leave its credits. Transaction 0 is taken for the coinbase even
  when there is no reward and none was added, so that the inputs of a first real transaction go unchecked. Rolling back a block whose coinbase repeats takes away the
  outputs of the earlier one (`OutputsBacked` allows outputs to be missing, never to be too many). Sums of amounts wrap (`:306`, `:372`, `:375`): a transaction with two outputs whose sum passes 2^64 spends little and pays out much, and a coinbase may do the same; the supply counter does not
  show it. `OutputsBacked` bounds what comes of it. A block of more than 10000 transactions, or with a `|` in an address, is accepted and committed and cannot be read back: `loadChainFromDB` skips it (`:89`), so the next
  process has a chain without it, whose next block links past it (`skipped`). A miner's result of `addBlock` is ignored (`miner.cpp:53`). A fork is chosen by
  length (`blockchain_fork.cpp`), where `docs/protocol_spec.md` speaks of the heaviest chain.
* Mempool. `addTransaction` may wait for itself: it holds a stripe while it promotes orphans, and one of the same stripe locks it
  again. Two threads may take two stripes in opposite orders. The nonce order is not checked again after the lock was given up. The Put of
  a transaction is queued after the lock is released and may follow the Delete of its removal. A database that keeps failing keeps `stop` from ending.
* Accounts. `commitBlockState` reads nonces before its batch and outside a lock, where its comment (`accountdb.cpp:574`) says they are read under one; two commits at once lose one increment, the later batch wins whatever its height, and two transactions of one sender in a block count as one.
  The read-modify-write helpers lose updates likewise; nothing calls them.
* Proof of work. `mine` goes on from the saved nonce for another block; once the range is exhausted each call tries one nonce. A progress callback that refuses while another
  thread has found a hit discards the hit.
* Pools. `BroadcastPool`, `WorkerPool` and the drain of `network.cpp` set their flag outside the mutex: a worker between its test and its wait sleeps for ever. `ThreadPool::drain` returns while tasks run. The destructor of `AsyncLogger` gives
  up after a time and leaves its workers an object that is gone.
* Peers. A ban at the tenth rate violation locks a mutex that is held (`net_manager.cpp:332`) and ends the process. Counts per host are not lowered by bans and evictions.
  A peer banned while it connects is connected. Incremental saves replace the file by the dirty peers alone, and a ban makes none dirty.
* Network. The first new peer makes the process end (`network.cpp:1756`), and a peer file with an entry makes every start end, so nothing beyond that point is
  modelled. A connection accepted during the drain is handled after the stop. Ids are prefixes, so two messages may share one.
* Connection pool. Failing TLS closes a socket and keeps its place in the budget; a release into a bucket that `clear` removed leaks the descriptor; requests queued at stop are dropped.
* Rate limiter. A clock read before the lock credits the same time twice (`slack` in `RateHolds`), eviction and `clear` give back a full burst.
* API keys. Rotating a revoked or expired key gives a live one; two rotations of one key at once give two.
* EVM. A second put of `SELFDESTRUCT` that fails leaves the money in both accounts; nothing is lost, some is made. A failing read looks like an empty account.
* Submission. A check overtaken between its clock and its lock by one that read a later second wraps its difference, forgets what that one
  remembered, and a replay passes (`wrapped` in `OncePerWindow`). A refused transaction cannot be sent again within the window, and a forged copy of its hash keeps the true one out.
* Identity. No directory is synced: a key that was generated and used may be replaced by the one before it after a power failure. Two processes on one path would share a temporary file.
* Codecs. `encodeTransaction` of `message_codec.cpp` carries neither inputs nor outputs, `encodeBlock` neither difficulty nor nonce nor miner; `network.cpp` defines the same names with another layout.

## 4. What is proved

TLC shows a property of the instances of section 3, a theorem for every value of the constants. Each theorem
`Spec => []P` rests on an inductive invariant of its own, because hardly any `P` is inductive: what a step needs to know is named in
parts, and a lemma for each step shows that it keeps them.

**The ledger** (`MedacLedger_proofs`), for every configuration, schedule, finite set of accounts, list of transactions and chain length.

* `LedgerInvariant`: `StateOK` is not inductive: that the new target is in range needs the timestamps of the blocks to be numbers, that the new tip links needs
  the list's last block to be the tip, and the first block needs the genesis tip (`BlockListOK`, `TimestampsOK`, `TipOK`).
  `StateStaysValid`, `ChainStaysLinked`, `WorkAlwaysGrows` follow. `DifficultyMovesRight` (`RetargetBounded`) is arithmetic with `\div` and two clamps.
* `MoneyInvariant` adds that balances and nonces are natural numbers, that the balances add up to the supply and that what is issued is the schedule's sum cut at
  the reserve. `MoneyStaysConserved`, `IssuanceStaysOnSchedule` and `NobodyOverdrawn` follow. One transaction moves an amount and a fee (`TransactionMoves`); the fold over a block
  keeps the money in the accounts and in the fees together the same.
* `AuditInvariant` adds for each place of the chain that its nonce is the number of earlier places of its sender, and for each account that its balance is
  what the places so far have brought. Its step takes a block apart into its transactions (`AcceptedInOrder`), moves both claims along by one place at a
  time, and then adds the block. `AccountsAlwaysMatch` follows: the accounts can be recomputed from the blocks, which no check of the code does.

**Totals** (`Totals`). The sum of a function over a finite set does not depend on the order (`TotalWithout`), changes by what one element changes (`TotalExcept`) and grows by one element
(`TotalOneMore`). The induction theorems of the library take an operator as a parameter, which the provers cannot instantiate. Induction is therefore stated of sets:
a set of numbers that holds 0 and each successor is `Nat` (`NatSet`), and a set that holds each subset whose own proper subsets it holds has all of them (`SubsetInduction`); the property
is the set of those that have it. `FoldExists` and `FoldGood` do the same for folds over lists: the fold of a step is the value of a function on the sets of places, and what every step keeps, the fold keeps.

**The persistent chain** (`MedacChain_proofs`), for every block tree, every set of candidates and any number of crashes.

* `ChainInvariant`: `AckDurable` speaks of what the disk may hold. To keep it one has to know of each step what file the name leads to, in the kernel and on the disk, and
  what each of them holds (`DiskInv`), and how the store stands when it is closed, created, open, appending or replacing (`ClosedInv` to `ReplaceInv`).
* `ChainTypes`, `AcknowledgedChainsAreDurable`, `ReadyStoresAgree` follow; `ChainImplementsHeaviest` shows that every step is a step
  of `HeaviestChain` on `acked` or leaves it alone.

**Synchronisation** (`MedacSync_proofs`), for every tree, set of nodes and links, batch size and number of broken connections.

* `SyncInvariant`: every chain is valid; every frame under way is one its sender could have sent, so that no version or batch names more work than the sender
  has now. That part is what a reorganisation between sending and receiving could break, and does not, because a chain never loses work.
* `AnnouncementsAreReal`, `NodesFollowHeavierChains`, `SyncTypes`; `EveryNodeImplementsHeaviest` shows each node to implement the `HeaviestChain` that the persistent chain implements.

**The mempool** (`MedacMempool_proofs`), for any transactions, lists and chains of peers, and any number of frames in a tick.

* `MempoolInvariant`: none of the three properties is inductive, because a promise callback runs on a chain that moved after the check. The invariant speaks of the callbacks that wait:
  a transaction in the mempool or about to enter it has a nonce the chain has not used, or a callback that drops it comes later (`FreshOrDropped`); while nothing is exposed a submission waits at the head of the
  queue only, and alone it keeps the mempool executable (`AloneExecutable`); a running search is for this chain or a shorter one, a shorter one while a change of the chain waits (`SearchOK`).
* `MempoolStaysFresh`, `MempoolStaysExecutable` and `SearchNeverWasted` follow. They rest on what the code's loops compute: `_revalidateMempool` returns a list that can be mined whatever it is given
  (`RevalidatedExecutable`), and a list that can be mined fits in a block and has no nonce that is used (`ExecutableFresh`), so that `mine` selects an executable mempool whole.

**The peer table** (`MedacPeers_proofs`), for any seeds, sockets and capacity. `PeersInvariant` says which flags a socket may have together, who is listed under which id,
and what each seed has: a socket, a timer, a close event on its way, or a reconnection given up. `TableStaysExact`, `SeedsStayCovered`, `PeersTypes` follow.

**The C++ units** (`MedorUnits_proofs`, about `UnitsSpec` of `MedorUnits`, and `MedorStateUnits_proofs`, about `StateSpec` of `MedorStateUnits`). Each unit's invariant is shown to be
kept by its own steps; a step of another unit leaves its variables absent. What each invariant adds to the property:

| Theorem | Property | The inductive invariant adds |
|---|---|---|
| `KeyStaysWhole` | `KeyWhole` | what each call of a save has reached; the temporary name never leads to a file the path leads to |
| `BlocksStayWhole` | `BlocksWhole` | that the records have one value for each address, and who set it last, whatever the calls under way are about to write |
| `NobodyLockedOut` | `NeverLockedOut` | what the writes still to be done by a rotation, creation or revocation will do |
| `NeverLosesMoney` | `NeverLost` | what a selfdestruct has read; between its two puts what it moves is there twice |
| `SearchStaysExact` | `SearchIsExact` | one thread at most has won the exchange; each has tried its share up to where it is |
| `PoolsStopClean` | `StopsClean` | where every task is, also while a drain waits for the queue alone; that a flag set under the mutex is seen before the wait |
| `SocketsHaveOneHolder` | `OneHolder` | where a socket is held at each place of a request, an eviction or the janitor |
| `HandedOnOnce` | `OncePerWindow` | since when what was returned is remembered |
| `HostsStayLimited` | `PerIpLimit` | a thread that comes to connect has been counted, or is one of the two that may overshoot |
| `CallbacksReachedOnce` | `ReachesCallbackOnce` | which connections still carry a prefix that is remembered |
| `RateStaysHeld` | `RateHolds` | what was allowed of a key, against its bucket and the reading that filled it |
| `SeenNeverReplayed` | `NoReplay` | which of the accepted messages are in which bucket |
| `ZeroStaysBanned` | `NoneAtZero` | the same of the file, of what is about to be written to it, and what calls are still to be made |
| `LastJobAlwaysWins` | `LastJobWins` | where the last job of a hash is: behind every other one of it in batch and queue, or applied |
| `AcknowledgedAlwaysKept` | `AcknowledgedKept` | that every part of the log a power failure may leave gives contents callers may read |
| `AlwaysSpentOnce` | `SpentOnce` | whose bytes are still to be subtracted, on the stack of which thread |
| `CommittedAlwaysSurvive` | `CommittedSurvive` | that the block under way is stored, and in the chain before `addBlock` returns; that what was committed and is not in the chain was skipped |
| `OutputsAlwaysBacked` | `OutputsBacked` | what the outputs are worth without those of the block under way, and what that block may bring, sums that wrap included |
| `CreditsAreNeverLower` | `CreditsNeverLower` | that balances are numbers and the outputs of the block under way have values |

The longest argument is that of `OutputsAlwaysBacked` (`IssueInvariant`). A rollback takes away every outpoint of the block, also one that an earlier block put there, and
gives nothing back that was spent, so the outputs afterwards are not those before. The invariant therefore compares worths: `Backed` says that the outputs together are worth at most the supply, what sums have lost so far (`hidden`)
and what the turns so far of the block under way have brought (`Brought`: the reward with the first, and with each what its own sum loses, `Losses`); and that without the outpoints of the block they are worth at most the supply and `hidden`, which is what a rollback needs at any turn of `applyBlockToState`. Each turn spends before
it adds, and what it adds is worth no more than what it spends and what its sum loses, but for the first transaction, which is checked as a coinbase even when it is none (`BlockOK`: then
its sum is zero, since a block that is owed no reward may mint none). `TurnEffect` says what a turn does to worths and balances, from one lemma for a coinbase and one for a transaction that pays
on; `StoreKeeps` shows that what passes `validateTransactions` is such a block, for which the reward must not rise between the two readings of the clock (`NoneLater`).
TLC is offered a few transactions (`Offered`). The four theorems about the chain say the same of `AnySpec`, whose `addBlock` is given any list of any transactions, with any number of inputs and outputs; and of any rewards, cap and addresses.
The worth of what a transaction spends or pays is a fold over its list, which `AddAll` and `SpendAll` take apart with lemmas of `Totals`.

`SpentOnce` survives that `mu_` is given up half way because `Recheck` looks again at everything it claims; the nesting of `promoteOrphans` matters only for the bytes, of which
each thread may have one entry's left to subtract, and only at its innermost call (`StackOK`). `LastJobWins` rests on a batch that fails being put back before the queue, where it is older than every job there. The
fold over a batch or over the log is taken apart by lemmas of `Totals` (`FoldsIn`, `GoesThrough`, `FoldSteps`).

**Assumptions.** Every one is a named `ASSUME` that TLC evaluates on the instance of a run.

* From checks of the code: `ConfigAssumption` and `SupplyAssumption` (`parseConsensusConfig`), `AllocationAssumption` (the genesis balances add up, `createGenesisState`),
  `LedgerAssumption` and `MempoolAssumption` (lists are lists, blocks are blocks, addresses name accounts, nonces are natural numbers), `InitialRewardAssumption` (the search for the first reward returns a positive integer).
* Of the shape of the model: `TreeAssumption` (a block has more work than its parent, which `WorkAlwaysGrows` proves of the ledger), `SyncAssumption`, `ChainAssumption` of `MedacChain`, `StoreAssumption`, `MempoolAssumption` and `PersistAssumption` of `MedorStateUnits` (limits are numbers),
  `PeersAssumption`, `ScheduleAssumption` (powers of two are positive integers), and that names such as "no key" are no keys (`IdentityAssumption`, `KeysAssumption`, `ConnectionsAssumption`).
* Of the environment: `FaultModel` of `MedacChain_proofs`: no system call fails after the rename, and what dies is the machine. Without either part those theorems are false; TLC has the counterexamples named above.
* That no code checks, though the defaults meet them: `ChainConfigured` (amounts are numbers and the cap is one, addresses and keys of totals differ, and a reward schedule that has come to pay nothing pays nothing later: `blockchain.h:33`), `LimiterAssumption` (an idle bucket is swept no sooner than it is full, `IdleTimeout` against burst and rate), `PoolsAssumption` (a pool has at least one
  worker; a pool of none returns from its join at once and leaves its tasks), `PeersAssumption` of `MedorUnits` (scores and half a bucket are positive), `SubmitAssumption` (the clock is below 2^64), `RegistryAssumption`, `PowAssumption`.
* `EvmAssumption`: finitely many addresses, balances that are natural numbers.

**Only model-checked.** `CodecsInvert` is about recursive operators: what they compute for every input is out of the provers' reach.
`CatchesUp`, `StopCompletes` and `DeadPeersLeave` are liveness under fairness, beyond TLAPS. Every other property of a passing run is stated by a theorem.

## 5. What is left

Theorems worth proving next: that what `MedorAccounts` writes is what `MedorChain` takes for one step; that outputs are backed exactly as long as no sum of a block wraps, from a bound on the cap; and the parts of `BlockTree` that `MedacLedger` shows (links, growing work), as a refinement.

Not modelled:

* The persistence queue of the mempool together with the mempool: the two state spaces multiply beyond what a run can hold. Hence no
  property speaks of a Put that follows the Delete of its transaction.
* What `network.cpp` does with peers after the first one, which no process reaches; logging, metrics and alerts of all parts.
* Iterators, scans, snapshots and record checks of the databases, serialisation to JSON: they change no state.
* `p2p_node.cpp`, `sync_manager.cpp`, `evm/execute.cpp`: they include headers or call functions that are not in the repository. `deserializeBlock` is missing from `serialization.cpp`.
* The JavaScript services of MedorCoin. Of `utxo_set.cjs` it is known that it awaits between its check and its commit (`:64`), so that two blocks may spend
  one output; its transaction engine and mining services refer to files that are missing.
* Cryptography, wallets, fees (floating point), the EVM's interpreter (an external library), contracts, web pages, configuration.

## 6. Running

    tlc -config MCMedacChain.cfg MCMedacChain.tla
    tlc -config MCMedorUnits.cfg MCMedorUnits.tla
    tlapm MedacChain_proofs.tla
    tlapm --threads 2 MedorStateUnits_proofs.tla
