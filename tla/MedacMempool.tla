---------------------------- MODULE MedacMempool ----------------------------
(***************************************************************************)
(* The mempool of one MEDAC node (src/medac_node.cjs) under its event      *)
(* loop.  submitTransaction, _receiveBlock and the adoption of a chain     *)
(* each check or change the chain at once and touch the mempool in a       *)
(* promise callback.  The frames of one read are handled one after another *)
(* before any callback runs; then the callbacks run in order, before the   *)
(* next event.                                                             *)
(*                                                                         *)
(* The chain is its blocks; the ledger they lead to is that of             *)
(* MedacConsensus, without the rewards, which go to an account that sends  *)
(* nothing here.  Every block is worth the same work.                      *)
(***************************************************************************)
EXTENDS MedacConsensus

CONSTANTS
    Transaction,          \* the well-formed transactions, whoever sends them
    PeerLists,            \* transaction lists of the blocks peers mine
    PeerChains,           \* chains peers offer
    FramesPerTick,        \* bound: frames one read delivers
    MaxBlocks,            \* bound: the longest chain mined
    None                  \* no search for a block is running

\* A block, as far as the mempool can tell: who mined it and what it holds.
MempoolBlock == [miner : {"own", "peer"}, transactions : Seq(Transaction)]

ASSUME MempoolAssumption ==
    /\ FramesPerTick \in Nat \ {0} /\ MaxBlocks \in Nat
    /\ MaxTransactionsPerBlock \in Nat
    /\ \A tx \in Transaction : tx.from \in Accounts /\ tx.nonce \in Nat
    /\ PeerLists \subseteq Seq(Transaction)
    /\ PeerChains \subseteq Seq(MempoolBlock)

VARIABLES
    chain,                \* this.chain.state.blocks: a Seq of blocks
    mempool,              \* this.mempool, in insertion order
    callbacks,            \* promise callbacks waiting, first to last
    draining,             \* the callbacks of this tick have begun to run
    mining,               \* the running search: its chain and transactions
    exposed               \* history: a submission was checked while a callback
                          \* waited, and the mempool has not been rechecked since

vars == <<chain, mempool, callbacks, draining, mining, exposed>>

Block(miner, transactions) == [miner |-> miner, transactions |-> transactions]

\* The ledger after the blocks of a chain; ok is FALSE if it is no valid chain.
ApplyNext(ledger, block) ==
    [ApplyTransactions(ledger, block.transactions) EXCEPT !.ok = @ /\ ledger.ok]

LedgerOf(blocks) == FoldLeft(ApplyNext, ApplyTransactions(CreateGenesisState, <<>>), blocks)

Executable(blocks, transactions) == ApplyTransactions(LedgerOf(blocks), transactions).ok

\* _revalidateMempool: the transactions that still apply, one after another.
Revalidated(blocks, transactions) ==
    FoldLeft(LAMBDA retained, tx :
                 IF Executable(blocks, Append(retained, tx)) THEN Append(retained, tx)
                 ELSE retained,
             <<>>, transactions)

\* mempool.delete of every transaction included.
Deleted(transactions, included) ==
    FoldLeft(LAMBDA kept, tx : IF tx \in ToSet(included) THEN kept ELSE Append(kept, tx),
             <<>>, transactions)

\* Variant: what was not included is kept unexamined.
OnlyWithoutIncluded(blocks, transactions, included) == Deleted(transactions, included)

\* _removeIncludedTransactions.
WithoutIncluded(blocks, transactions, included) ==
    Revalidated(blocks, Deleted(transactions, included))

Init ==
    /\ chain = <<>>
    /\ mempool = <<>>
    /\ callbacks = <<>>
    /\ draining = FALSE
    /\ mining = None
    /\ exposed = FALSE

-----------------------------------------------------------------------------
(* Frames and calls *)

AcceptsFrame == ~draining /\ Len(callbacks) < FramesPerTick

Queue(callback) == callbacks' = Append(callbacks, callback)

\* Variant: a transaction is checked by itself.
SubmitUnchecked(tx) ==
    /\ AcceptsFrame
    /\ tx \notin ToSet(mempool)
    /\ Executable(chain, <<tx>>)
    /\ Queue([kind |-> "submitted", transactions |-> <<tx>>])
    /\ exposed' = (exposed \/ callbacks # <<>>)
    /\ UNCHANGED <<chain, mempool, draining, mining>>

\* submitTransaction up to its await: the mempool is the one before the
\* submissions of this tick.
SubmitTransaction(tx) ==
    /\ AcceptsFrame
    /\ tx \notin ToSet(mempool)
    /\ Executable(chain, Append(mempool, tx))
    /\ Queue([kind |-> "submitted", transactions |-> <<tx>>])
    /\ exposed' = (exposed \/ callbacks # <<>>)
    /\ UNCHANGED <<chain, mempool, draining, mining>>

\* A peer's block extends the chain.
ReceiveBlock(transactions) ==
    /\ AcceptsFrame
    /\ Len(chain) < MaxBlocks
    /\ Executable(chain, transactions)
    /\ chain' = Append(chain, Block("peer", transactions))
    /\ Queue([kind |-> "included", transactions |-> transactions])
    /\ UNCHANGED <<mempool, draining, mining, exposed>>

\* considerChain adopts the last batch of a heavier chain.
ReceiveChain(candidate) ==
    /\ AcceptsFrame
    /\ Len(candidate) > Len(chain)
    /\ LedgerOf(candidate).ok
    /\ chain' = candidate
    /\ Queue([kind |-> "adopted", transactions |-> <<>>])
    /\ UNCHANGED <<mempool, draining, mining, exposed>>

-----------------------------------------------------------------------------
(* Callbacks *)

Waiting(kind) == \E i \in 2..Len(callbacks) : callbacks[i].kind = kind

\* The callback at the head of the queue runs.
RunCallback(kind) ==
    /\ callbacks # <<>>
    /\ Head(callbacks).kind = kind
    /\ callbacks' = Tail(callbacks)
    /\ draining' = (callbacks' # <<>>)
    /\ UNCHANGED <<chain, mining>>

\* mempool.set: a transaction already there keeps its place.
RunSubmitted ==
    /\ RunCallback("submitted")
    /\ LET tx == Head(callbacks).transactions[1]
       IN  mempool' = IF tx \in ToSet(mempool) THEN mempool ELSE Append(mempool, tx)
    /\ UNCHANGED exposed

RunIncluded ==
    /\ RunCallback("included")
    /\ mempool' = WithoutIncluded(chain, mempool, Head(callbacks).transactions)
    /\ exposed' = (exposed /\ Waiting("submitted"))

RunAdopted ==
    /\ RunCallback("adopted")
    /\ mempool' = Revalidated(chain, mempool)
    /\ exposed' = (exposed /\ Waiting("submitted"))

-----------------------------------------------------------------------------
(* Mining: a search runs in batches, each an event of its own; one search   *)
(* at a time.                                                               *)

\* Variant: the latest transactions first.
SelectedLatestFirst == Reverse(mempool)

Selected == SubSeq(mempool, 1, IF Len(mempool) < MaxTransactionsPerBlock
                               THEN Len(mempool) ELSE MaxTransactionsPerBlock)

BeginMining ==
    /\ callbacks = <<>> /\ mining = None
    /\ Len(chain) < MaxBlocks
    /\ mining' = [chain |-> chain, transactions |-> Selected]
    /\ UNCHANGED <<chain, mempool, callbacks, draining, exposed>>

\* A batch finds a block while the tip is the one the search began on.
MineFinds ==
    /\ callbacks = <<>> /\ mining # None
    /\ mining.chain = chain
    /\ Executable(chain, mining.transactions)
    /\ chain' = Append(chain, Block("own", mining.transactions))
    /\ mempool' = WithoutIncluded(chain', mempool, mining.transactions)
    /\ exposed' = FALSE
    /\ mining' = None
    /\ UNCHANGED <<callbacks, draining>>

\* shouldCancel, or applyMinedBlock refuses the block that was found.
MineThrows ==
    /\ callbacks = <<>> /\ mining # None
    /\ \/ mining.chain # chain
       \/ mining.chain = chain /\ ~Executable(chain, mining.transactions)
    /\ mining' = None
    /\ UNCHANGED <<chain, mempool, callbacks, draining, exposed>>

Next ==
    \/ \E tx \in Transaction : SubmitTransaction(tx)
    \/ \E transactions \in PeerLists : ReceiveBlock(transactions)
    \/ \E candidate \in PeerChains : ReceiveChain(candidate)
    \/ RunSubmitted \/ RunIncluded \/ RunAdopted
    \/ BeginMining \/ MineFinds \/ MineThrows

Spec == Init /\ [][Next]_vars

-----------------------------------------------------------------------------
(* Properties *)

TypeOK ==
    /\ ToSet(mempool) \subseteq Transaction
    /\ Len(callbacks) <= FramesPerTick
    /\ \A i \in DOMAIN callbacks : callbacks[i].kind \in {"submitted", "included", "adopted"}
    /\ draining => callbacks # <<>>
    /\ mining = None \/ ToSet(mining.transactions) \subseteq Transaction
    /\ exposed \in BOOLEAN

\* Between events no transaction waits that is on the chain already or was
\* displaced there by another with its nonce: however submissions, blocks and
\* reorganisations share a tick, the callback that inserts a transaction never
\* comes after the one that would have removed it.
MempoolFresh ==
    callbacks = <<>> =>
        \A tx \in ToSet(mempool) : tx.nonce >= LedgerOf(chain).nonces[tx.from]

\* Between events the whole mempool can be mined in one block, unless a
\* submission was checked against a mempool or beside a block of its own tick;
\* and the first block or reorganisation after that restores it.
MempoolExecutable ==
    callbacks = <<>> /\ ~exposed => Executable(chain, mempool)

\* A search that began on an executable mempool is thrown away only because
\* the tip moved.
SearchNotWasted ==
    [][mining # None /\ mining' = None /\ chain' = chain
        => mining.chain # chain \/ exposed]_vars
=============================================================================
