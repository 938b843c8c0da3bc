----------------------------- MODULE MedacLedger -----------------------------
(***************************************************************************)
(* The ledger a MEDAC node builds by applying blocks one at a time, live   *)
(* (MedacChain.appendBlock), in a replay or in a candidate chain: the      *)
(* state machine whose one step is applyMinedBlock of                      *)
(* src/medac_consensus.cjs.  A block the rules refuse changes nothing.     *)
(***************************************************************************)
EXTENDS MedacConsensus

CONSTANTS
    Miners,              \* the accounts that mine
    TimestampSteps,      \* how far a block's timestamp may be past the tip's
    Clocks,              \* values of Date.now() in seconds, not monotone
    TransactionLists,    \* the transaction lists blocks are tried with
    MaxBlocks            \* bound: the longest chain explored

ASSUME LedgerAssumption ==
    /\ Miners \subseteq Accounts
    /\ TimestampSteps \subseteq Int
    /\ Clocks \subseteq Nat
    /\ \A transactions \in TransactionLists :
           /\ Len(transactions) \in Nat /\ DOMAIN transactions = 1..Len(transactions)
           /\ \A i \in DOMAIN transactions :
                  transactions[i].from \in Accounts /\ transactions[i].to \in Accounts

VARIABLE state           \* the ledger state, as createGenesisState lays it out

vars == <<state>>

-----------------------------------------------------------------------------

Init == state = CreateGenesisState

\* A block as prepareBlock builds it, and blocks a peer may send instead:
\* each differs in one field, with the hash that belongs to it.
Offered(block) ==
    {block,
     [block EXCEPT !.hash = block.previousHash],
     Rehashed([block EXCEPT !.height = @ + 1]),
     Rehashed([block EXCEPT !.previousHash = GenesisHash]),
     Rehashed([block EXCEPT !.reward = @ + 1]),
     Rehashed([block EXCEPT !.target = @ + 1])}

\* The step: block passes every check and becomes the tip.
ApplyBlock(block, now) ==
    /\ state.height < MaxBlocks
    /\ BlockAccepted(state, block, now)
    /\ state' = ApplyMinedBlock(state, block)

Next ==
    \E miner \in Miners, step \in TimestampSteps, now \in Clocks,
       transactions \in TransactionLists, pow \in {state.target, state.target + 1} :
       \E block \in Offered(PrepareBlock(state, miner, state.timestamp + step,
                                         transactions, pow)) :
           ApplyBlock(block, now)

Spec == Init /\ [][Next]_vars

-----------------------------------------------------------------------------
(* Properties *)

\* What assertValidState checks of one state: supply and issuance add up and
\* stay under the cap, the target is one the configuration allows, the tip
\* fields are those of the last block.
StateOK ==
    /\ state.height \in 0..MaxHeight
    /\ state.height = Len(state.blocks)
    /\ state.miningIssued \in 0..MiningReserve
    /\ state.totalSupply = GenesisSupply + state.miningIssued
    /\ state.balanceTotal = state.totalSupply
    /\ state.totalSupply <= TotalSupply
    /\ state.target \in 1..MaxTarget
    /\ state.cumulativeWork \in Nat
    /\ state.timestamp \in Nat
    /\ state.height > 0 =>
           /\ state.tipHash = state.blocks[state.height].hash
           /\ state.timestamp = state.blocks[state.height].timestamp

\* The blocks form one chain from genesis: heights count up, each block names
\* its predecessor's hash, timestamps increase (the links applyMinedBlock
\* checks one block at a time).
ChainLinked ==
    \A i \in 1..Len(state.blocks) :
        /\ state.blocks[i].height = i
        /\ state.blocks[i].previousHash =
               IF i = 1 THEN GenesisHash ELSE state.blocks[i - 1].hash
        /\ \A j \in 1..(i - 1) : state.blocks[j].timestamp < state.blocks[i].timestamp

\* Every block adds work, so that a longer chain of valid blocks is always
\* heavier than its own prefix (what BlockTree assumes of its blocks).
WorkGrows == [][state'.cumulativeWork > state.cumulativeWork]_vars

\* No step makes or burns money: the balances add up to the supply.  The code
\* never adds them up: its balanceTotal is assigned from totalSupply.
Conservation == Total(state.balances, Accounts) = state.totalSupply

\* Where the transactions are: the block of the chain and the place in it.
Places ==
    UNION {{<<i, k>> : k \in DOMAIN state.blocks[i].transactions} : i \in DOMAIN state.blocks}
TxAt(p) == state.blocks[p[1]].transactions[p[2]]
Before(q, p) == q[1] < p[1] \/ (q[1] = p[1] /\ q[2] < p[2])

SentBy(a) == {p \in Places : TxAt(p).from = a}
ReceivedBy(a) == {p \in Places : TxAt(p).to = a}
Mined(a) == {i \in DOMAIN state.blocks : state.blocks[i].minerAddress = a}

\* The transactions of an account, over the whole chain and in order, carry
\* the nonces 0, 1, 2, ..., each once, and the next one is the account's.
NonceSequence ==
    /\ \A a \in Accounts : state.nonces[a] = Cardinality(SentBy(a))
    /\ \A p \in Places :
           TxAt(p).nonce = Cardinality({q \in SentBy(TxAt(p).from) : Before(q, p)})

\* What the transactions have brought an account: the fees of the blocks it
\* mined and what it received, less what it sent and paid in fees.
Flow(a) ==
    LET amount == [p \in Places |-> TxAt(p).amount]
        fee    == [p \in Places |-> TxAt(p).fee]
    IN  Total(fee, {p \in Places : p[1] \in Mined(a)}) + Total(amount, ReceivedBy(a))
        - Total(amount, SentBy(a)) - Total(fee, SentBy(a))

\* An account's balance is never overdrawn and is its allocation, the rewards
\* of the blocks it mined and what the transactions have brought it.
BalanceAudit ==
    LET reward == [i \in DOMAIN state.blocks |-> state.blocks[i].reward]
    IN  \A a \in Accounts :
            /\ state.balances[a] >= 0
            /\ state.balances[a] =
                   GenesisAllocation[a] + Total(reward, Mined(a)) + Flow(a)

\* The accounts are what the blocks say, and no transaction is replayed: the
\* nonce map and the balances, kept block by block, against the whole chain.
AccountsMatchBlocks == NonceSequence /\ BalanceAudit

\* Issuance follows the halving schedule whatever blocks were mined, and the
\* reserve is what stops it (calculateBlockReward).
IssuanceOnSchedule ==
    LET era(h) == (h - 1) \div HalvingInterval
        heights == 1..state.height
        scheduled == Total([h \in heights |-> InitialBlockReward \div (2 ^ era(h))], heights)
    IN  state.miningIssued = IF scheduled < MiningReserve THEN scheduled ELSE MiningReserve

\* Difficulty moves only at the end of a window, by at most the factor, and in
\* the right direction: a window faster than planned never eases the target
\* and a slower one never tightens it, short of the configured maximum.
RetargetStep ==
    LET window   == SubSeq(state'.blocks, state'.height - RetargetWindow + 1, state'.height)
        expected == (RetargetWindow - 1) * TargetBlockTime
        elapsed  == window[RetargetWindow].timestamp - window[1].timestamp
    IN  state'.target # state.target =>
            /\ state'.height % RetargetWindow = 0
            /\ state'.target <= RetargetFactor * state.target
            /\ elapsed <= expected => state'.target <= state.target
            /\ elapsed >= expected => state'.target >= state.target

RetargetBounded == [][RetargetStep]_vars
=============================================================================
