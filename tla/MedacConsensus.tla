--------------------------- MODULE MedacConsensus ---------------------------
(***************************************************************************)
(* The consensus rules of the MEDAC chain (src/medac_consensus.cjs): pure  *)
(* operators over a ledger state and a block, no variables.                *)
(*                                                                         *)
(* Abstractions.  Amounts, targets and work are small integers.  A block   *)
(* hash is the tuple of the fields the code hashes, so hashes do not        *)
(* collide; the number the digest spells is the field "pow" (the nonce     *)
(* that gives it is abstracted), which the proof of work compares with the *)
(* target.  A transaction carries the account "signer" its signature       *)
(* recovers to, and stands for its own id.                                 *)
(* Field syntax checks (hex, decimal strings, safe integers) are left out: *)
(* every value built here is well formed.                                  *)
(***************************************************************************)
EXTENDS Integers, SequencesExt

CONSTANTS
    Accounts,              \* the addresses
    GenesisAllocation,     \* GENESIS_ALLOCATIONS, as [Accounts -> Nat]
    GenesisHash,           \* getGenesisHash(config) of this network
    GenesisSupply,         \* GENESIS_SUPPLY
    TotalSupply,           \* TOTAL_SUPPLY, the cap
    HalvingInterval,       \* HALVING_INTERVAL
    InitialTarget,         \* config.initialTarget
    MaxTarget,             \* config.maxTarget
    TargetBlockTime,       \* config.targetBlockTime
    RetargetWindow,        \* config.retargetWindow
    RetargetFactor,        \* RETARGET_FACTOR
    HashSpace,             \* 2^256: hashes are 0 .. HashSpace - 1
    MaxFutureSeconds,      \* MAX_FUTURE_SECONDS
    MaxTransactionsPerBlock,
    MinTransactionFee,
    MaxHeight              \* Number.MAX_SAFE_INTEGER, the largest height

\* parseConsensusConfig refuses any other configuration.
ASSUME ConfigAssumption ==
    /\ InitialTarget \in 1..MaxTarget
    /\ MaxTarget \in Nat /\ HashSpace \in Nat /\ MaxTarget < HashSpace
    /\ TargetBlockTime \in Nat \ {0}
    /\ RetargetWindow \in Nat /\ RetargetWindow >= 2
    /\ RetargetFactor \in Nat \ {0}

ASSUME SupplyAssumption ==
    /\ GenesisSupply \in Nat /\ TotalSupply \in Nat
    /\ GenesisSupply < TotalSupply
    /\ GenesisAllocation \in [Accounts -> Nat]
    /\ MinTransactionFee \in Nat

ASSUME ScheduleAssumption ==
    /\ HalvingInterval \in Nat \ {0}
    /\ MaxHeight \in Nat \ {0}
    /\ \A halvings \in 0..((MaxHeight - 1) \div HalvingInterval) :
           2 ^ halvings \in Nat \ {0}

MiningReserve == TotalSupply - GenesisSupply

Total(f, S) == MapThenSumSet(LAMBDA x : f[x], S)

\* The addresses are finitely many, and the allocations add up.
ASSUME AllocationAssumption ==
    IsFiniteSet(Accounts) /\ Total(GenesisAllocation, Accounts) = GenesisSupply

-----------------------------------------------------------------------------
(* Issuance *)

\* What the halving schedule issues in all, when its first reward is r.
scheduledSupply[r \in Nat] ==
    IF r = 0 THEN 0 ELSE r * HalvingInterval + scheduledSupply[r \div 2]

\* The reward the binary search returns: the least positive one whose
\* schedule covers the mining reserve.
InitialBlockReward ==
    LET doubled[high \in Nat] ==
            IF scheduledSupply[high] < MiningReserve THEN doubled[2 * high] ELSE high
        search[low, high \in Nat] ==
            LET middle == (low + high) \div 2
            IN  IF low + 1 >= high THEN high
                ELSE IF scheduledSupply[middle] >= MiningReserve
                     THEN search[low, middle] ELSE search[middle, high]
    IN  search[0, doubled[(MiningReserve + 2 * HalvingInterval - 1)
                             \div (2 * HalvingInterval)]]

ASSUME InitialRewardAssumption == InitialBlockReward \in Nat \ {0}

\* Variant: the halvings are counted one block early.
RewardHalvedEarly(height, miningIssued) ==
    LET remaining == MiningReserve - miningIssued
        scheduled == InitialBlockReward \div (2 ^ (height \div HalvingInterval))
    IN  IF scheduled < remaining THEN scheduled ELSE remaining

\* Variant: the schedule is followed past the end of the reserve.
RewardUncapped(height, miningIssued) ==
    InitialBlockReward \div (2 ^ ((height - 1) \div HalvingInterval))

CalculateBlockReward(height, miningIssued) ==
    LET remaining == MiningReserve - miningIssued
        scheduled == InitialBlockReward \div (2 ^ ((height - 1) \div HalvingInterval))
    IN  IF scheduled < remaining THEN scheduled ELSE remaining

-----------------------------------------------------------------------------
(* Transactions *)

\* normalizeTransaction: range of amount and fee, signature by the sender.
WellFormedTransaction(tx) ==
    /\ tx.amount \in 1..TotalSupply
    /\ tx.fee \in MinTransactionFee..TotalSupply
    /\ tx.signer = tx.from

\* Variant: a nonce may be skipped.
AcceptsNonceGap(acc, tx) ==
    /\ WellFormedTransaction(tx)
    /\ tx.genesisHash = GenesisHash
    /\ tx \notin acc.seen
    /\ tx.nonce >= acc.nonces[tx.from]
    /\ acc.balances[tx.from] >= tx.amount + tx.fee

\* One turn of the loop of applyTransactions is accepted in context acc.
AcceptsTransaction(acc, tx) ==
    /\ WellFormedTransaction(tx)
    /\ tx.genesisHash = GenesisHash
    /\ tx \notin acc.seen
    /\ tx.nonce = acc.nonces[tx.from]
    /\ acc.balances[tx.from] >= tx.amount + tx.fee

\* Variant: the receiver's balance is read before the debit is written.
CreditFromOldBalance(acc, tx) ==
    IF ~acc.ok \/ ~AcceptsTransaction(acc, tx)
    THEN [acc EXCEPT !.ok = FALSE]
    ELSE [acc EXCEPT !.balances = [[acc.balances EXCEPT ![tx.from] = @ - tx.amount - tx.fee]
                                      EXCEPT ![tx.to] = acc.balances[tx.to] + tx.amount],
                     !.nonces[tx.from] = @ + 1,
                     !.totalFees = @ + tx.fee,
                     !.seen = @ \cup {tx}]

\* The debit is written before the receiver is read: from may equal to.
ApplyTransaction(acc, tx) ==
    LET debited == [acc.balances EXCEPT ![tx.from] = @ - tx.amount - tx.fee]
    IN  IF ~acc.ok \/ ~AcceptsTransaction(acc, tx)
        THEN [acc EXCEPT !.ok = FALSE]
        ELSE [acc EXCEPT !.balances = [debited EXCEPT ![tx.to] = @ + tx.amount],
                         !.nonces[tx.from] = @ + 1,
                         !.totalFees = @ + tx.fee,
                         !.seen = @ \cup {tx}]

\* ok is FALSE where the code throws.
ApplyTransactions(state, transactions) ==
    FoldLeft(ApplyTransaction,
             [ok |-> Len(transactions) <= MaxTransactionsPerBlock,
              balances |-> state.balances, nonces |-> state.nonces,
              totalFees |-> 0, seen |-> {}],
             transactions)

-----------------------------------------------------------------------------
(* Proof of work *)

\* Variant: work in proportion to the target.
WorkOfEasyTarget(target) == target \div HashSpace

BlockWork(target) == HashSpace \div (target + 1)

\* Variant: the ratio of planned to elapsed time the wrong way up, unbounded.
RetargetInverted(state, nextHeight, timestamp) ==
    LET span     == RetargetWindow - 1
        index    == Len(state.blocks) - span
        anchor   == IF index >= 0 THEN state.blocks[index + 1].timestamp ELSE 0
        scaled   == (state.target * span * TargetBlockTime) \div (timestamp - anchor)
    IN  CASE nextHeight % RetargetWindow # 0 -> state.target
          [] nextHeight % RetargetWindow = 0 /\ scaled < 1 -> 1
          [] nextHeight % RetargetWindow = 0 /\ scaled > MaxTarget -> MaxTarget
          [] OTHER -> scaled

\* The target of the block after the one at nextHeight with this timestamp.
CalculateNextTarget(state, nextHeight, timestamp) ==
    LET span     == RetargetWindow - 1
        index    == Len(state.blocks) - span
        anchor   == IF index >= 0 THEN state.blocks[index + 1].timestamp ELSE 0
        expected == span * TargetBlockTime
        elapsed  == IF timestamp - anchor > 1 THEN timestamp - anchor ELSE 1
        capped   == IF elapsed < expected * RetargetFactor
                    THEN elapsed ELSE expected * RetargetFactor
        bounded  == IF capped > expected \div RetargetFactor
                    THEN capped ELSE expected \div RetargetFactor
        scaled   == (state.target * bounded) \div expected
    IN  CASE nextHeight % RetargetWindow # 0 -> state.target
          [] nextHeight % RetargetWindow = 0 /\ scaled < 1 -> 1
          [] nextHeight % RetargetWindow = 0 /\ scaled > MaxTarget -> MaxTarget
          [] OTHER -> scaled

HashBlockHeader(block) ==
    <<block.height, block.previousHash, block.timestamp, block.pow,
      block.minerAddress, block.reward, block.target, block.transactions>>

\* The median of the last eleven timestamps, which increase along the chain.
MedianTimePast(state) ==
    LET count == IF state.height < 11 THEN state.height ELSE 11
    IN  state.blocks[state.height - count + 1 + (count \div 2)].timestamp

-----------------------------------------------------------------------------
(* Ledger states and blocks *)

CreateGenesisState ==
    [height |-> 0, tipHash |-> GenesisHash, timestamp |-> 0,
     target |-> InitialTarget, cumulativeWork |-> 0,
     totalSupply |-> GenesisSupply, balanceTotal |-> GenesisSupply,
     miningIssued |-> 0, balances |-> GenesisAllocation,
     nonces |-> [a \in Accounts |-> 0], blocks |-> <<>>]

\* Variant: the height is taken for the place in the chain.
ExtendsHeight(state, block) ==
    /\ block.height = state.height + 1
    /\ block.height <= MaxHeight

\* The block continues this chain.
ExtendsTip(state, block) ==
    /\ block.height = state.height + 1
    /\ block.height <= MaxHeight
    /\ block.previousHash = state.tipHash

\* The checks of applyMinedBlock, in its order; now is Date.now().  The last
\* one, assertValidState of the result, is left out: StateOK shows that it
\* never fires.
BlockAccepted(state, block, now) ==
    /\ ExtendsTip(state, block)
    /\ block.timestamp \in Int /\ block.timestamp > state.timestamp
    /\ block.timestamp <= now + MaxFutureSeconds
    /\ block.target = state.target
    /\ block.reward = CalculateBlockReward(block.height, state.miningIssued)
    /\ ApplyTransactions(state, block.transactions).ok
    /\ state.height > 0 => block.timestamp > MedianTimePast(state)
    /\ block.hash = HashBlockHeader(block)
    /\ block.pow <= block.target

\* The state applyMinedBlock returns for a block it accepts.
ApplyMinedBlock(state, block) ==
    LET applied == ApplyTransactions(state, block.transactions)
        supply  == state.totalSupply + block.reward
    IN  [height |-> block.height,
         tipHash |-> block.hash,
         timestamp |-> block.timestamp,
         target |-> CalculateNextTarget(state, block.height, block.timestamp),
         cumulativeWork |-> state.cumulativeWork + BlockWork(block.target),
         totalSupply |-> supply,
         balanceTotal |-> supply,
         miningIssued |-> state.miningIssued + block.reward,
         balances |-> [applied.balances EXCEPT
                          ![block.minerAddress] = @ + block.reward + applied.totalFees],
         nonces |-> applied.nonces,
         blocks |-> Append(state.blocks, block)]

\* prepareBlock and the hash mineBlock gives it, at a nonce whose hash is pow.
Rehashed(block) == [block EXCEPT !.hash = HashBlockHeader(block)]

PrepareBlock(state, miner, timestamp, transactions, pow) ==
    Rehashed([height |-> state.height + 1,
              previousHash |-> state.tipHash,
              timestamp |-> timestamp,
              pow |-> pow,
              minerAddress |-> miner,
              reward |-> CalculateBlockReward(state.height + 1, state.miningIssued),
              target |-> state.target,
              transactions |-> transactions,
              hash |-> GenesisHash])
=============================================================================
