------------------------- MODULE MedacLedger_proofs -------------------------
(***************************************************************************)
(* What applyMinedBlock preserves, for every configuration, every list of  *)
(* transactions and every chain length: the links of the chain, the money, *)
(* and the accounts as the transactions of the blocks leave them.  Totals  *)
(* and folds are taken apart by induction over finite sets (Totals).       *)
(***************************************************************************)
EXTENDS MedacLedger, Totals

\* The inductive invariant: StateOK and ChainLinked need the type of the block
\* list, the tip of an empty chain and timestamps that compare.
BlockListOK == \E S : state.blocks \in Seq(S)

TipOK == state.height = 0 => state.tipHash = GenesisHash /\ state.timestamp = 0

TimestampsOK ==
    \A i \in 1..Len(state.blocks) : state.blocks[i].timestamp \in Nat

LedgerInv == StateOK /\ BlockListOK /\ TipOK /\ TimestampsOK /\ ChainLinked

-----------------------------------------------------------------------------
(* Arithmetic *)

\* Dividing by the same divisor keeps order.
LEMMA DivMonotone ==
    ASSUME NEW x \in Nat, NEW y \in Nat, NEW d \in Nat \ {0}, x <= y
    PROVE  x \div d <= y \div d /\ x \div d \in Nat
<1>1. x \div d \in Nat /\ y \div d \in Nat
    OBVIOUS
<1>2. d * (x \div d) <= x /\ y < d * ((y \div d) + 1)
    OBVIOUS
<1>3. d * (x \div d) < d * ((y \div d) + 1)
    BY <1>1, <1>2
<1>4. x \div d < (y \div d) + 1
    BY <1>1, <1>3
<1> QED
    BY <1>1, <1>4

\* A block never pays more than what is left of the reserve.
LEMMA RewardBounded ==
    ASSUME NEW height \in 1..MaxHeight, NEW issued \in 0..MiningReserve
    PROVE  CalculateBlockReward(height, issued) \in 0..(MiningReserve - issued)
<1> DEFINE halvings == (height - 1) \div HalvingInterval
<1>1. halvings \in 0..((MaxHeight - 1) \div HalvingInterval)
    BY DivMonotone, ScheduleAssumption
<1>2. 2 ^ halvings \in Nat \ {0}
    BY <1>1, ScheduleAssumption
<1> HIDE DEF halvings
<1>3. InitialBlockReward \div (2 ^ halvings) \in Nat
    BY <1>2, InitialRewardAssumption
<1>4. MiningReserve \in Nat
    BY SupplyAssumption DEF MiningReserve
<1> QED
    BY <1>3, <1>4 DEF CalculateBlockReward, halvings

\* The next target is in the configured range.
LEMMA TargetBounded ==
    ASSUME NEW s, s.target \in 1..MaxTarget, Len(s.blocks) \in Nat,
           \A i \in 1..Len(s.blocks) : s.blocks[i].timestamp \in Nat,
           NEW height \in Nat, NEW timestamp \in Nat
    PROVE  CalculateNextTarget(s, height, timestamp) \in 1..MaxTarget
<1> DEFINE length   == Len(s.blocks)
           span     == RetargetWindow - 1
           index    == length - span
           anchor   == IF index >= 0 THEN s.blocks[index + 1].timestamp ELSE 0
           expected == span * TargetBlockTime
           elapsed  == IF timestamp - anchor > 1 THEN timestamp - anchor ELSE 1
           capped   == IF elapsed < expected * RetargetFactor
                       THEN elapsed ELSE expected * RetargetFactor
           bounded  == IF capped > expected \div RetargetFactor
                       THEN capped ELSE expected \div RetargetFactor
           scaled   == (s.target * bounded) \div expected
<1>1. span \in Nat \ {0}
    BY ConfigAssumption
<1>2. anchor \in Nat
  <2>1. CASE index >= 0
      <3>1. length \in Nat
          OBVIOUS
      <3> HIDE DEF length, span
      <3>2. index + 1 \in 1..length
          BY <1>1, <2>1, <3>1
      <3> QED BY <2>1, <3>2 DEF length
  <2>2. CASE ~(index >= 0)
      BY <2>2
  <2> QED BY <2>1, <2>2
<1>3. expected \in Nat \ {0}
    BY <1>1, ConfigAssumption
<1> HIDE DEF length, span, index, anchor
<1>4. elapsed \in Nat
    BY <1>2
<1> HIDE DEF expected, elapsed
<1>5. expected * RetargetFactor \in Nat /\ expected \div RetargetFactor \in Nat
    BY <1>3, ConfigAssumption
<1>6. bounded \in Nat
    BY <1>4, <1>5
<1> HIDE DEF bounded
<1>7. s.target * bounded \in Nat
    BY <1>6
<1>8. scaled \in Int
    BY <1>3, <1>7
<1> HIDE DEF scaled
<1>9. CalculateNextTarget(s, height, timestamp) =
          CASE height % RetargetWindow # 0 -> s.target
            [] height % RetargetWindow = 0 /\ scaled < 1 -> 1
            [] height % RetargetWindow = 0 /\ scaled > MaxTarget -> MaxTarget
            [] OTHER -> scaled
    BY DEF CalculateNextTarget, length, span, index, anchor, expected, elapsed, bounded, scaled
<1> QED
    BY <1>8, <1>9, ConfigAssumption

\* Every block is worth some work.
LEMMA WorkPositive ==
    ASSUME NEW target \in 1..MaxTarget
    PROVE  BlockWork(target) \in Nat \ {0}
<1>1. target + 1 \in Nat \ {0} /\ target + 1 <= HashSpace /\ HashSpace \in Nat
    BY ConfigAssumption
<1>2. (target + 1) \div (target + 1) = 1
    BY <1>1
<1> QED
    BY <1>1, <1>2, DivMonotone DEF BlockWork

-----------------------------------------------------------------------------
(* Steps *)

\* What a step makes of the fields, the balances aside.
LEMMA StepFields ==
    ASSUME LedgerInv, NEW block, NEW now, ApplyBlock(block, now)
    PROVE  /\ block.height = state.height + 1 /\ block.height \in 1..MaxHeight
           /\ block.previousHash = state.tipHash
           /\ block.timestamp \in Nat /\ block.timestamp > state.timestamp
           /\ block.target = state.target
           /\ block.reward \in 0..(MiningReserve - state.miningIssued)
           /\ state'.height = block.height
           /\ state'.tipHash = block.hash
           /\ state'.timestamp = block.timestamp
           /\ state'.target = CalculateNextTarget(state, block.height, block.timestamp)
           /\ state'.cumulativeWork = state.cumulativeWork + BlockWork(block.target)
           /\ state'.totalSupply = state.totalSupply + block.reward
           /\ state'.balanceTotal = state'.totalSupply
           /\ state'.miningIssued = state.miningIssued + block.reward
           /\ state'.blocks = Append(state.blocks, block)
<1>1. BlockAccepted(state, block, now) /\ state' = ApplyMinedBlock(state, block)
    BY DEF ApplyBlock
<1>2. /\ state.height \in Nat /\ state.timestamp \in Nat
      /\ state.miningIssued \in 0..MiningReserve
    BY DEF LedgerInv, StateOK
<1>3. /\ block.height = state.height + 1 /\ block.height \in 1..MaxHeight
      /\ block.previousHash = state.tipHash
      /\ block.timestamp \in Nat /\ block.timestamp > state.timestamp
      /\ block.target = state.target
      /\ block.reward = CalculateBlockReward(block.height, state.miningIssued)
    BY <1>1, <1>2, ScheduleAssumption DEF BlockAccepted, ExtendsTip
<1>4. block.reward \in 0..(MiningReserve - state.miningIssued)
    BY <1>2, <1>3, RewardBounded
<1> QED
    BY <1>1, <1>3, <1>4 DEF ApplyMinedBlock

\* The list after a step: the old blocks in their places, the new one last.
LEMMA StepBlocks ==
    ASSUME LedgerInv, NEW block, NEW now, ApplyBlock(block, now)
    PROVE  /\ BlockListOK'
           /\ Len(state'.blocks) = state.height + 1
           /\ \A i \in 1..state.height : state'.blocks[i] = state.blocks[i]
           /\ state'.blocks[state.height + 1] = block
<1>1. PICK S : state.blocks \in Seq(S)
    BY DEF LedgerInv, BlockListOK
<1>2. state'.blocks = Append(state.blocks, block)
    BY StepFields
<1>3. state.height = Len(state.blocks) /\ state.height \in Nat
    BY DEF LedgerInv, StateOK
<1>4. state.blocks \in Seq(S \cup {block})
    BY <1>1
<1>5. state'.blocks \in Seq(S \cup {block})
    BY <1>2, <1>4
<1>6. BlockListOK'
    BY <1>5 DEF BlockListOK
<1> QED
    BY <1>2, <1>3, <1>4, <1>6

\* The invariant holds of the genesis state.
LEMMA LedgerInit == Init => LedgerInv
<1> SUFFICES ASSUME Init PROVE LedgerInv
    OBVIOUS
<1>1. /\ state.height = 0 /\ state.blocks = <<>> /\ state.miningIssued = 0
      /\ state.totalSupply = GenesisSupply /\ state.balanceTotal = GenesisSupply
      /\ state.target = InitialTarget /\ state.cumulativeWork = 0
      /\ state.timestamp = 0 /\ state.tipHash = GenesisHash
    BY DEF Init, CreateGenesisState
<1>2. StateOK
    BY <1>1, ConfigAssumption, SupplyAssumption, ScheduleAssumption
    DEF StateOK, MiningReserve
<1>3. BlockListOK
  <2>1. state.blocks \in Seq({})
      BY <1>1
  <2> QED BY <2>1 DEF BlockListOK
<1>4. TipOK /\ TimestampsOK /\ ChainLinked
    BY <1>1 DEF TipOK, TimestampsOK, ChainLinked
<1> QED
    BY <1>2, <1>3, <1>4 DEF LedgerInv

\* A block that is applied keeps the invariant.
LEMMA LedgerStep ==
    ASSUME LedgerInv, NEW block, NEW now, ApplyBlock(block, now)
    PROVE  LedgerInv'
<1>1. /\ state.height \in 0..MaxHeight /\ state.height = Len(state.blocks)
      /\ state.miningIssued \in 0..MiningReserve
      /\ state.totalSupply = GenesisSupply + state.miningIssued
      /\ state.target \in 1..MaxTarget
      /\ state.cumulativeWork \in Nat /\ state.timestamp \in Nat
      /\ state.height > 0 =>
            /\ state.tipHash = state.blocks[state.height].hash
            /\ state.timestamp = state.blocks[state.height].timestamp
    BY DEF LedgerInv, StateOK
<1>2. TipOK /\ TimestampsOK /\ ChainLinked
    BY DEF LedgerInv
<1>3. MaxHeight \in Nat /\ MiningReserve \in Nat
    BY ScheduleAssumption, SupplyAssumption DEF MiningReserve
<1>4. StateOK'
  <2>1. state'.height \in 0..MaxHeight /\ state'.height = Len(state'.blocks)
      BY <1>1, <1>3, StepFields, StepBlocks
  <2>2. /\ state'.miningIssued \in 0..MiningReserve
        /\ state'.totalSupply = GenesisSupply + state'.miningIssued
        /\ state'.balanceTotal = state'.totalSupply
        /\ state'.totalSupply <= TotalSupply
    <3>1. /\ block.reward \in 0..(MiningReserve - state.miningIssued)
          /\ state'.miningIssued = state.miningIssued + block.reward
          /\ state'.totalSupply = state.totalSupply + block.reward
          /\ state'.balanceTotal = state'.totalSupply
        BY StepFields
    <3>2. state'.miningIssued \in 0..MiningReserve
        BY <1>1, <1>3, <3>1
    <3>3. state'.totalSupply = GenesisSupply + state'.miningIssued
        BY <1>1, <1>3, <3>1, SupplyAssumption
    <3> QED BY <3>1, <3>2, <3>3, SupplyAssumption DEF MiningReserve
  <2>3. state'.target \in 1..MaxTarget
    <3>1. \A i \in 1..Len(state.blocks) : state.blocks[i].timestamp \in Nat
        BY <1>2 DEF TimestampsOK
    <3>2. /\ block.height \in Nat /\ block.timestamp \in Nat
          /\ state'.target = CalculateNextTarget(state, block.height, block.timestamp)
        BY <1>3, StepFields
    <3>3. Len(state.blocks) \in Nat
        BY <1>1, <1>3
    <3> QED BY <1>1, <3>1, <3>2, <3>3, TargetBounded
  <2>4. state'.cumulativeWork \in Nat
      BY <1>1, StepFields, WorkPositive
  <2>5. /\ state'.timestamp \in Nat
        /\ state'.tipHash = state'.blocks[state'.height].hash
        /\ state'.timestamp = state'.blocks[state'.height].timestamp
      BY StepFields, StepBlocks
  <2> QED
      BY <2>1, <2>2, <2>3, <2>4, <2>5 DEF StateOK
<1>5. BlockListOK'
    BY StepBlocks
<1>6. TipOK'
    BY <1>1, StepFields DEF TipOK
<1>7. TimestampsOK'
  <2> SUFFICES ASSUME NEW i \in 1..(state.height + 1)
               PROVE  state'.blocks[i].timestamp \in Nat
      BY StepBlocks DEF TimestampsOK
  <2>1. CASE i \in 1..state.height
      BY <1>1, <1>2, <2>1, StepBlocks DEF TimestampsOK
  <2>2. CASE i = state.height + 1
      BY <2>2, StepFields, StepBlocks
  <2> QED BY <1>1, <2>1, <2>2
<1>8. ChainLinked'
  <2> SUFFICES ASSUME NEW i \in 1..(state.height + 1)
               PROVE  /\ state'.blocks[i].height = i
                      /\ state'.blocks[i].previousHash =
                             IF i = 1 THEN GenesisHash ELSE state'.blocks[i - 1].hash
                      /\ \A j \in 1..(i - 1) :
                             state'.blocks[j].timestamp < state'.blocks[i].timestamp
      BY StepBlocks DEF ChainLinked
  <2>1. CASE i <= state.height
    <3>1. i \in 1..state.height /\ \A j \in 1..(i - 1) : j \in 1..state.height
        BY <1>1, <2>1
    <3>2. state'.blocks[i] = state.blocks[i]
        BY <3>1, StepBlocks
    <3>3. \A j \in 1..(i - 1) : state'.blocks[j] = state.blocks[j]
        BY <3>1, StepBlocks
    <3>4. i # 1 => i - 1 \in 1..(i - 1)
        BY <3>1
    <3> QED BY <1>1, <1>2, <3>1, <3>2, <3>3, <3>4 DEF ChainLinked
  <2>2. CASE i = state.height + 1
    <3>1. state'.blocks[i] = block
        BY <2>2, StepBlocks
    <3>2. block.previousHash = IF i = 1 THEN GenesisHash ELSE state'.blocks[i - 1].hash
        BY <1>1, <1>2, <2>2, StepFields, StepBlocks DEF TipOK
    <3>3. ASSUME NEW j \in 1..(i - 1)
          PROVE  state'.blocks[j].timestamp < block.timestamp
      <4>1. j \in 1..state.height /\ state.height > 0
          BY <1>1, <2>2
      <4>2. state.height \in 1..Len(state.blocks) /\ j \in 1..Len(state.blocks)
          BY <1>1, <4>1
      <4>3. /\ state.blocks[j].timestamp \in Nat
            /\ state.blocks[state.height].timestamp \in Nat
          BY <1>2, <4>2 DEF TimestampsOK
      <4>4. j # state.height => j \in 1..(state.height - 1)
          BY <1>1, <4>1
      <4>5. j # state.height =>
                state.blocks[j].timestamp < state.blocks[state.height].timestamp
          BY <1>2, <4>2, <4>4 DEF ChainLinked
      <4>6. state.blocks[j].timestamp <= state.timestamp
          BY <1>1, <4>1, <4>3, <4>5
      <4>7. state'.blocks[j] = state.blocks[j]
          BY <4>1, StepBlocks
      <4>8. block.timestamp \in Nat /\ block.timestamp > state.timestamp
          BY StepFields
      <4> QED BY <1>1, <4>3, <4>6, <4>7, <4>8
    <3> QED BY <2>2, <3>1, <3>2, <3>3, StepFields
  <2> QED BY <1>1, <2>1, <2>2
<1> QED
    BY <1>4, <1>5, <1>6, <1>7, <1>8 DEF LedgerInv

\* Every step applies one block.
LEMMA NextApplies ==
    Next => \E block, now : ApplyBlock(block, now)
BY DEF Next

-----------------------------------------------------------------------------
(* Theorems *)

\* LedgerInv is an invariant of the ledger.
THEOREM LedgerInvariant == Spec => []LedgerInv
<1>1. LedgerInv /\ [Next]_vars => LedgerInv'
  <2> SUFFICES ASSUME LedgerInv, [Next]_vars PROVE LedgerInv'
      OBVIOUS
  <2>1. CASE Next
      BY <2>1, NextApplies, LedgerStep
  <2>2. CASE UNCHANGED vars
      BY <2>2 DEF vars, LedgerInv, StateOK, BlockListOK, TipOK, TimestampsOK, ChainLinked
  <2> QED BY <2>1, <2>2
<1> QED
    BY LedgerInit, <1>1, PTL DEF Spec

\* Whatever blocks are applied, the state passes assertValidState's checks:
\* the cap on the supply holds and the target stays in range.
THEOREM StateStaysValid == Spec => []StateOK
<1>1. LedgerInv => StateOK
    BY DEF LedgerInv
<1> QED
    BY LedgerInvariant, <1>1, PTL

\* Whatever blocks are applied, they form one chain from genesis.
THEOREM ChainStaysLinked == Spec => []ChainLinked
<1>1. LedgerInv => ChainLinked
    BY DEF LedgerInv
<1> QED
    BY LedgerInvariant, <1>1, PTL

\* Every block adds work: TreeAssumption of BlockTree is true of real blocks.
THEOREM WorkAlwaysGrows == Spec => WorkGrows
<1>1. LedgerInv /\ [Next]_vars => [state'.cumulativeWork > state.cumulativeWork]_vars
  <2> SUFFICES ASSUME LedgerInv, Next
               PROVE  state'.cumulativeWork > state.cumulativeWork
      OBVIOUS
  <2>1. PICK block, now : ApplyBlock(block, now)
      BY NextApplies
  <2>2. state.cumulativeWork \in Nat /\ state.target \in 1..MaxTarget
      BY DEF LedgerInv, StateOK
  <2> QED BY <2>1, <2>2, StepFields, WorkPositive
<1> QED
    BY LedgerInvariant, <1>1, PTL DEF Spec, WorkGrows

-----------------------------------------------------------------------------
(* Difficulty *)

\* A share a / c of n, rounded down, that is at least 1 / k and at most k times
\* as much: what scaling the target by a time that is capped comes to.
LEMMA ScaledBounded ==
    ASSUME NEW n \in Nat, NEW a \in Nat, NEW c \in Nat \ {0}
    PROVE  /\ \A k \in Nat : a <= c * k => (n * a) \div c <= n * k
           /\ a <= c => (n * a) \div c <= n
           /\ a >= c => (n * a) \div c >= n
<1>1. PICK q : q = (n * a) \div c
    OBVIOUS
<1>2. q \in Int /\ c * q <= n * a /\ n * a < c * (q + 1)
    BY <1>1
<1>3. ASSUME NEW k \in Nat, a <= c * k PROVE q <= n * k
  <2>1. n * a <= n * (c * k)
      BY <1>3
  <2>2. n * (c * k) = c * (n * k) /\ n * k \in Nat
      OBVIOUS
  <2>3. c * q <= c * (n * k)
      BY <1>2, <2>1, <2>2
  <2> QED BY <1>2, <2>2, <2>3
<1>4. a <= c => q <= n
  <2>1. a <= c => a <= c * 1 /\ n * 1 = n
      OBVIOUS
  <2> QED BY <1>3, <2>1
<1>5. a >= c => q >= n
  <2>1. a >= c => n * a >= n * c /\ n * c = c * n
      OBVIOUS
  <2>2. a >= c => c * n < c * (q + 1)
      BY <1>2, <2>1
  <2>3. a >= c => n < q + 1
      BY <1>2, <2>2
  <2> QED BY <1>2, <2>3
<1> QED
    BY <1>1, <1>3, <1>4, <1>5

\* A multiple of the window is a window at least.
LEMMA WholeWindows ==
    ASSUME NEW n \in Nat \ {0}, NEW w \in Nat \ {0}, n % w = 0
    PROVE  n >= w
<1>1. n = w * (n \div w) + (n % w) /\ n \div w \in Int
    OBVIOUS
<1>2. PICK q : q = n \div w
    OBVIOUS
<1>3. n = w * q /\ q \in Int
    BY <1>1, <1>2
<1>4. q >= 1
  <2> SUFFICES ASSUME q <= 0 PROVE FALSE
      BY <1>3
  <2>1. w * q <= 0
      BY <1>3
  <2> QED BY <1>3, <2>1
<1>5. w * q >= w
    BY <1>3, <1>4
<1> QED BY <1>3, <1>5

\* What calculateNextTarget does to the target, if it changes it: only at the
\* end of a window, whose first timestamp is the anchor.
LEMMA NextTargetBounded ==
    ASSUME NEW s, s.target \in 1..MaxTarget, Len(s.blocks) \in Nat,
           NEW height \in Nat \ {0}, height = Len(s.blocks) + 1,
           NEW timestamp \in Nat, NEW anchor \in Nat,
           height >= RetargetWindow => anchor = s.blocks[height - RetargetWindow + 1].timestamp,
           timestamp > anchor,
           NEW target, target = CalculateNextTarget(s, height, timestamp), target # s.target
    PROVE  /\ height % RetargetWindow = 0 /\ height >= RetargetWindow
           /\ target <= RetargetFactor * s.target
           /\ timestamp - anchor <= (RetargetWindow - 1) * TargetBlockTime => target <= s.target
           /\ timestamp - anchor >= (RetargetWindow - 1) * TargetBlockTime => target >= s.target
<1> DEFINE expected == (RetargetWindow - 1) * TargetBlockTime
           elapsed  == timestamp - anchor
           capped   == IF elapsed < expected * RetargetFactor
                       THEN elapsed ELSE expected * RetargetFactor
           bounded  == IF capped > expected \div RetargetFactor
                       THEN capped ELSE expected \div RetargetFactor
           scaled   == (s.target * bounded) \div expected
<1>1. RetargetWindow - 1 \in Nat \ {0} /\ expected \in Nat \ {0}
  <2>1. RetargetWindow - 1 \in Nat \ {0}
      BY ConfigAssumption
  <2> QED BY <2>1, ConfigAssumption
<1>2. height % RetargetWindow = 0 => height >= RetargetWindow
  <2>1. RetargetWindow \in Nat \ {0}
      BY ConfigAssumption
  <2> QED BY <2>1, WholeWindows
<1>3. height >= RetargetWindow =>
          target = CASE height % RetargetWindow # 0 -> s.target
                     [] height % RetargetWindow = 0 /\ scaled < 1 -> 1
                     [] height % RetargetWindow = 0 /\ scaled > MaxTarget -> MaxTarget
                     [] OTHER -> scaled
  <2> SUFFICES ASSUME height >= RetargetWindow
               PROVE  target = CASE height % RetargetWindow # 0 -> s.target
                     [] height % RetargetWindow = 0 /\ scaled < 1 -> 1
                     [] height % RetargetWindow = 0 /\ scaled > MaxTarget -> MaxTarget
                     [] OTHER -> scaled
      OBVIOUS
  <2> DEFINE index == Len(s.blocks) - (RetargetWindow - 1)
  <2>1. index >= 0 /\ index + 1 = height - RetargetWindow + 1
      BY ConfigAssumption
  <2>2. anchor = IF index >= 0 THEN s.blocks[index + 1].timestamp ELSE 0
      BY <2>1
  <2>3. elapsed = IF timestamp - anchor > 1 THEN timestamp - anchor ELSE 1
      OBVIOUS
  <2> QED
      BY <2>2, <2>3 DEF CalculateNextTarget
<1> HIDE DEF scaled
<1>4. height % RetargetWindow = 0
    BY DEF CalculateNextTarget
<1>5. height % RetargetWindow = 0 /\ height >= RetargetWindow
    BY <1>2, <1>4
<1>6. elapsed \in Nat
    OBVIOUS
<1> HIDE DEF expected, elapsed
<1>7. /\ expected \div RetargetFactor \in Nat /\ expected * RetargetFactor \in Nat
      /\ expected \div RetargetFactor <= expected /\ expected <= expected * RetargetFactor
  <2>1. RetargetFactor \in Nat \ {0}
      BY ConfigAssumption
  <2>2. expected <= expected * RetargetFactor /\ expected * RetargetFactor \in Nat
      BY <1>1, <2>1
  <2>3. PICK q : q = expected \div RetargetFactor
      OBVIOUS
  <2>4. q \in Nat /\ RetargetFactor * q <= expected
      BY <1>1, <2>1, <2>3
  <2>5. q <= RetargetFactor * q /\ RetargetFactor * q \in Nat
      BY <2>1, <2>4
  <2>6. q <= expected
      BY <1>1, <2>4, <2>5
  <2> QED BY <2>2, <2>3, <2>4, <2>6
<1>8. /\ bounded \in Nat /\ bounded <= expected * RetargetFactor
      /\ elapsed <= expected => bounded <= expected
      /\ elapsed >= expected => bounded >= expected
    BY <1>1, <1>6, <1>7
<1> HIDE DEF bounded
<1>9. /\ scaled <= s.target * RetargetFactor
      /\ bounded <= expected => scaled <= s.target
      /\ bounded >= expected => scaled >= s.target
  <2>1. s.target \in Nat /\ RetargetFactor \in Nat
      BY ConfigAssumption
  <2> QED BY <1>1, <1>8, <2>1, ScaledBounded DEF scaled
<1>10. scaled \in Int /\ s.target * RetargetFactor \in Nat
       /\ s.target * RetargetFactor = RetargetFactor * s.target
       /\ s.target <= s.target * RetargetFactor
  <2>1. s.target * bounded \in Nat
      BY <1>8
  <2>2. scaled \in Int
      BY <1>1, <2>1 DEF scaled
  <2> QED BY <2>2, ConfigAssumption
<1>11. /\ scaled < 1 => target = 1
       /\ ~(scaled < 1) /\ scaled > MaxTarget => target = MaxTarget
       /\ ~(scaled < 1) /\ ~(scaled > MaxTarget) => target = scaled
  <2>1. target = IF scaled < 1 THEN 1 ELSE IF scaled > MaxTarget THEN MaxTarget ELSE scaled
    <3>1. scaled < 1 => ~(scaled > MaxTarget)
        BY <1>10, ConfigAssumption
    <3> QED BY <1>3, <1>5, <3>1
  <2> QED BY <2>1
<1>12. /\ target <= RetargetFactor * s.target
       /\ elapsed <= expected => target <= s.target
       /\ elapsed >= expected => target >= s.target
  <2>1. PICK p : p = s.target * RetargetFactor
      OBVIOUS
  <2>2. PICK z : z = s.target
      OBVIOUS
  <2>3. PICK x : x = scaled
      OBVIOUS
  <2>4. /\ p \in Nat /\ z \in 1..MaxTarget /\ x \in Int /\ MaxTarget \in Nat /\ z <= p
        /\ p = RetargetFactor * s.target
      BY <1>10, <2>1, <2>2, <2>3, ConfigAssumption
  <2>5. x <= p
      BY <1>9, <1>10, <2>1, <2>3, <2>4
  <2>6. /\ elapsed <= expected => x <= z
        /\ elapsed >= expected => x >= z
      BY <1>1, <1>6, <1>8, <1>9, <1>10, <2>2, <2>3, <2>4
  <2>7. /\ x < 1 => target = 1
        /\ ~(x < 1) /\ x > MaxTarget => target = MaxTarget
        /\ ~(x < 1) /\ ~(x > MaxTarget) => target = x
      BY <1>10, <1>11, <2>3, <2>4
  <2>8. target <= p /\ (x <= z => target <= z) /\ (x >= z => target >= z)
      BY <2>4, <2>5, <2>7
  <2> QED BY <2>2, <2>4, <2>6, <2>8
<1> QED
    BY <1>5, <1>12 DEF elapsed, expected

\* Whatever the timestamps, the difficulty moves at the end of a window only,
\* by the factor at most, and never against the time the window took.
THEOREM DifficultyMovesRight == Spec => RetargetBounded
<1>1. LedgerInv /\ [Next]_vars => [RetargetStep]_vars
  <2> SUFFICES ASSUME LedgerInv, Next PROVE RetargetStep
      OBVIOUS
  <2>1. PICK block, now : ApplyBlock(block, now)
      BY NextApplies
  <2>2. LedgerInv' /\ state'.height = state.height + 1 /\ state.height \in Nat
        /\ state.height = Len(state.blocks) /\ state.target \in 1..MaxTarget
        /\ state'.target = CalculateNextTarget(state, state'.height, block.timestamp)
        /\ block.timestamp \in Nat
      BY <2>1, LedgerStep, StepFields DEF LedgerInv, StateOK
  <2>3. PICK h, c, S : h = state'.height /\ c = state'.blocks /\ c \in Seq(S) /\ Len(c) = h
        /\ c[h] = block /\ \A i \in 1..state.height : c[i] = state.blocks[i]
      BY <2>1, <2>2, StepBlocks DEF BlockListOK
  <2>4. /\ \A i \in 1..h : c[i].timestamp \in Nat
        /\ \A i \in 1..h, j \in 1..h : j < i => c[j].timestamp < c[i].timestamp
    <3>1. /\ \A i \in 1..Len(c) : c[i].timestamp \in Nat
          /\ \A i \in 1..Len(c) : \A j \in 1..(i - 1) : c[j].timestamp < c[i].timestamp
        BY <2>2, <2>3 DEF LedgerInv, TimestampsOK, ChainLinked
    <3>2. \A i \in 1..h, j \in 1..h : j < i => j \in 1..(i - 1)
        BY <2>2, <2>3
    <3> QED BY <2>3, <3>1, <3>2
  <2> SUFFICES ASSUME state'.target # state.target PROVE RetargetStep
      BY DEF RetargetStep
  <2> DEFINE first == h - RetargetWindow + 1
             anchor == IF h >= RetargetWindow THEN c[first].timestamp ELSE 0
             window == SubSeq(c, first, h)
  <2>5. h \in Nat \ {0} /\ h = Len(state.blocks) + 1
      BY <2>2, <2>3
  <2>6. h >= RetargetWindow
    <3>1. h % RetargetWindow = 0
        BY <2>2, <2>3 DEF CalculateNextTarget
    <3>2. RetargetWindow \in Nat \ {0}
        BY ConfigAssumption
    <3> QED BY <2>5, <3>1, <3>2, WholeWindows
  <2>7. /\ first \in 1..state.height /\ first \in 1..h /\ h \in 1..h /\ first < h
        /\ c[first] = state.blocks[first]
        /\ anchor \in Nat /\ anchor = c[first].timestamp /\ block.timestamp > anchor
    <3>1. first \in 1..state.height /\ first \in 1..h /\ h \in 1..h /\ first < h
        BY <2>2, <2>5, <2>6, ConfigAssumption
    <3>2. anchor = c[first].timestamp
        BY <2>6
    <3> HIDE DEF first, anchor
    <3> QED BY <2>3, <2>4, <3>1, <3>2
  <2>8. window[1] = c[first] /\ window[RetargetWindow] = c[h]
    <3>1. RetargetWindow \in 1..(h - first + 1) /\ 1 \in 1..(h - first + 1)
          /\ first + RetargetWindow - 1 = h /\ first + 1 - 1 = first
        BY <2>5, <2>6, ConfigAssumption
    <3>2. first \in 1..Len(c) /\ h \in 1..Len(c) /\ c \in Seq(S)
        BY <2>3, <2>7
    <3> HIDE DEF first
    <3>3. \A i \in 1..(h - first + 1) : window[i] = c[first + i - 1]
        BY <3>2
    <3> HIDE DEF window
    <3> QED BY <3>1, <3>3
  <2> HIDE DEF first, window
  <2>9. /\ h % RetargetWindow = 0
        /\ state'.target <= RetargetFactor * state.target
        /\ block.timestamp - anchor <= (RetargetWindow - 1) * TargetBlockTime
              => state'.target <= state.target
        /\ block.timestamp - anchor >= (RetargetWindow - 1) * TargetBlockTime
              => state'.target >= state.target
    <3>1. anchor = state.blocks[h - RetargetWindow + 1].timestamp
        BY <2>7 DEF first
    <3>2. PICK s, t, u : s = state /\ t = state'.target /\ u = block.timestamp
        OBVIOUS
    <3>3. PICK a : a = anchor
        OBVIOUS
    <3>4. /\ s.target \in 1..MaxTarget /\ Len(s.blocks) \in Nat
          /\ h \in Nat \ {0} /\ h = Len(s.blocks) + 1
          /\ u \in Nat /\ a \in Nat /\ u > a
          /\ a = s.blocks[h - RetargetWindow + 1].timestamp
          /\ t = CalculateNextTarget(s, h, u) /\ t # s.target
        BY <2>2, <2>3, <2>5, <2>6, <2>7, <3>1, <3>2, <3>3
    <3> HIDE DEF anchor
    <3>5. /\ h % RetargetWindow = 0
          /\ t <= RetargetFactor * s.target
          /\ u - a <= (RetargetWindow - 1) * TargetBlockTime => t <= s.target
          /\ u - a >= (RetargetWindow - 1) * TargetBlockTime => t >= s.target
        BY <3>4, NextTargetBounded
    <3> QED BY <3>2, <3>3, <3>5
  <2> QED
      BY <2>3, <2>7, <2>8, <2>9 DEF RetargetStep, window, first
<1> QED
    BY LedgerInvariant, <1>1, PTL DEF Spec, RetargetBounded

-----------------------------------------------------------------------------
(* The transactions of a block, one after the other *)

\* it applies the transactions at the indexes of s, for s of at most n of them.
AppliesUp(it, base, txs, n) ==
    it = [s \in Small(DOMAIN txs, n) |->
             IF s = {} THEN base ELSE ApplyTransaction(it[s \ {Max(s)}], txs[Max(s)])]

\* There is such a function for every list.
LEMMA AppliesUpExists ==
    ASSUME NEW txs, DOMAIN txs \subseteq Int, IsFiniteSet(DOMAIN txs), NEW base, NEW n \in Nat
    PROVE  \E it : AppliesUp(it, base, txs, n)
<1> DEFINE S == DOMAIN txs
           Q == {m \in Nat : \E it : AppliesUp(it, base, txs, m)}
<1>0. \A s \in SUBSET S : IsFiniteSet(s) /\ Cardinality(s) \in Nat /\ (s # {} => Max(s) \in s)
    BY FS_Subset, FS_CardinalityType, MaxIn
<1>1. 0 \in Q
  <2>1. ASSUME NEW s \in Small(S, 0) PROVE s = {}
      BY <1>0, FS_EmptySet DEF Small
  <2>2. PICK it : it = [s \in Small(S, 0) |-> base]
      OBVIOUS
  <2>3. AppliesUp(it, base, txs, 0)
      BY <2>1, <2>2 DEF AppliesUp
  <2> QED BY <2>3
<1>2. ASSUME NEW m \in Q PROVE m + 1 \in Q
  <2>1. PICK old : AppliesUp(old, base, txs, m)
      OBVIOUS
  <2> DEFINE Value(s, g) == IF s = {} THEN base
                            ELSE ApplyTransaction(g[s \ {Max(s)}], txs[Max(s)])
  <2>2. PICK it : it = [s \in Small(S, m + 1) |-> Value(s, old)]
      OBVIOUS
  <2>3. /\ \A s \in Small(S, m) : s \in Small(S, m + 1)
        /\ \A s \in Small(S, m + 1) : s # {} => s \ {Max(s)} \in Small(S, m)
    <3>1. ASSUME NEW s \in Small(S, m + 1), s # {} PROVE s \ {Max(s)} \in Small(S, m)
      <4>1. Max(s) \in s /\ s \in SUBSET S
          BY <1>0, <3>1 DEF Small
      <4>2. PICK x : x = Max(s)
          OBVIOUS
      <4>3. Cardinality(s \ {x}) = Cardinality(s) - 1 /\ s \ {x} \in SUBSET S
            /\ Cardinality(s) \in Nat
          BY <4>1, <4>2, OneLess
      <4> QED BY <4>2, <4>3 DEF Small
    <3> QED BY <1>0, <3>1 DEF Small
  <2>4. \A s \in Small(S, m) : it[s] = old[s]
      BY <2>1, <2>2, <2>3 DEF AppliesUp
  <2>5. \A s \in Small(S, m + 1) : Value(s, old) = Value(s, it)
      BY <2>3, <2>4
  <2>6. it = [s \in Small(S, m + 1) |-> Value(s, it)]
    <3> HIDE DEF Value
    <3>1. DOMAIN it = Small(S, m + 1) /\ \A s \in Small(S, m + 1) : it[s] = Value(s, old)
        BY <2>2
    <3>2. it = [s \in Small(S, m + 1) |-> it[s]]
        BY <2>2
    <3> QED BY <2>5, <3>1, <3>2
  <2>7. AppliesUp(it, base, txs, m + 1)
      BY <2>6 DEF AppliesUp
  <2> QED BY <2>7
<1> HIDE DEF Q
<1>3. Q = Nat
  <2>1. Q \subseteq Nat
      BY DEF Q
  <2> QED BY <1>1, <1>2, <2>1, NatSet
<1> QED BY <1>3 DEF Q

\* What each transaction keeps, the transactions of a block keep.
LEMMA TransactionsKeep ==
    ASSUME NEW txs, DOMAIN txs \subseteq Int, IsFiniteSet(DOMAIN txs), NEW Good, NEW base \in Good,
           \A acc \in Good, i \in DOMAIN txs : ApplyTransaction(acc, txs[i]) \in Good
    PROVE  FoldLeft(ApplyTransaction, base, txs) \in Good
<1> DEFINE S == DOMAIN txs
           Applies(it) == it = [s \in SUBSET S |-> IF s = {} THEN base
                                  ELSE ApplyTransaction(it[s \ {Max(s)}], txs[Max(s)])]
<1>1. \A s \in SUBSET S : s # {} => Max(s) \in s /\ s \ {Max(s)} \in (SUBSET s) \ {s}
    BY FS_Subset, MaxIn
<1>2. Small(S, Cardinality(S)) = SUBSET S
    BY FS_Subset DEF Small
<1>3. PICK some : AppliesUp(some, base, txs, Cardinality(S))
    BY AppliesUpExists, FS_CardinalityType
<1>4. Applies(some)
    BY <1>2, <1>3 DEF AppliesUp
<1>5. PICK it : it = CHOOSE g : Applies(g)
    OBVIOUS
<1>6. Applies(it)
  <2> HIDE DEF Applies
  <2> QED BY <1>4, <1>5
<1> DEFINE G == {s \in SUBSET S : it[s] \in Good}
<1>7. ASSUME NEW s \in SUBSET S, \A t \in (SUBSET s) \ {s} : t \in G PROVE s \in G
  <2>1. CASE s = {}
      BY <1>6, <2>1
  <2>2. CASE s # {}
    <3>1. PICK i : i = Max(s)
        OBVIOUS
    <3>2. i \in S /\ it[s \ {i}] \in Good
        BY <1>1, <1>7, <2>2, <3>1
    <3>3. it[s] = ApplyTransaction(it[s \ {i}], txs[i])
        BY <1>6, <2>2, <3>1
    <3> QED BY <3>2, <3>3
  <2> QED BY <2>1, <2>2
<1>8. it[S] \in Good
  <2> HIDE DEF G
  <2>1. SUBSET S \subseteq G
      BY <1>7, SubsetInduction
  <2> QED BY <2>1 DEF G
<1>9. FoldLeft(ApplyTransaction, base, txs) = it[S]
    BY <1>5 DEF FoldLeft, MapThenFoldSet
<1> QED BY <1>8, <1>9

-----------------------------------------------------------------------------
(* Money *)

\* The ledger's totals are those of Totals.
LEMMA LedgerTotal == \A f, S : Total(f, S) = TotalOf(f, S)
BY DEF Total, TotalOf

\* What applyTransactions has made of the accounts, the money they hold and
\* the fees it has taken from them.
Context(txs) == [ok: BOOLEAN, balances: [Accounts -> Nat], nonces: [Accounts -> Nat],
                 totalFees: Nat, seen: SUBSET {txs[i] : i \in DOMAIN txs}]

Money(acc) == Total(acc.balances, Accounts) + acc.totalFees

\* One transaction moves money between accounts and to the fees, and
\* overdraws nobody.
LEMMA TransactionMoves ==
    ASSUME NEW txs, NEW acc \in Context(txs), NEW i \in DOMAIN txs,
           txs[i].from \in Accounts, txs[i].to \in Accounts
    PROVE  /\ ApplyTransaction(acc, txs[i]) \in Context(txs)
           /\ Money(ApplyTransaction(acc, txs[i])) = Money(acc)
<1>1. PICK tx, next : tx = txs[i] /\ next = ApplyTransaction(acc, tx)
    OBVIOUS
<1>2. /\ acc.balances \in [Accounts -> Nat] /\ acc.nonces \in [Accounts -> Nat]
      /\ acc.totalFees \in Nat /\ acc.seen \in SUBSET {txs[j] : j \in DOMAIN txs}
      /\ acc = [ok |-> acc.ok, balances |-> acc.balances, nonces |-> acc.nonces,
                totalFees |-> acc.totalFees, seen |-> acc.seen]
    BY DEF Context
<1>3. CASE next = [acc EXCEPT !.ok = FALSE]
  <2>1. /\ next.balances = acc.balances /\ next.totalFees = acc.totalFees
        /\ next \in Context(txs)
      BY <1>3 DEF Context
  <2> QED BY <1>1, <2>1 DEF Money
<1>4. CASE AcceptsTransaction(acc, tx) /\ next # [acc EXCEPT !.ok = FALSE]
  <2>1. PICK b, debited, credited :
            /\ b = acc.balances
            /\ debited = [b EXCEPT ![tx.from] = @ - tx.amount - tx.fee]
            /\ credited = [debited EXCEPT ![tx.to] = @ + tx.amount]
      OBVIOUS
  <2>2. /\ next = [acc EXCEPT !.balances = credited, !.nonces[tx.from] = @ + 1,
                              !.totalFees = @ + tx.fee, !.seen = @ \cup {tx}]
      BY <1>1, <1>4, <2>1 DEF ApplyTransaction
  <2>3. /\ tx.amount \in Nat /\ tx.fee \in Int /\ b[tx.from] >= tx.amount + tx.fee
        /\ tx.from \in Accounts /\ tx.to \in Accounts /\ b \in [Accounts -> Nat]
        /\ tx.fee \in Nat
      BY <1>1, <1>2, <1>4, <2>1, SupplyAssumption
         DEF AcceptsTransaction, WellFormedTransaction
  <2>4. PICK d, c : /\ d = b[tx.from] - tx.amount - tx.fee
                    /\ c = debited[tx.to] + tx.amount
      OBVIOUS
  <2>5. d \in Nat /\ debited = [b EXCEPT ![tx.from] = d] /\ debited \in [Accounts -> Nat]
      BY <2>1, <2>3, <2>4
  <2>6. c \in Nat /\ credited = [debited EXCEPT ![tx.to] = c] /\ credited \in [Accounts -> Nat]
      BY <2>1, <2>3, <2>4, <2>5
  <2>7. PICK t, u, v : /\ t = Total(b, Accounts) /\ u = Total(debited, Accounts)
                       /\ v = Total(credited, Accounts)
      OBVIOUS
  <2>8. t \in Int /\ u = t - b[tx.from] + d
    <3>1. /\ \A a \in Accounts : b[a] \in Int
          /\ debited[tx.from] = d /\ d \in Int /\ tx.from \in Accounts
          /\ \A a \in Accounts \ {tx.from} : debited[a] = b[a]
          /\ IsFiniteSet(Accounts)
        BY <2>3, <2>5, AllocationAssumption
    <3> QED BY <2>7, <3>1, TotalExcept, LedgerTotal
  <2>9. u \in Int /\ v = u - debited[tx.to] + c
    <3>1. /\ \A a \in Accounts : debited[a] \in Int
          /\ credited[tx.to] = c /\ c \in Int /\ tx.to \in Accounts
          /\ \A a \in Accounts \ {tx.to} : credited[a] = debited[a]
          /\ IsFiniteSet(Accounts)
        BY <2>3, <2>5, <2>6, AllocationAssumption
    <3> QED BY <2>7, <3>1, TotalExcept, LedgerTotal
  <2>10. v = t - tx.fee
      BY <2>3, <2>4, <2>5, <2>8, <2>9
  <2>11. /\ next.balances = credited /\ next.totalFees = acc.totalFees + tx.fee
         /\ next \in Context(txs)
    <3>1. next = [ok |-> acc.ok, balances |-> credited,
                  nonces |-> [acc.nonces EXCEPT ![tx.from] = @ + 1],
                  totalFees |-> acc.totalFees + tx.fee, seen |-> acc.seen \cup {tx}]
        BY <1>2, <2>2
    <3>2. /\ [acc.nonces EXCEPT ![tx.from] = @ + 1] \in [Accounts -> Nat]
          /\ acc.totalFees + tx.fee \in Nat
          /\ acc.seen \cup {tx} \in SUBSET {txs[j] : j \in DOMAIN txs}
          /\ acc.ok \in BOOLEAN
        BY <1>1, <1>2, <2>3 DEF Context
    <3> QED BY <2>6, <3>1, <3>2 DEF Context
  <2> QED BY <1>1, <1>2, <2>1, <2>3, <2>7, <2>8, <2>10, <2>11 DEF Money
<1> QED BY <1>1, <1>3, <1>4 DEF ApplyTransaction

\* So does a block of them.
LEMMA TransactionsMove ==
    ASSUME NEW s, s.balances \in [Accounts -> Nat], s.nonces \in [Accounts -> Nat],
           NEW txs, Len(txs) \in Nat, DOMAIN txs = 1..Len(txs),
           \A i \in DOMAIN txs : txs[i].from \in Accounts /\ txs[i].to \in Accounts
    PROVE  /\ ApplyTransactions(s, txs) \in Context(txs)
           /\ Money(ApplyTransactions(s, txs)) = Total(s.balances, Accounts)
<1> DEFINE base == [ok |-> Len(txs) <= MaxTransactionsPerBlock,
                    balances |-> s.balances, nonces |-> s.nonces,
                    totalFees |-> 0, seen |-> {}]
           Good == {acc \in Context(txs) : Money(acc) = Total(s.balances, Accounts)}
<1>1. base \in Good
  <2>1. Total(s.balances, Accounts) \in Int
      BY AllocationAssumption, TotalWithout, LedgerTotal
  <2> QED BY <2>1 DEF Context, Money
<1>2. \A acc \in Good, i \in DOMAIN txs : ApplyTransaction(acc, txs[i]) \in Good
    BY TransactionMoves
<1>3. DOMAIN txs \subseteq Int /\ IsFiniteSet(DOMAIN txs)
    BY FS_Interval
<1>4. FoldLeft(ApplyTransaction, base, txs) \in Good
  <2> HIDE DEF base, Good
  <2> QED BY <1>1, <1>2, <1>3, TransactionsKeep
<1> QED BY <1>4 DEF ApplyTransactions

\* Money is where it was, what is issued follows the schedule, and no account
\* is overdrawn.
MoneyInv ==
    /\ LedgerInv
    /\ state.balances \in [Accounts -> Nat] /\ state.nonces \in [Accounts -> Nat]
    /\ Conservation /\ IssuanceOnSchedule

\* A block that is offered is mined by an account, with one of the lists.
LEMMA NextOffered ==
    Next => \E block, now : /\ ApplyBlock(block, now)
                            /\ block.minerAddress \in Accounts
                            /\ block.transactions \in TransactionLists
<1> SUFFICES ASSUME NEW miner \in Miners, NEW step, NEW now, NEW transactions \in TransactionLists,
                    NEW pow, NEW block, ApplyBlock(block, now),
                    block \in Offered(PrepareBlock(state, miner, state.timestamp + step,
                                                   transactions, pow))
             PROVE  block.minerAddress \in Accounts /\ block.transactions \in TransactionLists
    BY DEF Next
<1>1. PICK prepared : prepared = PrepareBlock(state, miner, state.timestamp + step,
                                              transactions, pow)
    OBVIOUS
<1>2. /\ prepared.minerAddress = miner /\ prepared.transactions = transactions
      /\ DOMAIN prepared = {"height", "previousHash", "timestamp", "pow", "minerAddress",
                            "reward", "target", "transactions", "hash"}
    BY <1>1 DEF PrepareBlock, Rehashed
<1>3. block.minerAddress = miner /\ block.transactions = transactions
    BY <1>1, <1>2 DEF Offered, Rehashed
<1> QED BY <1>3, LedgerAssumption

\* A block pays its miner the reward and the fees, which is what the supply
\* grows by and what the transactions gave up.
LEMMA BlockMoves ==
    ASSUME MoneyInv, NEW block, NEW now, ApplyBlock(block, now), block.minerAddress \in Accounts,
           block.transactions \in TransactionLists
    PROVE  /\ state'.balances \in [Accounts -> Nat] /\ state'.nonces \in [Accounts -> Nat]
           /\ Conservation'
<1>1. PICK txs, applied, b, m, reward :
          /\ txs = block.transactions /\ applied = ApplyTransactions(state, txs)
          /\ b = applied.balances /\ m = block.minerAddress /\ reward = block.reward
    OBVIOUS
<1>2. applied \in Context(txs) /\ Money(applied) = Total(state.balances, Accounts)
    BY <1>1, LedgerAssumption, TransactionsMove DEF MoneyInv
<1>3. reward \in Nat /\ state'.totalSupply = state.totalSupply + reward
    BY <1>1, StepFields DEF MoneyInv, LedgerInv, StateOK
<1>4. /\ state'.balances = [b EXCEPT ![m] = @ + reward + applied.totalFees]
      /\ state'.nonces = applied.nonces
    BY <1>1 DEF ApplyBlock, ApplyMinedBlock
<1>5. b \in [Accounts -> Nat] /\ applied.totalFees \in Nat /\ applied.nonces \in [Accounts -> Nat]
      /\ m \in Accounts /\ b \in [Accounts -> Int]
    BY <1>1, <1>2 DEF Context
<1>6. PICK v : v = b[m] + reward + applied.totalFees
    OBVIOUS
<1>7. v \in Nat /\ state'.balances = [b EXCEPT ![m] = v] /\ state'.balances \in [Accounts -> Nat]
    BY <1>3, <1>4, <1>5, <1>6
<1>8. PICK t, u : t = Total(b, Accounts) /\ u = Total(state'.balances, Accounts)
    OBVIOUS
<1>9. t \in Int /\ u = t - b[m] + v
  <2>1. /\ \A a \in Accounts : b[a] \in Int
        /\ state'.balances[m] = v /\ v \in Int /\ m \in Accounts
        /\ \A a \in Accounts \ {m} : state'.balances[a] = b[a]
        /\ IsFiniteSet(Accounts)
      BY <1>5, <1>7, AllocationAssumption
  <2> QED BY <1>8, <2>1, TotalExcept, LedgerTotal
<1>10. t + applied.totalFees = state.totalSupply
    BY <1>1, <1>2, <1>8 DEF Money, MoneyInv, Conservation
<1>11. u = state'.totalSupply
    BY <1>3, <1>5, <1>6, <1>9, <1>10
<1> QED BY <1>4, <1>5, <1>7, <1>8, <1>11 DEF Conservation

\* What the schedule gives the block at a height.
Scheduled(h) == InitialBlockReward \div (2 ^ ((h - 1) \div HalvingInterval))

\* A block issues what the schedule says, or what is left.
LEMMA BlockIssues ==
    ASSUME MoneyInv, NEW block, NEW now, ApplyBlock(block, now)
    PROVE  IssuanceOnSchedule'
<1>1. PICK h, i : h = state.height /\ i = state.miningIssued
    OBVIOUS
<1>2. /\ h \in Nat /\ i \in 0..MiningReserve /\ state'.height = h + 1 /\ h + 1 \in 1..MaxHeight
      /\ block.height = h + 1 /\ state'.miningIssued = i + block.reward /\ MiningReserve \in Nat
    BY <1>1, StepFields, SupplyAssumption DEF MoneyInv, LedgerInv, StateOK, MiningReserve
<1>3. \A k \in 1..MaxHeight : Scheduled(k) \in Nat
  <2> SUFFICES ASSUME NEW k \in 1..MaxHeight PROVE Scheduled(k) \in Nat
      OBVIOUS
  <2>1. PICK halvings : halvings = (k - 1) \div HalvingInterval
      OBVIOUS
  <2>2. halvings \in 0..((MaxHeight - 1) \div HalvingInterval)
      BY <2>1, DivMonotone, ScheduleAssumption
  <2>3. 2 ^ halvings \in Nat \ {0}
      BY <2>2, ScheduleAssumption
  <2> QED BY <2>1, <2>3, InitialRewardAssumption DEF Scheduled
<1>4. PICK f, g : f = [k \in 1..h |-> Scheduled(k)] /\ g = [k \in 1..(h + 1) |-> Scheduled(k)]
    OBVIOUS
<1>5. PICK t, u, r : t = Total(f, 1..h) /\ u = Total(g, 1..(h + 1)) /\ r = Scheduled(h + 1)
    OBVIOUS
<1>6. t \in Int /\ r \in Nat /\ u = r + t
  <2>1. /\ IsFiniteSet(1..h) /\ IsFiniteSet(1..(h + 1)) /\ (1..(h + 1)) \ {h + 1} = 1..h
        /\ h + 1 \in 1..(h + 1) /\ g[h + 1] = r
    <3>1. IsFiniteSet(1..h) /\ IsFiniteSet(1..(h + 1))
        BY <1>2, FS_Interval
    <3>2. (1..(h + 1)) \ {h + 1} = 1..h /\ h + 1 \in 1..(h + 1)
        BY <1>2
    <3> QED BY <1>4, <1>5, <3>1, <3>2
  <2>2. /\ \A k \in 1..h : f[k] \in Int /\ f[k] = g[k]
        /\ \A k \in 1..(h + 1) : g[k] \in Int
        /\ r \in Nat
    <3>1. MaxHeight \in Nat
        BY ScheduleAssumption
    <3>2. \A k \in 1..(h + 1) :
              k \in 1..MaxHeight /\ (k \in 1..h => g[k] = f[k]) /\ g[k] = Scheduled(k)
        BY <1>2, <1>4, <3>1
    <3>3. \A k \in 1..h : k \in 1..(h + 1)
        BY <1>2
    <3> QED BY <1>2, <1>3, <1>5, <3>2, <3>3
  <2>3. t \in Int /\ t = Total(g, 1..h)
      BY <1>5, <2>1, <2>2, TotalSame, TotalWithout, LedgerTotal
  <2>4. u = g[h + 1] + Total(g, (1..(h + 1)) \ {h + 1})
      BY <1>5, <2>1, <2>2, TotalWithout, LedgerTotal
  <2> QED BY <2>1, <2>2, <2>3, <2>4
<1>7. i = IF t < MiningReserve THEN t ELSE MiningReserve
    BY <1>1, <1>4, <1>5 DEF MoneyInv, IssuanceOnSchedule, Scheduled
<1>8. block.reward = IF r < MiningReserve - i THEN r ELSE MiningReserve - i
    BY <1>1, <1>2, <1>5 DEF ApplyBlock, BlockAccepted, CalculateBlockReward, Scheduled
<1>9. i + block.reward = IF u < MiningReserve THEN u ELSE MiningReserve
    BY <1>2, <1>6, <1>7, <1>8
<1> QED BY <1>2, <1>4, <1>5, <1>9 DEF IssuanceOnSchedule, Scheduled

\* MoneyInv is an invariant of the ledger.
THEOREM MoneyInvariant == Spec => []MoneyInv
<1>1. Init => MoneyInv
  <2> SUFFICES ASSUME Init PROVE MoneyInv
      OBVIOUS
  <2>1. /\ state.balances = GenesisAllocation /\ state.nonces = [a \in Accounts |-> 0]
        /\ state.totalSupply = GenesisSupply /\ state.height = 0 /\ state.miningIssued = 0
      BY DEF Init, CreateGenesisState
  <2>2. Conservation
      BY <2>1, AllocationAssumption DEF Conservation
  <2>3. IssuanceOnSchedule
    <3>1. IsFiniteSet(1..0) /\ 1..0 = {}
        BY FS_EmptySet
    <3>2. \A f : Total(f, 1..0) = 0
        BY <3>1, TotalStep, LedgerTotal
    <3>3. MiningReserve \in Nat \ {0}
        BY SupplyAssumption DEF MiningReserve
    <3> QED BY <2>1, <3>2, <3>3 DEF IssuanceOnSchedule
  <2> QED BY <2>1, <2>2, <2>3, LedgerInit, SupplyAssumption DEF MoneyInv
<1>2. MoneyInv /\ [Next]_vars => MoneyInv'
  <2> SUFFICES ASSUME MoneyInv, [Next]_vars PROVE MoneyInv'
      OBVIOUS
  <2>1. CASE Next
    <3>1. PICK block, now : /\ ApplyBlock(block, now)
                            /\ block.minerAddress \in Accounts
                            /\ block.transactions \in TransactionLists
        BY <2>1, NextOffered
    <3>2. LedgerInv'
        BY <3>1, LedgerStep DEF MoneyInv
    <3> QED BY <3>1, <3>2, BlockMoves, BlockIssues DEF MoneyInv
  <2>2. CASE UNCHANGED vars
      BY <2>2 DEF vars, MoneyInv, LedgerInv, StateOK, BlockListOK, TipOK, TimestampsOK,
                  ChainLinked, Conservation, IssuanceOnSchedule
  <2> QED BY <2>1, <2>2
<1> QED
    BY <1>1, <1>2, PTL DEF Spec

\* No block, whatever its transactions and to whom they pay, makes or burns
\* money: what the code assigns to balanceTotal is what the balances add up to
\* (src/medac_consensus.cjs:326-335).
THEOREM MoneyStaysConserved == Spec => []Conservation
<1>1. MoneyInv => Conservation
    BY DEF MoneyInv
<1> QED
    BY MoneyInvariant, <1>1, PTL

\* What is issued depends on the height only, for every schedule and reserve.
THEOREM IssuanceStaysOnSchedule == Spec => []IssuanceOnSchedule
<1>1. MoneyInv => IssuanceOnSchedule
    BY DEF MoneyInv
<1> QED
    BY MoneyInvariant, <1>1, PTL

\* No account is ever overdrawn.
THEOREM NobodyOverdrawn == Spec => [](state.balances \in [Accounts -> Nat])
<1>1. MoneyInv => state.balances \in [Accounts -> Nat]
    BY DEF MoneyInv
<1> QED
    BY MoneyInvariant, <1>1, PTL

-----------------------------------------------------------------------------
(* The accounts and the blocks *)

\* The fold of a list takes its elements in order.
LEMMA TransactionsInOrder ==
    ASSUME NEW txs, Len(txs) \in Nat, DOMAIN txs = 1..Len(txs), NEW base
    PROVE  \E acc : /\ acc[0] = base
                    /\ \A k \in 1..Len(txs) : acc[k] = ApplyTransaction(acc[k - 1], txs[k])
                    /\ FoldLeft(ApplyTransaction, base, txs) = acc[Len(txs)]
<1> DEFINE n == Len(txs)
           S == DOMAIN txs
           Applies(it) == it = [s \in SUBSET S |-> IF s = {} THEN base
                                  ELSE ApplyTransaction(it[s \ {Max(s)}], txs[Max(s)])]
<1>1. DOMAIN txs \subseteq Int /\ IsFiniteSet(S)
    BY FS_Interval
<1>2. Small(S, Cardinality(S)) = SUBSET S
    BY <1>1, FS_Subset DEF Small
<1>3. PICK some : AppliesUp(some, base, txs, Cardinality(S))
    BY <1>1, AppliesUpExists, FS_CardinalityType
<1>4. Applies(some)
    BY <1>2, <1>3 DEF AppliesUp
<1>5. PICK it : it = CHOOSE g : Applies(g)
    OBVIOUS
<1>6. Applies(it)
  <2> HIDE DEF Applies
  <2> QED BY <1>4, <1>5
<1>7. PICK acc : acc = [k \in 0..n |-> it[1..k]]
    OBVIOUS
<1>8. acc[0] = base
  <2>1. 1..0 = {} /\ 0 \in 0..n
      OBVIOUS
  <2> QED BY <1>6, <1>7, <2>1
<1>9. ASSUME NEW k \in 1..n PROVE acc[k] = ApplyTransaction(acc[k - 1], txs[k])
  <2>1. PICK s : s = 1..k
      OBVIOUS
  <2>2. /\ s # {} /\ s \in SUBSET S
        /\ k \in 0..n /\ k - 1 \in 0..n /\ k \in s /\ \A y \in s : y <= k /\ y \in Int
    <3>1. k \in s /\ \A y \in s : y <= k /\ y \in Int
        BY <2>1
    <3>2. k \in 0..n /\ k - 1 \in 0..n
        OBVIOUS
    <3>3. \A y \in s : y \in 1..n
        BY <2>1
    <3> QED BY <3>1, <3>2, <3>3
  <2>5. s \ {k} = 1..(k - 1)
      BY <2>1
  <2>3. Max(s) = k
    <3>1. Max(s) \in s /\ \A y \in s : Max(s) >= y
      <4>1. \A y \in s : k >= y
          BY <2>2
      <4> QED BY <2>2, <4>1 DEF Max
    <3> QED BY <2>2, <3>1
  <2>4. it[s] = ApplyTransaction(it[s \ {k}], txs[k])
      BY <1>6, <2>2, <2>3
  <2> QED BY <1>7, <2>1, <2>2, <2>4, <2>5
<1>10. FoldLeft(ApplyTransaction, base, txs) = acc[n]
  <2>1. FoldLeft(ApplyTransaction, base, txs) = it[S]
      BY <1>5 DEF FoldLeft, MapThenFoldSet
  <2>2. n \in 0..n /\ S = 1..n
      OBVIOUS
  <2> QED BY <1>7, <2>1, <2>2
<1> QED BY <1>8, <1>9, <1>10

\* What one accepted transaction does to the accounts.
Applied(acc, next, tx) ==
    /\ tx.amount \in Nat /\ tx.fee \in Nat /\ tx.from \in Accounts
    /\ tx.nonce = acc.nonces[tx.from]
    /\ next.nonces = [acc.nonces EXCEPT ![tx.from] = @ + 1]
    /\ next.totalFees = acc.totalFees + tx.fee
    /\ \A a \in Accounts :
           next.balances[a] = acc.balances[a]
                              - (IF a = tx.from THEN tx.amount + tx.fee ELSE 0)
                              + (IF a = tx.to THEN tx.amount ELSE 0)

LEMMA TransactionApplied ==
    ASSUME NEW txs, NEW acc \in Context(txs), NEW i \in DOMAIN txs,
           txs[i].from \in Accounts, txs[i].to \in Accounts,
           ApplyTransaction(acc, txs[i]).ok
    PROVE  acc.ok /\ Applied(acc, ApplyTransaction(acc, txs[i]), txs[i])
<1>1. PICK tx, next : tx = txs[i] /\ next = ApplyTransaction(acc, tx)
    OBVIOUS
<1>2. /\ acc.balances \in [Accounts -> Nat] /\ acc.nonces \in [Accounts -> Nat]
      /\ acc.totalFees \in Nat /\ acc.ok \in BOOLEAN
      /\ acc = [ok |-> acc.ok, balances |-> acc.balances, nonces |-> acc.nonces,
                totalFees |-> acc.totalFees, seen |-> acc.seen]
    BY DEF Context
<1>3. next # [acc EXCEPT !.ok = FALSE]
  <2>1. [acc EXCEPT !.ok = FALSE].ok = FALSE
      BY <1>2
  <2> QED BY <1>1, <2>1
<1>4. PICK b, debited, credited :
          /\ b = acc.balances
          /\ debited = [b EXCEPT ![tx.from] = @ - tx.amount - tx.fee]
          /\ credited = [debited EXCEPT ![tx.to] = @ + tx.amount]
    OBVIOUS
<1>5. /\ acc.ok /\ AcceptsTransaction(acc, tx)
      /\ next = [acc EXCEPT !.balances = credited, !.nonces[tx.from] = @ + 1,
                            !.totalFees = @ + tx.fee, !.seen = @ \cup {tx}]
    BY <1>1, <1>3, <1>4 DEF ApplyTransaction
<1>6. /\ tx.amount \in Nat /\ tx.fee \in Nat /\ tx.from \in Accounts /\ tx.to \in Accounts
      /\ tx.nonce = acc.nonces[tx.from] /\ b \in [Accounts -> Nat]
    BY <1>1, <1>2, <1>4, <1>5, SupplyAssumption DEF AcceptsTransaction, WellFormedTransaction
<1>7. /\ next.balances = credited /\ next.totalFees = acc.totalFees + tx.fee
      /\ next.nonces = [acc.nonces EXCEPT ![tx.from] = @ + 1]
    BY <1>2, <1>5
<1>8. ASSUME NEW a \in Accounts
      PROVE  credited[a] = b[a] - (IF a = tx.from THEN tx.amount + tx.fee ELSE 0)
                                + (IF a = tx.to THEN tx.amount ELSE 0)
  <2>1. DOMAIN b = Accounts /\ DOMAIN debited = Accounts /\ b[a] \in Nat
      BY <1>4, <1>6
  <2>2. debited[a] = IF a = tx.from THEN b[a] - tx.amount - tx.fee ELSE b[a]
      BY <1>4, <1>6, <2>1
  <2>3. credited[a] = IF a = tx.to THEN debited[a] + tx.amount ELSE debited[a]
      BY <1>4, <1>6, <2>1
  <2> QED BY <1>6, <2>1, <2>2, <2>3
<1> QED BY <1>1, <1>4, <1>5, <1>6, <1>7, <1>8 DEF Applied

\* acc holds the accounts before, between and after the transactions.
AppliesAll(acc, txs, n) ==
    /\ \A k \in 0..n : acc[k] \in Context(txs)
    /\ \A k \in 1..n : Applied(acc[k - 1], acc[k], txs[k])
InOrder(acc, s, txs, n) ==
    /\ acc[0].balances = s.balances /\ acc[0].nonces = s.nonces /\ acc[0].totalFees = 0
    /\ acc[n] = ApplyTransactions(s, txs)
    /\ AppliesAll(acc, txs, n)

\* A list is accepted when each of its transactions is, in order.
LEMMA AcceptedInOrder ==
    ASSUME NEW s, s.balances \in [Accounts -> Nat], s.nonces \in [Accounts -> Nat],
           NEW txs, txs \in TransactionLists, ApplyTransactions(s, txs).ok
    PROVE  \E acc : InOrder(acc, s, txs, Len(txs))
<1>0. /\ Len(txs) \in Nat /\ DOMAIN txs = 1..Len(txs)
      /\ \A i \in DOMAIN txs : txs[i].from \in Accounts /\ txs[i].to \in Accounts
    BY LedgerAssumption
<1>1. PICK base, n : /\ base = [ok |-> Len(txs) <= MaxTransactionsPerBlock,
                                balances |-> s.balances, nonces |-> s.nonces,
                                totalFees |-> 0, seen |-> {}]
                     /\ n = Len(txs)
    OBVIOUS
<1>2. PICK acc : /\ acc[0] = base
                 /\ \A k \in 1..n : acc[k] = ApplyTransaction(acc[k - 1], txs[k])
                 /\ ApplyTransactions(s, txs) = acc[n]
    BY <1>0, <1>1, TransactionsInOrder DEF ApplyTransactions
<1>3. n \in Nat /\ DOMAIN txs = 1..n
    BY <1>0, <1>1
<1>4. \A k \in 0..n : acc[k] \in Context(txs)
  <2> DEFINE Q == {k \in Nat : k <= n => acc[k] \in Context(txs)}
  <2>1. 0 \in Q
    <3>1. base \in Context(txs)
        BY <1>1 DEF Context
    <3> QED BY <1>2, <3>1
  <2>2. ASSUME NEW k \in Q PROVE k + 1 \in Q
    <3>1. CASE k + 1 <= n
      <4>1. k + 1 \in 1..n /\ (k + 1) - 1 = k /\ k + 1 \in DOMAIN txs /\ acc[k] \in Context(txs)
          BY <1>3, <3>1
      <4>2. acc[k + 1] = ApplyTransaction(acc[k], txs[k + 1])
          BY <1>2, <4>1
      <4>3. ApplyTransaction(acc[k], txs[k + 1]) \in Context(txs)
          BY <1>0, <4>1, TransactionMoves
      <4> QED BY <4>2, <4>3
    <3> QED BY <3>1
  <2>3. Q \subseteq Nat
      OBVIOUS
  <2> HIDE DEF Q
  <2>4. Q = Nat
      BY <2>1, <2>2, <2>3, NatSet
  <2> QED BY <1>3, <2>4 DEF Q
<1>5. \A k \in 1..n : acc[k].ok => acc[k - 1].ok /\ Applied(acc[k - 1], acc[k], txs[k])
  <2> SUFFICES ASSUME NEW k \in 1..n, acc[k].ok
               PROVE  acc[k - 1].ok /\ Applied(acc[k - 1], acc[k], txs[k])
      OBVIOUS
  <2>1. /\ k - 1 \in 0..n /\ k \in DOMAIN txs
        /\ acc[k - 1] \in Context(txs) /\ acc[k] = ApplyTransaction(acc[k - 1], txs[k])
      BY <1>2, <1>3, <1>4
  <2> QED BY <1>0, <2>1, TransactionApplied
<1>6. \A k \in 0..n : acc[k].ok
  <2> DEFINE Q == {j \in Nat : j <= n => acc[n - j].ok}
  <2>1. 0 \in Q
      BY <1>2, <1>3
  <2>2. ASSUME NEW j \in Q PROVE j + 1 \in Q
    <3>1. CASE j + 1 <= n
      <4>1. n - j \in 1..n /\ (n - j) - 1 = n - (j + 1) /\ acc[n - j].ok
          BY <1>3, <3>1
      <4> QED BY <1>5, <4>1
    <3> QED BY <3>1
  <2>3. Q \subseteq Nat
      OBVIOUS
  <2> HIDE DEF Q
  <2>4. Q = Nat
      BY <2>1, <2>2, <2>3, NatSet
  <2>5. ASSUME NEW k \in 0..n PROVE acc[k].ok
    <3>1. n - k \in Q /\ n - k <= n /\ n - (n - k) = k
        BY <1>3, <2>4
    <3> QED BY <3>1 DEF Q
  <2> QED BY <2>5
<1>7. \A k \in 1..n : Applied(acc[k - 1], acc[k], txs[k])
  <2>1. \A k \in 1..n : acc[k].ok
      BY <1>3, <1>6
  <2> QED BY <1>5, <2>1
<1>8. AppliesAll(acc, txs, n)
    BY <1>4, <1>7 DEF AppliesAll
<1>9. /\ acc[0].balances = s.balances /\ acc[0].nonces = s.nonces
      /\ acc[0].totalFees = 0
    BY <1>1, <1>2
<1>10. InOrder(acc, s, txs, n)
    BY <1>2, <1>8, <1>9 DEF InOrder
<1> QED BY <1>1, <1>10

\* Of the places P, with T what is there and W who mined it: those with the
\* transactions of an account, and what they have brought it.
Sent(P, T, a) == {p \in P : T[p].from = a}
Received(P, T, a) == {p \in P : T[p].to = a}
Won(P, W, a) == {p \in P : W[p] = a}
Amounts(P, T) == [p \in P |-> T[p].amount]
Fees(P, T) == [p \in P |-> T[p].fee]
FlowOf(P, T, W, a) ==
    Total(Fees(P, T), Won(P, W, a)) + Total(Amounts(P, T), Received(P, T, a))
    - Total(Amounts(P, T), Sent(P, T, a)) - Total(Fees(P, T), Sent(P, T, a))

Priced(P, T) == \A p \in P : T[p].amount \in Nat /\ T[p].fee \in Nat

\* A transaction at one more place counts for those it names.
LEMMA FlowOneMore ==
    ASSUME NEW P, IsFiniteSet(P), NEW x, x \notin P, NEW Q, Q = P \cup {x},
           NEW T, NEW W, Priced(Q, T), NEW a
    PROVE  /\ FlowOf(P, T, W, a) \in Int
           /\ FlowOf(Q, T, W, a) =
                  FlowOf(P, T, W, a) + (IF W[x] = a THEN T[x].fee ELSE 0)
                  + (IF T[x].to = a THEN T[x].amount ELSE 0)
                  - (IF T[x].from = a THEN T[x].amount + T[x].fee ELSE 0)
           /\ Cardinality(Sent(P, T, a)) \in Nat
           /\ Cardinality(Sent(Q, T, a)) =
                  Cardinality(Sent(P, T, a)) + (IF T[x].from = a THEN 1 ELSE 0)
<1>1. PICK fee, fees, amount, amounts :
          /\ fee = Fees(P, T) /\ fees = Fees(Q, T)
          /\ amount = Amounts(P, T) /\ amounts = Amounts(Q, T)
    OBVIOUS
<1>2. /\ \A y \in P : fees[y] = fee[y] /\ fee[y] \in Int
      /\ \A y \in P : amounts[y] = amount[y] /\ amount[y] \in Int
      /\ fees[x] = T[x].fee /\ amounts[x] = T[x].amount
      /\ T[x].fee \in Nat /\ T[x].amount \in Nat
    BY <1>1 DEF Priced, Fees, Amounts
<1>3. /\ \A K : /\ Total(fee, P \cap K) \in Int
                /\ Total(fees, Q \cap K) =
                       Total(fee, P \cap K) + (IF x \in K THEN fees[x] ELSE 0)
      /\ \A K : /\ Total(amount, P \cap K) \in Int
                /\ Total(amounts, Q \cap K) =
                       Total(amount, P \cap K) + (IF x \in K THEN amounts[x] ELSE 0)
  <2>1. fees[x] \in Int /\ amounts[x] \in Int
      BY <1>2
  <2>2. ASSUME NEW f, NEW g, \A y \in P : g[y] = f[y] /\ f[y] \in Int, g[x] \in Int, NEW K
        PROVE  /\ Total(f, P \cap K) \in Int
               /\ Total(g, Q \cap K) = Total(f, P \cap K) + (IF x \in K THEN g[x] ELSE 0)
    <3>1. /\ TotalOf(f, P \cap K) \in Int
          /\ x \in K => TotalOf(g, Q \cap K) = TotalOf(f, P \cap K) + g[x]
          /\ x \notin K => TotalOf(g, Q \cap K) = TotalOf(f, P \cap K)
        BY <2>2, TotalOneMore, SMTT(30)
    <3> QED BY <1>1, <3>1, LedgerTotal
  <2> QED BY <1>2, <2>1, <2>2
<1>4. PICK won, in, out : /\ won = Won(Q, W, a) /\ in = Received(Q, T, a)
                          /\ out = Sent(Q, T, a)
    OBVIOUS
<1>5. /\ Won(P, W, a) = P \cap won /\ Won(Q, W, a) = Q \cap won /\ (x \in won <=> W[x] = a)
      /\ Received(P, T, a) = P \cap in /\ Received(Q, T, a) = Q \cap in
      /\ (x \in in <=> T[x].to = a)
      /\ Sent(P, T, a) = P \cap out /\ Sent(Q, T, a) = Q \cap out
      /\ (x \in out <=> T[x].from = a)
    BY <1>1, <1>4 DEF Won, Received, Sent
<1>6. PICK w, r, s, t, w2, r2, s2, t2 :
          /\ w = Total(fee, P \cap won) /\ w2 = Total(fees, Q \cap won)
          /\ r = Total(amount, P \cap in) /\ r2 = Total(amounts, Q \cap in)
          /\ s = Total(amount, P \cap out) /\ s2 = Total(amounts, Q \cap out)
          /\ t = Total(fee, P \cap out) /\ t2 = Total(fees, Q \cap out)
    OBVIOUS
<1>7. /\ w \in Int /\ w2 = w + (IF W[x] = a THEN T[x].fee ELSE 0)
      /\ r \in Int /\ r2 = r + (IF T[x].to = a THEN T[x].amount ELSE 0)
      /\ s \in Int /\ s2 = s + (IF T[x].from = a THEN T[x].amount ELSE 0)
      /\ t \in Int /\ t2 = t + (IF T[x].from = a THEN T[x].fee ELSE 0)
    BY <1>2, <1>3, <1>5, <1>6
<1>8. FlowOf(P, T, W, a) = w + r - s - t /\ FlowOf(Q, T, W, a) = w2 + r2 - s2 - t2
    BY <1>1, <1>5, <1>6 DEF FlowOf
<1>9. /\ FlowOf(P, T, W, a) \in Int
      /\ FlowOf(Q, T, W, a) =
             FlowOf(P, T, W, a) + (IF W[x] = a THEN T[x].fee ELSE 0)
             + (IF T[x].to = a THEN T[x].amount ELSE 0)
             - (IF T[x].from = a THEN T[x].amount + T[x].fee ELSE 0)
    BY <1>2, <1>7, <1>8
<1>10. /\ Cardinality(Sent(P, T, a)) \in Nat
       /\ Cardinality(Sent(Q, T, a)) =
              Cardinality(Sent(P, T, a)) + (IF T[x].from = a THEN 1 ELSE 0)
  <2>1. PICK S, S2 : S = Sent(P, T, a) /\ S2 = Sent(Q, T, a)
      OBVIOUS
  <2>2. S2 = (IF T[x].from = a THEN S \cup {x} ELSE S) /\ x \notin S /\ S \subseteq P
      BY <1>1, <2>1 DEF Sent
  <2>3. IsFiniteSet(S) /\ Cardinality(S) \in Nat
      BY <2>2, FS_Subset, FS_CardinalityType
  <2>4. Cardinality(S \cup {x}) = Cardinality(S) + 1
      BY <2>2, <2>3, FS_AddElement
  <2> QED BY <2>1, <2>2, <2>3, <2>4
<1> QED BY <1>1, <1>9, <1>10

\* The places of a chain of height h, and the first k of its next block.
Grown(P, h, k) == P \cup {<<h + 1, j>> : j \in 1..k}

\* The accounts are what is at the places in G, where account m mines, base
\* is what the accounts have from elsewhere and the fees are not paid yet.
Told(acc, G, T, W, m, base) ==
    \A a \in Accounts :
        /\ acc.nonces[a] = Cardinality(Sent(G, T, a))
        /\ acc.balances[a] + (IF a = m THEN acc.totalFees ELSE 0) = base[a] + FlowOf(G, T, W, a)

\* One transaction that is applied is told by its place.
LEMMA ToldOneMore ==
    ASSUME NEW txs, NEW acc \in Context(txs), NEW next \in Context(txs), NEW tx,
           Applied(acc, next, tx),
           NEW G, IsFiniteSet(G), NEW x, x \notin G, NEW T, NEW W, Priced(G, T),
           T[x] = tx, NEW m, W[x] = m,
           NEW base, \A a \in Accounts : base[a] \in Int,
           Told(acc, G, T, W, m, base)
    PROVE  Priced(G \cup {x}, T) /\ Told(next, G \cup {x}, T, W, m, base)
<1>1. Priced(G \cup {x}, T)
    BY DEF Priced, Applied
<1>2. SUFFICES ASSUME NEW a \in Accounts
      PROVE  /\ next.nonces[a] = Cardinality(Sent(G \cup {x}, T, a))
             /\ next.balances[a] + (IF a = m THEN next.totalFees ELSE 0) =
                    base[a] + FlowOf(G \cup {x}, T, W, a)
    BY <1>1 DEF Told
<1>0. PICK R : R = G \cup {x}
    OBVIOUS
<1>3. PICK f, g, c, d : /\ f = FlowOf(G, T, W, a) /\ g = FlowOf(R, T, W, a)
                        /\ c = Cardinality(Sent(G, T, a))
                        /\ d = Cardinality(Sent(R, T, a))
    OBVIOUS
<1>4. /\ f \in Int /\ c \in Nat
      /\ g = f + (IF a = m THEN tx.fee ELSE 0) + (IF tx.to = a THEN tx.amount ELSE 0)
             - (IF tx.from = a THEN tx.amount + tx.fee ELSE 0)
      /\ d = c + (IF tx.from = a THEN 1 ELSE 0)
  <2>1. /\ FlowOf(G, T, W, a) \in Int /\ Cardinality(Sent(G, T, a)) \in Nat
        /\ FlowOf(R, T, W, a) =
               FlowOf(G, T, W, a) + (IF W[x] = a THEN T[x].fee ELSE 0)
               + (IF T[x].to = a THEN T[x].amount ELSE 0)
               - (IF T[x].from = a THEN T[x].amount + T[x].fee ELSE 0)
        /\ Cardinality(Sent(R, T, a)) =
               Cardinality(Sent(G, T, a)) + (IF T[x].from = a THEN 1 ELSE 0)
    <3>1. Priced(R, T)
        BY <1>0, <1>1
    <3> QED BY <1>0, <3>1, FlowOneMore
  <2> QED BY <1>3, <2>1
<1>5. /\ acc.nonces[a] = c
      /\ acc.balances[a] + (IF a = m THEN acc.totalFees ELSE 0) = base[a] + f
    BY <1>3 DEF Told
<1>6. /\ acc.nonces \in [Accounts -> Nat] /\ acc.balances[a] \in Nat /\ acc.totalFees \in Nat
      /\ next.balances[a] \in Nat /\ next.totalFees \in Nat
      /\ tx.amount \in Nat /\ tx.fee \in Nat
      /\ next.nonces = [acc.nonces EXCEPT ![tx.from] = @ + 1]
      /\ next.totalFees = acc.totalFees + tx.fee
      /\ next.balances[a] = acc.balances[a]
                            - (IF a = tx.from THEN tx.amount + tx.fee ELSE 0)
                            + (IF a = tx.to THEN tx.amount ELSE 0)
    BY DEF Context, Applied
<1>7. next.nonces[a] = d
    BY <1>4, <1>5, <1>6
<1>8. next.balances[a] + (IF a = m THEN next.totalFees ELSE 0) = base[a] + g
  <2>1. PICK b, e, b2, e2, z, fee, gone, come :
            /\ b = acc.balances[a] /\ e = acc.totalFees /\ z = base[a] /\ fee = tx.fee
            /\ b2 = next.balances[a] /\ e2 = next.totalFees
            /\ gone = IF a = tx.from THEN tx.amount + tx.fee ELSE 0
            /\ come = IF a = tx.to THEN tx.amount ELSE 0
      OBVIOUS
  <2>2. /\ b \in Nat /\ e \in Nat /\ b2 \in Nat /\ e2 \in Nat /\ z \in Int
        /\ fee \in Nat /\ gone \in Nat /\ come \in Nat
      BY <1>6, <2>1
  <2>3. /\ b + (IF a = m THEN e ELSE 0) = z + f /\ e2 = e + fee /\ b2 = b - gone + come
        /\ g = f + (IF a = m THEN fee ELSE 0) + come - gone /\ g \in Int
      BY <1>4, <1>5, <1>6, <2>1
  <2>4. b2 + (IF a = m THEN e2 ELSE 0) = z + g
    <3>1. CASE a = m
        BY <1>4, <2>2, <2>3, <3>1
    <3>2. CASE a # m
        BY <1>4, <2>2, <2>3, <3>2
    <3> QED BY <3>1, <3>2
  <2> QED BY <2>1, <2>4
<1> QED BY <1>0, <1>3, <1>7, <1>8

\* The transactions of the next block are at the places of it, mined by m.
AtItsPlaces(P, h, txs, n, T, W, m) ==
    \A k \in 1..n : <<h + 1, k>> \notin P /\ T[<<h + 1, k>>] = txs[k] /\ W[<<h + 1, k>>] = m

\* Each nonce counts the earlier transactions of its sender.
Counted(P, h, txs, n, T) ==
    \A k \in 1..n : txs[k].nonce = Cardinality(Sent(Grown(P, h, k - 1), T, txs[k].from))

\* So is a block of them.
LEMMA BlockTold ==
    ASSUME NEW P, IsFiniteSet(P), NEW h \in Nat, NEW txs, NEW n \in Nat, NEW T, NEW W, NEW m,
           AtItsPlaces(P, h, txs, n, T, W, m), Priced(P, T),
           NEW acc, AppliesAll(acc, txs, n),
           NEW base, \A a \in Accounts : base[a] \in Int,
           Told(acc[0], P, T, W, m, base)
    PROVE  /\ IsFiniteSet(Grown(P, h, n)) /\ Priced(Grown(P, h, n), T)
           /\ Told(acc[n], Grown(P, h, n), T, W, m, base)
           /\ Counted(P, h, txs, n, T)
<1> DEFINE Good(k) == /\ IsFiniteSet(Grown(P, h, k)) /\ Priced(Grown(P, h, k), T)
                      /\ Told(acc[k], Grown(P, h, k), T, W, m, base)
           Q == {k \in Nat : k <= n => Good(k)}
<1>1. 0 \in Q
  <2>1. Grown(P, h, 0) = P
      BY DEF Grown
  <2> QED BY <2>1
<1>2. ASSUME NEW k \in Q PROVE k + 1 \in Q
  <2>1. SUFFICES ASSUME k + 1 <= n PROVE Good(k + 1)
      BY <1>2
  <2>2. /\ k \in Nat /\ k \in 0..n /\ k + 1 \in 0..n /\ k + 1 \in 1..n /\ (k + 1) - 1 = k
        /\ Good(k)
      BY <1>2, <2>1
  <2>3. PICK G, x : G = Grown(P, h, k) /\ x = <<h + 1, k + 1>>
      OBVIOUS
  <2>4. Grown(P, h, k + 1) = G \cup {x}
    <3>1. 1..(k + 1) = (1..k) \cup {k + 1}
        BY <2>2
    <3> QED BY <2>3, <3>1 DEF Grown
  <2>5. x \notin G
    <3>1. \A j \in 1..k : j # k + 1
        BY <2>2
    <3>2. \A j \in 1..k : <<h + 1, j>> # <<h + 1, k + 1>>
        BY <3>1
    <3> QED BY <2>2, <2>3, <3>2 DEF Grown, AtItsPlaces
  <2>6. /\ T[x] = txs[k + 1] /\ W[x] = m
        /\ acc[k] \in Context(txs) /\ acc[k + 1] \in Context(txs)
        /\ Applied(acc[k], acc[k + 1], txs[k + 1])
      BY <2>2, <2>3 DEF AtItsPlaces, AppliesAll
  <2>7. IsFiniteSet(G \cup {x}) /\ IsFiniteSet(G) /\ Priced(G, T)
        /\ Told(acc[k], G, T, W, m, base)
      BY <2>2, <2>3, FS_AddElement
  <2>8. Priced(G \cup {x}, T) /\ Told(acc[k + 1], G \cup {x}, T, W, m, base)
      BY <2>5, <2>6, <2>7, ToldOneMore
  <2> QED BY <2>4, <2>7, <2>8
<1>3. Q \subseteq Nat
    OBVIOUS
<1> HIDE DEF Q
<1>4. Q = Nat
    BY <1>1, <1>2, <1>3, NatSet
<1>5. \A k \in 0..n : Good(k)
    BY <1>4 DEF Q
<1> HIDE DEF Good
<1>6. ASSUME NEW k \in 1..n
      PROVE  txs[k].nonce = Cardinality(Sent(Grown(P, h, k - 1), T, txs[k].from))
  <2>1. k - 1 \in 0..n
      OBVIOUS
  <2>2. Told(acc[k - 1], Grown(P, h, k - 1), T, W, m, base)
      BY <1>5, <2>1 DEF Good
  <2>3. txs[k].from \in Accounts /\ txs[k].nonce = acc[k - 1].nonces[txs[k].from]
      BY DEF Applied, AppliesAll
  <2> QED BY <2>2, <2>3 DEF Told
<1>7. Good(n)
    BY <1>5
<1> QED BY <1>6, <1>7 DEF Good, Counted

\* The totals that make up a flow are integers.
LEMMA FlowParts ==
    ASSUME NEW P, IsFiniteSet(P), NEW T, NEW W, Priced(P, T), NEW a
    PROVE  /\ Total(Fees(P, T), Won(P, W, a)) \in Int
           /\ Total(Amounts(P, T), Received(P, T, a)) \in Int
           /\ Total(Amounts(P, T), Sent(P, T, a)) \in Int
           /\ Total(Fees(P, T), Sent(P, T, a)) \in Int
<1>1. PICK fee, amount : fee = Fees(P, T) /\ amount = Amounts(P, T)
    OBVIOUS
<1>2. \A p \in P : fee[p] \in Int /\ amount[p] \in Int
    BY <1>1 DEF Priced, Fees, Amounts
<1>3. \A S \in SUBSET P : TotalOf(fee, S) \in Int /\ TotalOf(amount, S) \in Int
  <2> SUFFICES ASSUME NEW S \in SUBSET P
               PROVE  TotalOf(fee, S) \in Int /\ TotalOf(amount, S) \in Int
      OBVIOUS
  <2>1. IsFiniteSet(S) /\ \A p \in S : fee[p] \in Int /\ amount[p] \in Int
      BY <1>2, FS_Subset
  <2> QED BY <2>1, TotalWithout
<1>4. /\ Won(P, W, a) \in SUBSET P /\ Received(P, T, a) \in SUBSET P
      /\ Sent(P, T, a) \in SUBSET P
    BY DEF Won, Received, Sent
<1> QED BY <1>1, <1>3, <1>4, LedgerTotal

\* The transactions of the chain, and who mined them.
There == [p \in Places |-> TxAt(p)]
MinerOf == [p \in Places |-> state.blocks[p[1]].minerAddress]
Rewards == [i \in DOMAIN state.blocks |-> state.blocks[i].reward]

\* Every block has one of the lists, and every transaction in it its price.
PlacesOK ==
    /\ \A i \in DOMAIN state.blocks : /\ state.blocks[i].transactions \in TransactionLists
                                      /\ state.blocks[i].reward \in Nat
    /\ IsFiniteSet(Places) /\ Priced(Places, There)

AuditInv == MoneyInv /\ PlacesOK /\ AccountsMatchBlocks

\* The parts of an account's flow are those of the places.
LEMMA PartsOfFlow ==
    ASSUME NEW a
    PROVE  /\ Sent(Places, There, a) = SentBy(a) /\ Flow(a) = FlowOf(Places, There, MinerOf, a)
           /\ Sent(Places, There, a)' = SentBy(a)'
           /\ Flow(a)' = FlowOf(Places, There, MinerOf, a)'
<1>1. /\ \A p \in Places : p[1] \in DOMAIN state.blocks
      /\ \A p \in Places' : p[1] \in DOMAIN state'.blocks
    BY DEF Places
<1>2. /\ Fees(Places, There) = [p \in Places |-> TxAt(p).fee]
      /\ Amounts(Places, There) = [p \in Places |-> TxAt(p).amount]
      /\ Sent(Places, There, a) = SentBy(a) /\ Received(Places, There, a) = ReceivedBy(a)
      /\ Won(Places, MinerOf, a) = {p \in Places : p[1] \in Mined(a)}
    BY <1>1 DEF Fees, Amounts, Sent, Received, Won, There, MinerOf, SentBy, ReceivedBy, Mined
<1>3. /\ Fees(Places', There') = [p \in Places' |-> TxAt(p).fee']
      /\ Amounts(Places', There') = [p \in Places' |-> TxAt(p).amount']
      /\ Sent(Places', There', a) = SentBy(a)' /\ Received(Places', There', a) = ReceivedBy(a)'
      /\ Won(Places', MinerOf', a) = {p \in Places' : p[1] \in Mined(a)'}
    BY <1>1 DEF Fees, Amounts, Sent, Received, Won, There, MinerOf, SentBy, ReceivedBy, Mined
<1>4. Flow(a) = FlowOf(Places, There, MinerOf, a)
    BY <1>2 DEF Flow, FlowOf
<1>5. Flow(a)' = FlowOf(Places', There', MinerOf', a)
    BY <1>3 DEF Flow, FlowOf
<1> QED BY <1>2, <1>3, <1>4, <1>5

\* What a block adds to the chain is at its own places.
LEMMA PlacesGrow ==
    ASSUME MoneyInv, NEW block, NEW now, ApplyBlock(block, now),
           NEW h, h = state.height, NEW txs, txs = block.transactions, txs \in TransactionLists,
           NEW n, n = Len(txs)
    PROVE  /\ h \in Nat /\ DOMAIN state.blocks = 1..h /\ DOMAIN state'.blocks = 1..(h + 1)
           /\ n \in Nat /\ DOMAIN txs = 1..n
           /\ \A i \in 1..h : state'.blocks[i] = state.blocks[i]
           /\ state'.blocks[h + 1] = block
           /\ Places' = Grown(Places, h, n)
           /\ \A p \in Places : p[1] \in 1..h /\ TxAt(p)' = TxAt(p)
           /\ \A k \in 1..n : <<h + 1, k>> \notin Places /\ TxAt(<<h + 1, k>>)' = txs[k]
<1>1. h = state.height /\ txs = block.transactions /\ n = Len(txs)
    OBVIOUS
<1>2. n \in Nat /\ DOMAIN txs = 1..n
    BY <1>1, LedgerAssumption
<1>3. h \in Nat /\ h = Len(state.blocks)
    BY <1>1 DEF MoneyInv, LedgerInv, StateOK
<1>4. /\ BlockListOK /\ BlockListOK' /\ Len(state'.blocks) = h + 1
      /\ \A i \in 1..h : state'.blocks[i] = state.blocks[i]
      /\ state'.blocks[h + 1] = block
    BY <1>1, StepBlocks DEF MoneyInv, LedgerInv
<1>5. DOMAIN state.blocks = 1..h /\ DOMAIN state'.blocks = 1..(h + 1)
    BY <1>3, <1>4 DEF BlockListOK
<1>6. \A p \in Places : p[1] \in 1..h
    BY <1>5 DEF Places
<1>7. \A p \in Places : TxAt(p)' = TxAt(p)
    BY <1>4, <1>6 DEF TxAt
<1>8. \A k \in 1..n : <<h + 1, k>> \notin Places /\ TxAt(<<h + 1, k>>)' = txs[k]
  <2> SUFFICES ASSUME NEW k \in 1..n
               PROVE  <<h + 1, k>> \notin Places /\ TxAt(<<h + 1, k>>)' = txs[k]
      OBVIOUS
  <2>1. h + 1 \notin 1..h /\ <<h + 1, k>>[1] = h + 1 /\ <<h + 1, k>>[2] = k
      BY <1>3
  <2> QED BY <1>1, <1>4, <1>6, <2>1 DEF TxAt
<1>9. Places' = Grown(Places, h, n)
  <2>1. Places' = UNION {{<<i, k>> : k \in DOMAIN state'.blocks[i].transactions} :
                             i \in 1..(h + 1)}
      BY <1>5 DEF Places
  <2>2. Places = UNION {{<<i, k>> : k \in DOMAIN state.blocks[i].transactions} : i \in 1..h}
      BY <1>5 DEF Places
  <2>3. 1..(h + 1) = (1..h) \cup {h + 1}
      BY <1>3
  <2>4. {<<h + 1, k>> : k \in DOMAIN state'.blocks[h + 1].transactions} =
            {<<h + 1, j>> : j \in 1..n}
      BY <1>1, <1>2, <1>4
  <2>5. ASSUME NEW i \in 1..h
        PROVE  {<<i, k>> : k \in DOMAIN state'.blocks[i].transactions} =
                   {<<i, k>> : k \in DOMAIN state.blocks[i].transactions}
      BY <1>4
  <2> QED BY <2>1, <2>2, <2>3, <2>4, <2>5 DEF Grown
<1> QED BY <1>2, <1>3, <1>4, <1>5, <1>6, <1>7, <1>8, <1>9

\* The reward of a block is its miner's.
LEMMA RewardsGrow ==
    ASSUME MoneyInv, PlacesOK, NEW block, NEW now, ApplyBlock(block, now),
           block.transactions \in TransactionLists, block.reward \in Nat, NEW a
    PROVE  /\ Total(Rewards, Mined(a)) \in Int
           /\ block.minerAddress = a =>
                  Total(Rewards, Mined(a))' = Total(Rewards, Mined(a)) + block.reward
           /\ block.minerAddress # a => Total(Rewards, Mined(a))' = Total(Rewards, Mined(a))
<1>1. PICK h : h = state.height
    OBVIOUS
<1>2. /\ h \in Nat /\ DOMAIN state.blocks = 1..h /\ DOMAIN state'.blocks = 1..(h + 1)
      /\ \A i \in 1..h : state'.blocks[i] = state.blocks[i]
      /\ state'.blocks[h + 1] = block
  <2>1. PICK txs, n : txs = block.transactions /\ n = Len(txs)
      OBVIOUS
  <2>2. txs \in TransactionLists
      BY <2>1
  <2> QED BY <1>1, <2>1, <2>2, PlacesGrow
<1>3. PICK S, R, f, g, x, K : /\ S = 1..h /\ R = 1..(h + 1) /\ f = Rewards /\ g = Rewards'
                              /\ x = h + 1 /\ K = Mined(a)'
    OBVIOUS
<1>4. IsFiniteSet(S) /\ x \notin S /\ R = S \cup {x}
  <2>1. IsFiniteSet(1..h)
      BY <1>2, FS_Interval
  <2>2. h + 1 \notin 1..h /\ 1..(h + 1) = (1..h) \cup {h + 1}
      BY <1>2
  <2> QED BY <1>3, <2>1, <2>2
<1>5. (\A y \in S : g[y] = f[y] /\ f[y] \in Int) /\ g[x] \in Int /\ g[x] = block.reward
  <2>1. \A y \in S : y \in 1..(h + 1)
      BY <1>2, <1>3
  <2>2. h + 1 \in 1..(h + 1)
      BY <1>2
  <2>3. /\ \A y \in 1..h : f[y] = state.blocks[y].reward /\ f[y] \in Int
        /\ \A y \in 1..(h + 1) : g[y] = state'.blocks[y].reward
      BY <1>2, <1>3 DEF Rewards, PlacesOK
  <2>4. \A y \in 1..h : g[y] = f[y] /\ f[y] \in Int
      BY <1>2, <1>3, <2>1, <2>3
  <2>5. g[h + 1] = block.reward /\ block.reward \in Int
      BY <1>2, <2>2, <2>3
  <2> QED BY <1>3, <2>4, <2>5
<1>6. /\ Mined(a) = S \cap K /\ Mined(a)' = R \cap K /\ (x \in K <=> block.minerAddress = a)
    BY <1>2, <1>3, <1>4 DEF Mined
<1>7. /\ TotalOf(f, S \cap K) \in Int
      /\ x \in K => TotalOf(g, R \cap K) = TotalOf(f, S \cap K) + g[x]
      /\ x \notin K => TotalOf(g, R \cap K) = TotalOf(f, S \cap K)
    BY <1>4, <1>5, TotalOneMore, SMTT(30)
<1>8. /\ Total(Rewards, Mined(a)) = TotalOf(f, S \cap K)
      /\ Total(Rewards, Mined(a))' = TotalOf(g, R \cap K)
  <2>1. Total(Rewards, Mined(a)) = Total(f, S \cap K)
      BY <1>3, <1>6
  <2>2. Total(Rewards, Mined(a))' = Total(g, R \cap K)
      BY <1>3, <1>6
  <2> QED BY <2>1, <2>2, LedgerTotal
<1> QED BY <1>5, <1>6, <1>7, <1>8

\* A place of the chain is before the places of the next block, and a place of
\* that block before the later ones of it.
LEMMA GrownBefore ==
    ASSUME NEW h \in Nat, NEW n \in Nat, NEW P, \A p \in P : p[1] \in 1..h
    PROVE  /\ \A p \in P : \A q \in Grown(P, h, n) : Before(q, p) => q \in P
           /\ \A k \in 1..n : \A q \in Grown(P, h, n) :
                  Before(q, <<h + 1, k>>) <=> q \in Grown(P, h, k - 1)
<1>1. \A p \in P : \A q \in Grown(P, h, n) : Before(q, p) => q \in P
  <2> SUFFICES ASSUME NEW p \in P, NEW j \in 1..n, Before(<<h + 1, j>>, p) PROVE FALSE
      BY DEF Grown
  <2>1. PICK i : i = p[1] /\ i \in 1..h
      OBVIOUS
  <2>2. h + 1 < i \/ h + 1 = i
      BY <2>1 DEF Before
  <2> QED BY <2>1, <2>2
<1>2. ASSUME NEW k \in 1..n, NEW q \in Grown(P, h, n)
      PROVE  Before(q, <<h + 1, k>>) <=> q \in Grown(P, h, k - 1)
  <2>1. CASE q \in P
    <3>1. PICK i : i = q[1] /\ i \in 1..h
        BY <2>1
    <3>2. i < h + 1
        BY <3>1
    <3> QED BY <2>1, <3>1, <3>2 DEF Before, Grown
  <2>2. CASE q \notin P
    <3>1. PICK j \in 1..n : q = <<h + 1, j>>
        BY <2>2 DEF Grown
    <3>2. q[1] = h + 1 /\ q[2] = j
        BY <3>1
    <3>3. Before(q, <<h + 1, k>>) <=> j < k
        BY <3>2 DEF Before
    <3>4. q \in Grown(P, h, k - 1) <=> \E l \in 1..(k - 1) : q = <<h + 1, l>>
        BY <2>2 DEF Grown
    <3>5. \A l \in 1..(k - 1) : q = <<h + 1, l>> => l = j
        BY <3>2
    <3>6. j \in 1..(k - 1) <=> j < k
        OBVIOUS
    <3> QED BY <3>1, <3>3, <3>4, <3>5, <3>6
  <2> QED BY <2>1, <2>2
<1> QED BY <1>1, <1>2

\* The accounts and the blocks still match after a block is applied.
LEMMA AuditStep ==
    ASSUME AuditInv, NEW block, NEW now, ApplyBlock(block, now),
           block.minerAddress \in Accounts, NEW txs, txs = block.transactions,
           txs \in TransactionLists
    PROVE  PlacesOK' /\ AccountsMatchBlocks'
<1>1. PICK h, n, m, P, Q, T, W :
          /\ h = state.height /\ n = Len(txs) /\ m = block.minerAddress
          /\ P = Places /\ Q = Places' /\ T = There' /\ W = MinerOf'
    OBVIOUS
<1>2. MoneyInv /\ PlacesOK /\ NonceSequence /\ BalanceAudit /\ block.reward \in Nat
    BY StepFields DEF AuditInv, AccountsMatchBlocks, MoneyInv, LedgerInv, StateOK
<1>3. /\ h \in Nat /\ DOMAIN state.blocks = 1..h /\ DOMAIN state'.blocks = 1..(h + 1)
      /\ n \in Nat /\ DOMAIN txs = 1..n
      /\ \A i \in 1..h : state'.blocks[i] = state.blocks[i]
      /\ state'.blocks[h + 1] = block
      /\ Q = Grown(P, h, n)
      /\ \A p \in P : p[1] \in 1..h /\ TxAt(p)' = TxAt(p)
      /\ \A k \in 1..n : <<h + 1, k>> \notin P /\ TxAt(<<h + 1, k>>)' = txs[k]
    BY <1>1, <1>2, PlacesGrow
<1>4. P \subseteq Q /\ \A k \in 1..n : <<h + 1, k>> \in Q
    BY <1>3 DEF Grown
<1>5. /\ \A p \in P : T[p] = There[p] /\ W[p] = MinerOf[p]
      /\ \A k \in 1..n : T[<<h + 1, k>>] = txs[k] /\ W[<<h + 1, k>>] = m
      /\ \A p \in Q : T[p] = TxAt(p)'
  <2>1. /\ \A p \in Q : T[p] = TxAt(p)' /\ W[p] = state'.blocks[p[1]].minerAddress
        /\ \A p \in P : There[p] = TxAt(p) /\ MinerOf[p] = state.blocks[p[1]].minerAddress
      BY <1>1 DEF There, MinerOf
  <2>2. \A p \in P : T[p] = There[p] /\ W[p] = MinerOf[p]
      BY <1>3, <1>4, <2>1
  <2>3. ASSUME NEW k \in 1..n PROVE T[<<h + 1, k>>] = txs[k] /\ W[<<h + 1, k>>] = m
    <3>1. PICK x : x = <<h + 1, k>>
        OBVIOUS
    <3>2. x \in Q /\ x[1] = h + 1 /\ TxAt(x)' = txs[k]
        BY <1>3, <1>4, <3>1
    <3>3. state'.blocks[x[1]].minerAddress = m
        BY <1>1, <1>3, <3>2
    <3> QED BY <2>1, <3>1, <3>2, <3>3
  <2> QED BY <2>1, <2>2, <2>3
<1>6. PICK acc : InOrder(acc, state, txs, n)
  <2>1. /\ state.balances \in [Accounts -> Nat] /\ state.nonces \in [Accounts -> Nat]
        /\ ApplyTransactions(state, txs).ok
      BY <1>2 DEF MoneyInv, ApplyBlock, BlockAccepted
  <2> QED BY <1>1, <2>1, AcceptedInOrder
<1>7. PICK base : base = [a \in Accounts |-> GenesisAllocation[a] + Total(Rewards, Mined(a))]
    OBVIOUS
<1>8. ASSUME NEW a \in Accounts
      PROVE  /\ Total(Rewards, Mined(a)) \in Int
             /\ Total(Rewards, Mined(a))' =
                    Total(Rewards, Mined(a)) + (IF a = m THEN block.reward ELSE 0)
    BY <1>1, <1>2, RewardsGrow
<1>9. \A a \in Accounts : base[a] \in Int /\ GenesisAllocation[a] \in Nat
    BY <1>7, <1>8, SupplyAssumption
<1>10. IsFiniteSet(P) /\ Priced(P, T)
    BY <1>1, <1>2, <1>5 DEF PlacesOK, Priced
<1>11. \A a : /\ Sent(P, T, a) = SentBy(a)
              /\ FlowOf(P, T, W, a) = FlowOf(Places, There, MinerOf, a)
  <2> SUFFICES ASSUME NEW a
               PROVE  /\ Sent(P, T, a) = SentBy(a)
                      /\ FlowOf(P, T, W, a) = FlowOf(Places, There, MinerOf, a)
      OBVIOUS
  <2>1. /\ Fees(P, T) = Fees(Places, There) /\ Amounts(P, T) = Amounts(Places, There)
        /\ Sent(P, T, a) = Sent(Places, There, a)
        /\ Received(P, T, a) = Received(Places, There, a)
        /\ Won(P, W, a) = Won(Places, MinerOf, a)
      BY <1>1, <1>5 DEF Fees, Amounts, Sent, Received, Won
  <2> QED BY <2>1, PartsOfFlow DEF FlowOf
<1>12. Told(acc[0], P, T, W, m, base)
  <2> SUFFICES ASSUME NEW a \in Accounts
               PROVE  /\ acc[0].nonces[a] = Cardinality(Sent(P, T, a))
                      /\ acc[0].balances[a] + (IF a = m THEN acc[0].totalFees ELSE 0) =
                             base[a] + FlowOf(P, T, W, a)
      BY DEF Told
  <2>1. state.nonces[a] = Cardinality(SentBy(a))
      BY <1>2 DEF NonceSequence
  <2>2. state.balances[a] = GenesisAllocation[a] + Total(Rewards, Mined(a)) + Flow(a)
        /\ state.balances[a] \in Nat
      BY <1>2 DEF BalanceAudit, Rewards, MoneyInv
  <2>3. Flow(a) = FlowOf(P, T, W, a)
      BY <1>11, PartsOfFlow
  <2>4. acc[0].balances[a] + (IF a = m THEN acc[0].totalFees ELSE 0) = state.balances[a]
      BY <1>6, <2>2 DEF InOrder
  <2>5. base[a] = GenesisAllocation[a] + Total(Rewards, Mined(a))
      BY <1>7
  <2> QED BY <1>6, <1>11, <2>1, <2>2, <2>3, <2>4, <2>5 DEF InOrder
<1>13. /\ IsFiniteSet(Q) /\ Priced(Q, T) /\ Told(acc[n], Q, T, W, m, base)
       /\ Counted(P, h, txs, n, T)
  <2>1. AtItsPlaces(P, h, txs, n, T, W, m)
      BY <1>3, <1>5 DEF AtItsPlaces
  <2>2. AppliesAll(acc, txs, n) /\ \A a \in Accounts : base[a] \in Int
      BY <1>6, <1>9 DEF InOrder
  <2> QED BY <1>3, <1>10, <1>12, <2>1, <2>2, BlockTold
<1>14. PlacesOK'
  <2>1. ASSUME NEW i \in 1..(h + 1)
        PROVE  /\ state'.blocks[i].transactions \in TransactionLists
               /\ state'.blocks[i].reward \in Nat
    <3>1. CASE i \in 1..h
        BY <1>2, <1>3, <3>1 DEF PlacesOK
    <3>2. CASE i = h + 1
        BY <1>2, <1>3, <3>2
    <3> QED BY <1>3, <3>1, <3>2
  <2> QED BY <1>1, <1>3, <1>13, <2>1 DEF PlacesOK
<1>15. /\ state'.nonces = acc[n].nonces
       /\ state'.balances = [acc[n].balances EXCEPT ![m] = @ + block.reward + acc[n].totalFees]
       /\ state'.balances \in [Accounts -> Nat]
  <2>1. state'.balances \in [Accounts -> Nat]
      BY <1>2, BlockMoves
  <2> QED BY <1>1, <1>6, <2>1 DEF InOrder, ApplyBlock, ApplyMinedBlock
<1>16. \A a : SentBy(a)' = Sent(Q, T, a) /\ Flow(a)' = FlowOf(Q, T, W, a)
    BY <1>1, PartsOfFlow
<1>17. NonceSequence'
  <2>1. \A a \in Accounts : state'.nonces[a] = Cardinality(SentBy(a)')
      BY <1>13, <1>15, <1>16 DEF Told
  <2>2. ASSUME NEW p \in P
        PROVE  T[p].nonce = Cardinality({q \in Sent(Q, T, T[p].from) : Before(q, p)})
    <3>1. TxAt(p).nonce = Cardinality({q \in SentBy(TxAt(p).from) : Before(q, p)})
        BY <1>1, <1>2 DEF NonceSequence
    <3>2. T[p] = TxAt(p)
        BY <1>1, <1>5 DEF There
    <3>3. PICK a : a = T[p].from
        OBVIOUS
    <3>4. \A q \in Q : Before(q, p) => q \in P
        BY <1>3, GrownBefore
    <3>5. {q \in Sent(Q, T, a) : Before(q, p)} = {q \in Sent(P, T, a) : Before(q, p)}
        BY <1>4, <3>4 DEF Sent
    <3> QED BY <1>11, <3>1, <3>2, <3>3, <3>5
  <2>3. ASSUME NEW k \in 1..n
        PROVE  txs[k].nonce =
                   Cardinality({q \in Sent(Q, T, txs[k].from) : Before(q, <<h + 1, k>>)})
    <3>1. PICK a : a = txs[k].from
        OBVIOUS
    <3>2. \A q \in Q : Before(q, <<h + 1, k>>) <=> q \in Grown(P, h, k - 1)
        BY <1>3, GrownBefore
    <3>3. Grown(P, h, k - 1) \subseteq Q
        BY <1>3 DEF Grown
    <3>4. {q \in Sent(Q, T, a) : Before(q, <<h + 1, k>>)} = Sent(Grown(P, h, k - 1), T, a)
        BY <3>2, <3>3 DEF Sent
    <3> QED BY <1>13, <3>1, <3>4 DEF Counted
  <2>4. ASSUME NEW p \in Q
        PROVE  T[p].nonce = Cardinality({q \in Sent(Q, T, T[p].from) : Before(q, p)})
    <3>1. CASE p \in P
        BY <2>2, <3>1
    <3>2. CASE p \notin P
      <4>1. PICK k \in 1..n : p = <<h + 1, k>>
          BY <1>3, <3>2 DEF Grown
      <4>2. T[p] = txs[k]
          BY <1>5, <4>1
      <4> QED BY <2>3, <4>1, <4>2
    <3> QED BY <3>1, <3>2
  <2>5. ASSUME NEW p \in Places'
        PROVE  TxAt(p)'.nonce =
                   Cardinality({q \in SentBy(TxAt(p).from)' : Before(q, p)})
    <3>1. p \in Q /\ T[p] = TxAt(p)'
        BY <1>1, <1>5
    <3>2. PICK a : a = T[p].from
        OBVIOUS
    <3>3. SentBy(TxAt(p).from)' = SentBy(a)'
        BY <3>1, <3>2 DEF SentBy
    <3>4. SentBy(a)' = Sent(Q, T, a)
        BY <1>16
    <3> QED BY <2>4, <3>1, <3>2, <3>3, <3>4
  <2> QED BY <2>1, <2>5 DEF NonceSequence
<1>18. BalanceAudit'
  <2> SUFFICES ASSUME NEW a \in Accounts
               PROVE  /\ state'.balances[a] >= 0
                      /\ state'.balances[a] = GenesisAllocation[a]
                                              + Total(Rewards, Mined(a))' + Flow(a)'
      BY DEF BalanceAudit, Rewards
  <2>1. PICK b, e, f, g, r, t, z :
            /\ b = acc[n].balances[a] /\ e = acc[n].totalFees /\ f = FlowOf(Q, T, W, a)
            /\ g = GenesisAllocation[a] /\ r = block.reward /\ t = Total(Rewards, Mined(a))
            /\ z = state'.balances[a]
      OBVIOUS
  <2>2. /\ b \in Nat /\ e \in Nat /\ g \in Int /\ r \in Nat /\ t \in Int /\ z \in Nat
        /\ f \in Int
    <3>1. acc[n] \in Context(txs)
        BY <1>3, <1>6 DEF InOrder, AppliesAll
    <3>2. b \in Nat /\ e \in Nat
        BY <2>1, <3>1 DEF Context
    <3>3. f \in Int
        BY <1>13, <2>1, FlowParts DEF FlowOf
    <3> QED BY <1>2, <1>8, <1>9, <1>15, <2>1, <3>2, <3>3
  <2>3. b + (IF a = m THEN e ELSE 0) = g + t + f
      BY <1>7, <1>13, <2>1 DEF Told
  <2>4. z = IF a = m THEN b + r + e ELSE b
    <3>1. acc[n].balances \in [Accounts -> Nat]
        BY <1>3, <1>6 DEF Context, InOrder, AppliesAll
    <3> QED BY <1>15, <2>1, <3>1
  <2>5. z = g + (t + (IF a = m THEN r ELSE 0)) + f
    <3>1. CASE a = m
        BY <2>2, <2>3, <2>4, <3>1
    <3>2. CASE a # m
        BY <2>2, <2>3, <2>4, <3>2
    <3> QED BY <3>1, <3>2
  <2> QED BY <1>8, <1>16, <2>1, <2>2, <2>5
<1> QED BY <1>14, <1>17, <1>18 DEF AccountsMatchBlocks

\* AuditInv is an invariant of the ledger.
THEOREM AuditInvariant == Spec => []AuditInv
<1>1. Init /\ MoneyInv => AuditInv
  <2> SUFFICES ASSUME Init, MoneyInv PROVE AuditInv
      OBVIOUS
  <2>1. /\ state.balances = GenesisAllocation /\ state.nonces = [a \in Accounts |-> 0]
        /\ state.blocks = <<>>
      BY DEF Init, CreateGenesisState
  <2>2. DOMAIN state.blocks = {} /\ Places = {}
      BY <2>1 DEF Places
  <2>3. PlacesOK
      BY <2>2, FS_EmptySet DEF PlacesOK, Priced
  <2>4. NonceSequence
      BY <2>1, <2>2, FS_EmptySet DEF NonceSequence, SentBy
  <2>5. BalanceAudit
    <3> SUFFICES ASSUME NEW a \in Accounts
                 PROVE  /\ state.balances[a] >= 0
                        /\ state.balances[a] =
                               GenesisAllocation[a] + Total(Rewards, Mined(a)) + Flow(a)
        BY DEF BalanceAudit, Rewards
    <3>1. \A f : Total(f, {}) = 0
        BY FS_EmptySet, TotalStep, LedgerTotal
    <3>2. /\ Mined(a) = {} /\ SentBy(a) = {} /\ ReceivedBy(a) = {}
          /\ {p \in Places : p[1] \in Mined(a)} = {}
        BY <2>2 DEF Mined, SentBy, ReceivedBy
    <3>3. Flow(a) = 0 /\ Total(Rewards, Mined(a)) = 0
      <4>1. PICK f, g : /\ f = [p \in Places |-> TxAt(p).fee]
                        /\ g = [p \in Places |-> TxAt(p).amount]
          OBVIOUS
      <4>2. Flow(a) = Total(f, {p \in Places : p[1] \in Mined(a)}) + Total(g, ReceivedBy(a))
                      - Total(g, SentBy(a)) - Total(f, SentBy(a))
          BY <4>1 DEF Flow
      <4>3. Flow(a) = Total(f, {}) + Total(g, {}) - Total(g, {}) - Total(f, {})
          BY <3>2, <4>2
      <4> QED BY <3>1, <3>2, <4>3
    <3>4. GenesisAllocation[a] \in Nat
        BY SupplyAssumption
    <3> QED BY <2>1, <3>3, <3>4
  <2> QED BY <2>3, <2>4, <2>5 DEF AuditInv, AccountsMatchBlocks
<1>2. AuditInv /\ MoneyInv' /\ [Next]_vars => AuditInv'
  <2> SUFFICES ASSUME AuditInv, MoneyInv', [Next]_vars PROVE AuditInv'
      OBVIOUS
  <2>1. CASE Next
    <3>1. PICK block, now : /\ ApplyBlock(block, now)
                            /\ block.minerAddress \in Accounts
                            /\ block.transactions \in TransactionLists
        BY <2>1, NextOffered
    <3> QED BY <3>1, AuditStep DEF AuditInv
  <2>2. CASE UNCHANGED vars
    <3>1. state' = state
        BY <2>2 DEF vars
    <3>2. Places' = Places /\ There' = There /\ \A a : SentBy(a)' = SentBy(a)
        BY <3>1 DEF Places, There, TxAt, SentBy
    <3>3. PlacesOK'
        BY <3>1, <3>2 DEF AuditInv, PlacesOK
    <3>4. NonceSequence'
        BY <3>1, <3>2 DEF AuditInv, AccountsMatchBlocks, NonceSequence, TxAt
    <3>5. \A a : Flow(a)' = Flow(a) /\ Mined(a)' = Mined(a)
        BY <3>1 DEF Flow, Places, TxAt, SentBy, ReceivedBy, Mined
    <3>6. BalanceAudit'
        BY <3>1, <3>5 DEF AuditInv, AccountsMatchBlocks, BalanceAudit
    <3> QED BY <3>3, <3>4, <3>6 DEF AuditInv, AccountsMatchBlocks
  <2> QED BY <2>1, <2>2
<1> QED
    BY MoneyInvariant, <1>1, <1>2, PTL DEF Spec

\* The nonces and balances are those the blocks of the chain tell, for every
\* configuration and list of transactions: no transaction is replayed, no
\* nonce skipped, and every balance is accounted for block by block
\* (src/medac_consensus.cjs:194-226, 326-335).
THEOREM AccountsAlwaysMatch == Spec => []AccountsMatchBlocks
<1>1. AuditInv => AccountsMatchBlocks
    BY DEF AuditInv
<1> QED
    BY AuditInvariant, <1>1, PTL
=============================================================================
