------------------------------ MODULE BlockTree ------------------------------
(***************************************************************************)
(* The blocks of a MEDAC network as a fixed tree under the genesis block.  *)
(* A block's validity at its place depends on its ancestors only, so what  *)
(* applyMinedBlock checks of it in a chain is that its parent precedes it; *)
(* its cumulative work is that of the state it leads to.                   *)
(***************************************************************************)
EXTENDS Integers, Sequences

CONSTANTS
    Block,            \* every block that will ever be mined
    Genesis,          \* the genesis block, not in Block
    Parent,           \* previousHash, as [Block -> Block \cup {Genesis}]
    CumulativeWork    \* cumulativeWork of the state a block leads to

TotalWork(b) == IF b = Genesis THEN 0 ELSE CumulativeWork[b]

\* Every block adds some work: its target is below the hash space.
ASSUME TreeAssumption ==
    /\ Genesis \notin Block
    /\ Parent \in [Block -> Block \cup {Genesis}]
    /\ CumulativeWork \in [Block -> Nat]
    /\ \A b \in Block : CumulativeWork[b] > TotalWork(Parent[b])

\* A chain is the sequence of its blocks; the genesis block is not in it.
Tip(chain) == IF chain = <<>> THEN Genesis ELSE chain[Len(chain)]

\* What replaying the blocks through applyMinedBlock accepts.
IsChain(chain) ==
    \A i \in 1..Len(chain) :
        Parent[chain[i]] = IF i = 1 THEN Genesis ELSE chain[i - 1]

WorkOf(chain) == TotalWork(Tip(chain))
=============================================================================
