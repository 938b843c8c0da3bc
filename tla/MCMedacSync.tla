----------------------------- MODULE MCMedacSync -----------------------------
(***************************************************************************)
(* Two instances of MedacSync.  The pair: n1 dials n2, over the branch     *)
(* a1-a2-a3 that n1 mines and b1, of the work of a1-a2, that n2 mines.     *)
(* The star: n2 and n3 dial n1, over a1-a2 that n1 mines and b1, heavier   *)
(* than both, that n3 mines, so that n1 can change branch while n2 is in   *)
(* the middle of downloading the other one.  Batches hold one block.       *)
(***************************************************************************)
EXTENDS MedacSync

CONSTANTS n1, n2, n3, a1, a2, a3, b1, gen

PairBlock == {a1, a2, a3, b1}
PairParent == [b \in PairBlock |->
    CASE b \in {a1, b1} -> gen [] b = a2 -> a1 [] b = a3 -> a2]
PairWork == [b \in PairBlock |->
    CASE b = a1 -> 1 [] b \in {a2, b1} -> 2 [] b = a3 -> 3]
PairMinedBy == [b \in PairBlock |-> IF b = b1 THEN n2 ELSE n1]
PairLinks == {<<n1, n2>>}

StarBlock == {a1, a2, b1}
StarParent == [b \in StarBlock |-> IF b = a2 THEN a1 ELSE gen]
StarWork == [b \in StarBlock |-> CASE b = a1 -> 1 [] b = a2 -> 2 [] b = b1 -> 3]
StarMinedBy == [b \in StarBlock |-> IF b = b1 THEN n3 ELSE n1]
StarLinks == {<<n2, n1>>, <<n3, n1>>}
=============================================================================
