---------------------------- MODULE HeaviestChain ----------------------------
(***************************************************************************)
(* What a MEDAC chain promises its callers, whatever happens below it: the *)
(* chains it acknowledges are valid chains from genesis, and each one has  *)
(* strictly more cumulative work than the one before.                      *)
(***************************************************************************)
EXTENDS BlockTree

VARIABLE best        \* the chain acknowledged last

Init == best = <<>>

Next ==
    /\ best' \in Seq(Block)
    /\ IsChain(best')
    /\ WorkOf(best') > WorkOf(best)

Spec == Init /\ [][Next]_best
=============================================================================
