---------------------------- MODULE MCMedacChain ----------------------------
(***************************************************************************)
(* Two branches over one genesis: a1-a2-a3 of work 1 a block, b1-b2 of     *)
(* work 2 a block, so that a shorter chain can be the heavier one and a    *)
(* tie occurs (a1-a2 and b1).  One candidate is no chain.                  *)
(***************************************************************************)
EXTENDS MedacChain

CONSTANTS a1, a2, a3, b1, b2, gen

MCBlock == {a1, a2, a3, b1, b2}
MCParent == [b \in MCBlock |->
    CASE b \in {a1, b1} -> gen [] b = a2 -> a1 [] b = a3 -> a2 [] b = b2 -> b1]
MCCumulativeWork == [b \in MCBlock |->
    CASE b = a1 -> 1 [] b \in {a2, b1} -> 2 [] b = a3 -> 3 [] b = b2 -> 4]
MCCandidates == {<<a1>>, <<a1, a2>>, <<a1, a2, a3>>, <<b1>>, <<b1, b2>>, <<a1, b2>>}

\* The system calls that fail one at a time: all those up to the rename of
\* replace, and all.
FaultsBeforeRename == {"append", "append_written", "tmp_written", "tmp_synced"}
AllFaults == FaultsBeforeRename \cup {"renamed", "dir_synced"}
=============================================================================
