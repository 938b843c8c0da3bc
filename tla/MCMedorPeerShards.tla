-------------------------- MODULE MCMedorPeerShards --------------------------
(***************************************************************************)
(* One shard that becomes two when it holds a second peer.                 *)
(***************************************************************************)
EXTENDS MedorPeerShards

CONSTANTS even, odd, t1, t2
MCHashOf == [p \in Peer |-> IF p = odd THEN 1 ELSE 0]
=============================================================================
