---------------------------- MODULE MCMedorChain ----------------------------
(***************************************************************************)
(* The chain under the configuration of src/tests/test_blockchain.cpp:30:  *)
(* every block earns 55, however late.                                     *)
(***************************************************************************)
EXTENDS MedorChain

CONSTANTS owner, miner, treasury
OneReward == << <<1000, 55>> >>
=============================================================================
