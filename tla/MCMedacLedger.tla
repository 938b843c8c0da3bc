---------------------------- MODULE MCMedacLedger ----------------------------
(***************************************************************************)
(* The instance of MedacLedger TLC explores: two holders and a miner, a    *)
(* reserve of 7 that runs out at the third block (rewards 3, 3, 1, 0), a   *)
(* retarget every second block, and transactions of every kind the rules   *)
(* tell apart.                                                             *)
(***************************************************************************)
EXTENDS MedacLedger

CONSTANTS alice, bob, carol, genesis, otherNetwork

MCAccounts == {alice, bob, carol}
MCMiners == {alice, carol}
MCAllocation == [a \in MCAccounts |-> CASE a = alice -> 6 [] a = bob -> 2 [] OTHER -> 0]

Tx(from, to, nonce, amount) ==
    [genesisHash |-> genesis, from |-> from, to |-> to, nonce |-> nonce,
     amount |-> amount, fee |-> 1, signer |-> from]

AliceToBob(nonce) == Tx(alice, bob, nonce, 2)
AliceToSelf == Tx(alice, alice, 0, 3)
BobToAlice == Tx(bob, alice, 0, 3)

\* Lists the rules accept in some state, and lists they must refuse: a foreign
\* network, a forged signature, a zero fee, a repeated transaction.
MCTransactionLists ==
    {<<>>, <<AliceToBob(0)>>, <<AliceToBob(1)>>, <<AliceToBob(0), AliceToBob(1)>>,
     <<AliceToSelf>>, <<BobToAlice>>, <<AliceToBob(0), BobToAlice>>,
     <<[BobToAlice EXCEPT !.genesisHash = otherNetwork]>>,
     <<[AliceToSelf EXCEPT !.signer = bob]>>,
     <<[AliceToSelf EXCEPT !.fee = 0]>>,
     <<AliceToBob(0), AliceToBob(0)>>}

MCTimestampSteps == {0, 1, 9}
MCClocks == {0, 60}
=============================================================================
