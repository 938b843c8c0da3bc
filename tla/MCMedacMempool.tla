--------------------------- MODULE MCMedacMempool ---------------------------
(***************************************************************************)
(* Two senders with little money: alice has two transactions of nonce 0    *)
(* that exclude each other and one of nonce 1, bob spends what alice sends *)
(* him.  Peers mine some of them, and offer a longer branch.               *)
(***************************************************************************)
EXTENDS MedacMempool

CONSTANTS alice, bob, genesis

MCAccounts == {alice, bob}
MCAllocation == [a \in MCAccounts |-> IF a = alice THEN 7 ELSE 1]

Tx(from, to, nonce, amount) ==
    [genesisHash |-> genesis, from |-> from, to |-> to, nonce |-> nonce,
     amount |-> amount, fee |-> 1, signer |-> from]

A0 == Tx(alice, bob, 0, 2)
A0x == Tx(alice, alice, 0, 5)
A1 == Tx(alice, bob, 1, 2)
B0 == Tx(bob, alice, 0, 2)

MCTransaction == {A0, A0x, A1, B0}
MCPeerLists == {<<>>, <<A0>>, <<A0x>>, <<A0, B0>>}
MCPeerChains == {<<Block("peer", <<A0x>>)>>,
                 <<Block("peer", <<>>), Block("peer", <<A0>>)>>,
                 <<Block("peer", <<A0>>), Block("peer", <<A1>>), Block("peer", <<>>)>>}
=============================================================================
