---------------------------- MODULE MCMedorUnits ----------------------------
(***************************************************************************)
(* The eighteen units of the C++ node that were given a module each, in    *)
(* instances for TLC: those of MedorUnits and MedorStateUnits, whose       *)
(* constants the cfg gives, and the two codecs, which share the variables  *)
(* below.                                                                  *)
(***************************************************************************)
EXTENDS MedorStateUnits, TLC

CONSTANTS a, b, c, d, t1, t2, t3

VARIABLES s1, s2, s3
codecVars == <<s1, s2, s3>>
units == <<unit, otherVars, stateVars, codecVars>>

NoCodecVars == s1 = Absent /\ s2 = Absent /\ s3 = Absent
NoStateVars == NoChainVars /\ NoPoolVars /\ NoJobVars /\ NoLogVars

-----------------------------------------------------------------------------
\* Two accounts and two blocks.
TwoBlocks == <<(a :> 1), (a :> 2) @@ (b :> 1)>>
TwoSenders == << <<a>>, <<b, b>> >>

\* Two transactions that are in order, and what the first becomes when one
\* thing about it is wrong.
Transfer(n) ==
    LET fields == [version |-> 1, toAddress |-> <<a>>, value |-> 1, gasLimit |-> 1,
                   maxFeePerGas |-> 1, maxPriorityFeePerGas |-> 1, nonce |-> n,
                   chainId |-> 1, v |-> 27, r |-> <<b>>, s |-> <<c>>, data |-> <<>>,
                   inputs |-> <<[outputIndex |-> 0]>>, outputs |-> <<>>, signed |-> TRUE]
    IN  fields @@ ("txHash" :> [f \in DOMAIN fields \ {"version", "v", "r", "s", "signed"} |->
                                    fields[f]])

Requests ==
    {Transfer(1), Transfer(2)}
    \cup {[Transfer(1) EXCEPT !.value = 2], [Transfer(1) EXCEPT !.v = 37],
          [Transfer(1) EXCEPT !.v = 29], [Transfer(1) EXCEPT !.signed = FALSE],
          [Transfer(2) EXCEPT !.version = 5], [Transfer(2) EXCEPT !.chainId = 2]}

\* Three hits of different worth in the first block, none in the second.
HitsOfTwo ==
    [n \in {1, 2} |-> [i \in 0..7 |-> IF n = 2 THEN 0
                                      ELSE IF i \in {1, 4} THEN 2
                                      ELSE IF i = 3 THEN 1 ELSE 0]]

\* One host, and the messages of two of four names with one prefix.
OneHost == [p \in {a, b} |-> 1]
Messages == {"block", "transaction", "batch", "ping"}
Kinds == [m \in Messages |-> m]
Prefixes == [m \in Messages |-> IF m = "ping" THEN ""
                                ELSE IF m = "transaction" THEN "block" ELSE m]

\* A contract with two units of money and an account with one.
Endowed == (a :> 2) @@ (b :> 1)

\* Two shards to sweep, the second with the key in it.
InSecond == [n \in {a} |-> 1]

\* Rewards of 1200 and then 10, so that shares and fees fall on both sides
\* of 1000 and of the flat fee; a cap that cuts the third reward short and
\* leaves nothing for the fourth; outputs that mature a block late.  An
\* account that is paid the large share twice is full.
TwoRewards == << <<1, 1200>>, <<100, 10>> >>

\* a and b conflict, c spends an output of a, d follows a's sender's nonce
\* and spends another output; a has a stripe of its own.
InputsOfFour == (a :> {<<Absent, 1>>}) @@ (b :> {<<Absent, 1>>})
                @@ (c :> {<<a, 1>>}) @@ (d :> {<<Absent, 2>>})
RecipientOfFour == [t \in {a, b, c, d} |-> IF t \in {a, b} THEN 2 ELSE 1]
NonceOfFour == [t \in {a, b, c, d} |-> IF t \in {b, d} THEN 2 ELSE 1]
StripeOfFour == [t \in {a, b, c, d} |-> IF t = a THEN 1 ELSE 2]

-----------------------------------------------------------------------------
\* Strings on both sides of each length at which the prefix changes, values
\* three deep, and every input of up to three of the bytes at the limits.
Rlp == INSTANCE MedorRlp WITH
    value <- s1, depth <- s2, input <- s3,
    Symbol <- {0, 127, 128, 129, 130, 184, 192, 193, 194, 195, 248}, MaxInput <- 3,
    Strings <- {[i \in 1..n |-> 128] : n \in {1, 2, 55, 56, 256}} \cup {<<>>, <<127>>},
    MaxDepth <- 3, Numbers <- {0, 1, 127, 128, 255, 256, 65535, 65536, 16777216}

RlpInit == unit = "rlp" /\ Rlp!Init
RlpNext == unit = "rlp" /\ Rlp!Next /\ UNCHANGED unit

-----------------------------------------------------------------------------
\* Blocks of up to two transactions; a checksum that knows the first byte,
\* the last and the length.
Checksum(bytes) ==
    IF bytes = <<>> THEN 0 ELSE 32768 * bytes[1] + 256 * bytes[Len(bytes)] + Len(bytes)

Codec == INSTANCE MedorCodec WITH
    block <- s1,
    MAGIC <- 1296323151, FrameTypes <- {1, 2}, MAX_FRAME_BYTES <- 400, MAX_TXS <- 3,
    WordBytes <- 4, CRC32C <- Checksum, Numbers <- {256}, Strings <- {<<>>, <<255, 0>>},
    MaxTxs <- 2

CodecInit == unit = "codec" /\ Codec!Init /\ s2 = Absent /\ s3 = Absent
CodecNext == unit = "codec" /\ Codec!Next /\ UNCHANGED <<unit, s2, s3>>

-----------------------------------------------------------------------------
Init ==
    \/ UnitsInit /\ NoStateVars /\ NoCodecVars
    \/ StateInit /\ NoCodecVars
    \/ (RlpInit \/ CodecInit)
       /\ NoOtherVars /\ clock = Absent /\ faults = Absent /\ NoStateVars

Next ==
    \/ UnitsNext /\ UNCHANGED <<chainVars, poolVars, jobVars, logVars, codecVars>>
    \/ StateNext /\ UNCHANGED codecVars
    \/ (RlpNext \/ CodecNext) /\ UNCHANGED <<otherVars, stateVars>>

Spec == Init /\ [][Next]_units

-----------------------------------------------------------------------------
\* What rlp.cpp and message_codec.cpp encode is decoded to itself, no prefix
\* of it is decoded, and what they accept of foreign bytes encodes again.
CodecsInvert ==
    /\ unit = "rlp" => Rlp!EncodingInverts
    /\ unit = "codec" => Codec!FramesInvert
=============================================================================
