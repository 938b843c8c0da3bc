------------------------------ MODULE MedorRlp ------------------------------
(***************************************************************************)
(* The recursive length prefix of src/src/crypto/rlp.cpp, in which         *)
(* transactions are hashed and signed.  Bytes are numbers below 256, an    *)
(* RlpValue is [bytes |-> ...] or [list |-> ...]; a decoder that throws    *)
(* returns Failed, one that does not the value and the next offset.        *)
(* Lengths stay below 2^31.                                                *)
(***************************************************************************)
EXTENDS Integers, SequencesExt, FiniteSetsExt

CONSTANTS Symbol,        \* the bytes that raw input is made of
          MaxInput,      \* bound on the length of raw input
          Strings,       \* the byte strings that values are made of
          MaxDepth,      \* bound on the nesting of values
          Numbers        \* the integers encoded

VARIABLES value,         \* a value to encode
          depth,         \* of value
          input          \* bytes to decode

rlpVars == <<value, depth, input>>

Failed == [ok |-> FALSE]

-----------------------------------------------------------------------------
(* Encoding *)

\* The digits of n > 0 in base 256, none leading zero; of 0 none.
RECURSIVE BigEndian(_)
BigEndian(n) == IF n = 0 THEN <<>> ELSE Append(BigEndian(n \div 256), n % 256)

\* Variant: 56 bytes count as short.
LongFromFiftySeven(len, offset) ==
    IF len <= 56 THEN <<offset + len>>
    ELSE <<offset + 55 + Len(BigEndian(len))>> \o BigEndian(len)

EncodeLength(len, offset) ==
    IF len < 56 THEN <<offset + len>>
    ELSE <<offset + 55 + Len(BigEndian(len))>> \o BigEndian(len)

EncodeBytes(data) ==
    IF Len(data) = 1 /\ data[1] < 128 THEN data
    ELSE EncodeLength(Len(data), 128) \o data

EncodeUInt(n) == EncodeBytes(BigEndian(n))

\* From the first byte that is not zero.
EncodeUInt256(word) ==
    LET digits == {i \in 1..32 : word[i] # 0}
    IN  EncodeBytes(IF digits = {} THEN <<>> ELSE SubSeq(word, Min(digits), 32))

EncodeList(items) ==
    LET payload == FlattenSeq(items) IN EncodeLength(Len(payload), 192) \o payload

RECURSIVE EncodeValue(_)
EncodeValue(v) ==
    IF "bytes" \in DOMAIN v THEN EncodeBytes(v.bytes)
    ELSE EncodeList([i \in DOMAIN v.list |-> EncodeValue(v.list[i])])

-----------------------------------------------------------------------------
(* Decoding, from an offset counted from zero *)

Number(digits) == FoldLeft(LAMBDA n, digit : n * 256 + digit, 0, digits)

\* Where the payload starts and how long it is.
DecodeLength(data, offset, base) ==
    LET prefix == data[offset + 1]
        lol == prefix - (base + 55)
        long == Number(SubSeq(data, offset + 2, offset + 1 + lol))
    IN  IF prefix < base THEN Failed
        ELSE IF lol <= 0 THEN [ok |-> TRUE, start |-> offset + 1, len |-> prefix - base]
        ELSE IF offset + 1 + lol > Len(data) \/ long < 56 THEN Failed
        ELSE [ok |-> TRUE, start |-> offset + 1 + lol, len |-> long]

Payload(data, at) == SubSeq(data, at.start + 1, at.start + at.len)

DecodeBytes(data, offset) ==
    LET prefix == data[offset + 1]
        at == DecodeLength(data, offset, 128)
    IN  IF offset >= Len(data) THEN Failed
        ELSE IF prefix < 128 THEN [ok |-> TRUE, value |-> <<prefix>>, next |-> offset + 1]
        ELSE IF prefix > 191 \/ ~at.ok THEN Failed
        ELSE IF at.start + at.len > Len(data) THEN Failed
        ELSE [ok |-> TRUE, value |-> Payload(data, at), next |-> at.start + at.len]

\* What decodeUInt64 and decodeUInt256 refuse besides.
IsInteger(bytes, width) == Len(bytes) <= width /\ ~(Len(bytes) > 1 /\ bytes[1] = 0)

DecodeUInt64(data, offset) ==
    LET got == DecodeBytes(data, offset)
    IN  IF ~got.ok THEN Failed
        ELSE IF ~IsInteger(got.value, 8) THEN Failed
        ELSE [got EXCEPT !.value = Number(got.value)]

\* Aligned to the right in 32 bytes.
DecodeUInt256(data, offset) ==
    LET got == DecodeBytes(data, offset)
    IN  IF ~got.ok THEN Failed
        ELSE IF ~IsInteger(got.value, 32) THEN Failed
        ELSE [got EXCEPT !.value = [i \in 1..(32 - Len(got.value)) |-> 0] \o got.value]

\* decodeList and decodeValue: the elements of a list are decoded up to the
\* end of the data, and must end where the list does.
RECURSIVE DecodeValue(_, _), DecodeItems(_, _, _)
DecodeItems(data, pos, end) ==
    LET child == DecodeValue(data, pos)
        rest == DecodeItems(data, child.next, end)
    IN  IF pos = end THEN [ok |-> TRUE, value |-> <<>>]
        ELSE IF pos > end \/ ~child.ok THEN Failed
        ELSE IF ~rest.ok THEN Failed
        ELSE [rest EXCEPT !.value = <<child.value>> \o @]

DecodeList(data, offset) ==
    LET at == DecodeLength(data, offset, 192)
        items == DecodeItems(data, at.start, at.start + at.len)
    IN  IF offset >= Len(data) THEN Failed
        ELSE IF ~at.ok THEN Failed
        ELSE IF at.start + at.len > Len(data) THEN Failed
        ELSE IF ~items.ok THEN Failed
        ELSE [ok |-> TRUE, value |-> items.value, next |-> at.start + at.len]

DecodeValue(data, offset) ==
    LET list == data[offset + 1] >= 192
        got == IF list THEN DecodeList(data, offset) ELSE DecodeBytes(data, offset)
    IN  IF offset >= Len(data) THEN Failed
        ELSE IF ~got.ok THEN Failed
        ELSE [got EXCEPT !.value = IF list THEN [list |-> @] ELSE [bytes |-> @]]

-----------------------------------------------------------------------------
(* Values and inputs, one after another *)

Init == value = [bytes |-> <<>>] /\ depth = 0 /\ input = <<>>

\* A value is put into a list, alone or between others.
Nest ==
    /\ input = <<>> /\ depth < MaxDepth
    /\ depth' = depth + 1
    /\ \E s \in Strings : value' \in {[list |-> <<>>], [list |-> <<value>>],
           [list |-> <<[bytes |-> s], value, [list |-> <<>>]>>], [bytes |-> s]}
    /\ UNCHANGED input

\* A caller hands in bytes from elsewhere.
Read ==
    /\ depth = 0 /\ Len(input) < MaxInput
    /\ \E b \in Symbol : input' = Append(input, b)
    /\ UNCHANGED <<value, depth>>

Next == Nest \/ Read

Spec == Init /\ [][Next]_rlpVars

-----------------------------------------------------------------------------
(* Properties *)

\* What was encoded is decoded to itself and ends where it ends; a prefix of
\* it is refused.
Inverts(v) ==
    LET data == EncodeValue(v)
    IN  /\ DecodeValue(data, 0) = [ok |-> TRUE, value |-> v, next |-> Len(data)]
        /\ \A n \in 0..(Len(data) - 1) : DecodeValue(SubSeq(data, 1, n), 0) = Failed

\* Integers of both widths come back, with the zeros they were given.
IntegersInvert ==
    \A n \in Numbers :
        LET digits == BigEndian(n)
            word == [i \in 1..(32 - Len(digits)) |-> 0] \o digits
        IN  /\ DecodeUInt64(EncodeUInt(n), 0).value = n
            /\ DecodeUInt256(EncodeUInt256(word), 0).value = word

\* Whatever input is accepted, its value is one that encodes, never longer
\* than what was read, and decodes again: nested lengths agree.
EncodingInverts ==
    /\ Inverts(value) /\ IntegersInvert
    /\ LET got == DecodeValue(input, 0)
       IN  got.ok => Inverts(got.value) /\ Len(EncodeValue(got.value)) <= got.next
=============================================================================
