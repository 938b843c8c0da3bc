------------------------------ MODULE MedorCodec ------------------------------
(***************************************************************************)
(* Frames, transactions and blocks as src/src/message_codec.cpp lays them  *)
(* out in bytes.  A decoder that returns nullopt returns Nothing; a frame  *)
(* that is not there yet is Incomplete.  Numbers stay below 2^31, so the   *)
(* upper bytes of the 64-bit fields are zero.                              *)
(***************************************************************************)
EXTENDS Integers, SequencesExt, FiniteSetsExt

CONSTANTS MAGIC, FrameTypes, MAX_FRAME_BYTES, MAX_TXS,
          WordBytes,         \* the bytes of r and s: 32
          CRC32C(_),         \* the checksum of a payload
          Numbers, Strings,  \* what the fields of a transaction may hold
          MaxTxs             \* bound on the transactions of a block

VARIABLE block

Nothing == [ok |-> FALSE]
Incomplete == [ok |-> FALSE, incomplete |-> TRUE]

NumberFields == <<"chainId", "nonce", "maxPriorityFeePerGas", "maxFeePerGas",
                  "gasLimit", "value", "v">>

-----------------------------------------------------------------------------
(* Numbers and strings *)

\* n in the given number of bytes, the highest first.
Write(n, width) ==
    [i \in 1..width |-> IF i <= width - 4 THEN 0 ELSE (n \div 256^(width - i)) % 256]

\* The number in the bytes after pos, the upper ones of which are zero.
Read(buf, pos, width) ==
    LET end == pos + width
    IN  buf[end] + 256 * (buf[end - 1] + 256 * (buf[end - 2] + 256 * buf[end - 3]))

AppendString(s) == Write(Len(s), 4) \o s

\* A reader goes on from where another stopped, unless that one failed.
ReadRaw(at, buf, len) ==
    IF ~at.ok THEN Nothing
    ELSE IF at.next + len > Len(buf) THEN Nothing
    ELSE [ok |-> TRUE, value |-> SubSeq(buf, at.next + 1, at.next + len), next |-> at.next + len]

ReadNumber(at, buf, width) ==
    LET raw == ReadRaw(at, buf, width)
    IN  IF raw.ok THEN [raw EXCEPT !.value = Read(@, 0, width)] ELSE Nothing

ReadString(at, buf) ==
    LET len == ReadNumber(at, buf, 4)
    IN  IF ~len.ok THEN Nothing
        ELSE IF len.value > MAX_FRAME_BYTES THEN Nothing
        ELSE ReadRaw(len, buf, len.value)

-----------------------------------------------------------------------------
(* Frames: magic, type, length, checksum, payload *)

HEADER_BYTES == 13

EncodeFrame(frame) ==
    IF Len(frame.payload) > MAX_FRAME_BYTES THEN Nothing
    ELSE [ok |-> TRUE,
          bytes |-> Write(MAGIC, 4) \o <<frame.type>> \o Write(Len(frame.payload), 4)
                    \o Write(CRC32C(frame.payload), 4) \o frame.payload]

DecodeFrame(buf) ==
    LET len == Read(buf, 5, 4)
        payload == SubSeq(buf, HEADER_BYTES + 1, HEADER_BYTES + len)
    IN  IF Len(buf) < HEADER_BYTES THEN Incomplete
        ELSE IF Read(buf, 0, 4) # MAGIC \/ buf[5] \notin FrameTypes THEN Nothing
        ELSE IF len > MAX_FRAME_BYTES THEN Nothing
        ELSE IF Len(buf) < HEADER_BYTES + len THEN Incomplete
        ELSE IF CRC32C(payload) # Read(buf, 9, 4) THEN Nothing
        ELSE [ok |-> TRUE, frame |-> [type |-> buf[5], payload |-> payload],
              consumed |-> HEADER_BYTES + len]

-----------------------------------------------------------------------------
(* Transactions: seven numbers, two strings, r, s, data; neither inputs nor  *)
(* outputs                                                                   *)

EncodeTransaction(tx) ==
    FlattenSeq([i \in 1..7 |-> Write(tx[NumberFields[i]], 8)])
    \o AppendString(tx.toAddress) \o AppendString(tx.txHash)
    \o tx.r \o tx.s \o AppendString(tx.data)

DecodeTransaction(buf) ==
    LET number(i) == Read(buf, 8 * (i - 1), 8)
        toAddress == ReadString([ok |-> TRUE, next |-> 56], buf)
        txHash == ReadString(toAddress, buf)
        r == ReadRaw(txHash, buf, WordBytes)
        s == ReadRaw(r, buf, WordBytes)
        data == ReadString(s, buf)
    IN  IF Len(buf) < 60 \/ ~data.ok THEN Nothing
        ELSE [ok |-> TRUE,
              tx |-> [chainId |-> number(1), nonce |-> number(2),
                      maxPriorityFeePerGas |-> number(3), maxFeePerGas |-> number(4),
                      gasLimit |-> number(5), value |-> number(6), v |-> number(7),
                      toAddress |-> toAddress.value, txHash |-> txHash.value,
                      r |-> r.value, s |-> s.value, data |-> data.value]]

-----------------------------------------------------------------------------
(* Blocks: two strings, three numbers, and each transaction in its length *)

AppendTransaction(bytes) == Write(Len(bytes), 4) \o bytes

EncodeBlock(b) ==
    AppendString(b.hash) \o AppendString(b.previousHash)
    \o Write(b.timestamp, 8) \o Write(b.reward, 8) \o Write(b.baseFee, 8)
    \o Write(Len(b.transactions), 4)
    \o FlattenSeq([i \in DOMAIN b.transactions |->
                      AppendTransaction(EncodeTransaction(b.transactions[i]))])

\* count transactions from at on, each in its length.
RECURSIVE ReadTransactions(_, _, _)
ReadTransactions(at, buf, count) ==
    LET bytes == ReadString(at, buf)
        decoded == DecodeTransaction(bytes.value)
        rest == ReadTransactions(bytes, buf, count - 1)
    IN  IF count = 0 THEN [ok |-> TRUE, value |-> <<>>]
        ELSE IF ~bytes.ok THEN Nothing
        ELSE IF ~decoded.ok \/ ~rest.ok THEN Nothing
        ELSE [ok |-> TRUE, value |-> <<decoded.tx>> \o rest.value]

DecodeBlock(buf) ==
    LET hash == ReadString([ok |-> TRUE, next |-> 0], buf)
        previousHash == ReadString(hash, buf)
        timestamp == ReadNumber(previousHash, buf, 8)
        reward == ReadNumber(timestamp, buf, 8)
        baseFee == ReadNumber(reward, buf, 8)
        count == ReadNumber(baseFee, buf, 4)
        transactions == ReadTransactions(count, buf, count.value)
    IN  IF Len(buf) < 16 \/ ~count.ok THEN Nothing
        ELSE IF count.value > MAX_TXS \/ ~transactions.ok THEN Nothing
        ELSE [ok |-> TRUE,
              block |-> [hash |-> hash.value, previousHash |-> previousHash.value,
                         timestamp |-> timestamp.value, reward |-> reward.value,
                         baseFee |-> baseFee.value, transactions |-> transactions.value]]

-----------------------------------------------------------------------------
(* Blocks, one transaction after another *)

Init ==
    \E n \in Numbers, h \in Strings :
        block = [hash |-> h, previousHash |-> <<9>>, timestamp |-> n, reward |-> n + 1, baseFee |-> 0,
                 transactions |-> <<>>]

Transact ==
    /\ Len(block.transactions) < MaxTxs
    /\ \E n \in Numbers, a, d \in Strings :
         block' = [block EXCEPT !.transactions = Append(@,
             [chainId |-> 1, nonce |-> n, maxPriorityFeePerGas |-> n + 1, maxFeePerGas |-> n + 2,
              gasLimit |-> 0, value |-> n + 3, v |-> 27, toAddress |-> a, txHash |-> <<7>>,
              r |-> [i \in 1..WordBytes |-> i], s |-> [i \in 1..WordBytes |-> 255], data |-> d])]

Next == Transact

Spec == Init /\ [][Next]_block

-----------------------------------------------------------------------------
(* Properties *)

\* A block comes back as it was encoded and from no prefix of its bytes; its
\* frame is found at the head of a stream, whatever follows, and not before
\* the last of its bytes is there.
FramesInvert ==
    LET bytes == EncodeBlock(block)
        framed == EncodeFrame([type |-> Min(FrameTypes), payload |-> bytes])
    IN  /\ DecodeBlock(bytes) = [ok |-> TRUE, block |-> block]
        /\ \A n \in 0..(Len(bytes) - 1) : DecodeBlock(SubSeq(bytes, 1, n)) = Nothing
        /\ framed.ok =>
             /\ DecodeFrame(framed.bytes \o framed.bytes) =
                  [ok |-> TRUE, frame |-> [type |-> Min(FrameTypes), payload |-> bytes],
                   consumed |-> Len(framed.bytes)]
             /\ \A n \in 0..(Len(framed.bytes) - 1) :
                  DecodeFrame(SubSeq(framed.bytes, 1, n)) = Incomplete
=============================================================================
