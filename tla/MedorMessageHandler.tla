------------------------- MODULE MedorMessageHandler -------------------------
(***************************************************************************)
(* MessageHandler (src/src/net/message_handler.cpp): what a frame makes    *)
(* the handler ask of the PeerManager, call by call, with frames of        *)
(* several peers handled at once.                                          *)
(*                                                                         *)
(* A message is the outcome the handler's checks give its frame.  The id   *)
(* under which it is marked as seen is the frame's first 32 bytes: all     *)
(* messages of a kind without a payload, and those that begin alike, share *)
(* one.                                                                    *)
(***************************************************************************)
EXTENDS MedorPeerManager

CONSTANTS
    Message,    \* the messages peers send
    MaxReceived \* bound

VARIABLE received
handlerVars == <<pmVars, received>>

HandlerInit == Init /\ received = 0

-----------------------------------------------------------------------------
(* decodeFrame and the size check, before a message is looked at *)

Undecodable == {"short", "bad magic", "bad type", "truncated"}
Malformed(p, message) ==
    IF message \in Undecodable THEN <<RecordDecodeError(p), Score(p, -30)>>
    ELSE <<Score(p, -100)>>

HandleHandshake(p, message) ==
    IF message = "short handshake" THEN <<Score(p, -100)>>
    ELSE IF message = "other version" THEN <<Score(p, -200)>>
    ELSE IF message = "other network" THEN <<BanPeer(p)>>
    ELSE <<Score(p, 50)>>

HandleBlock(p, message) ==
    IF message = "bad block" THEN <<Score(p, -100), RecordDecodeError(p)>>
    ELSE IF message = "no hash" THEN <<Score(p, -100)>>
    ELSE <<Score(p, 20)>>

HandleTransaction(p, message) ==
    IF message = "bad transaction" THEN <<Score(p, -50), RecordDecodeError(p)>>
    ELSE IF message = "invalid transaction" THEN <<Score(p, -50)>>
    ELSE IF message = "refused transaction" THEN <<>>
    ELSE <<Score(p, 5)>>

\* buildTxBatch puts whole frames into the batch and handleTxBatch hands
\* them on as payloads: none of them parses.
HandleTxBatch(p) ==
    HandleTransaction(p, "bad transaction") \o HandleTransaction(p, "bad transaction")

HandleReject(p) == <<Score(p, -10)>>
HandleUnknown(p) == <<Score(p, -20)>>

\* handleHandshakeAck, handlePong, handlePeers, handleHeaders; pings and
\* requests are answered and change nothing.
Reward(p, message) ==
    IF message = "ack" THEN <<Score(p, 20)>>
    ELSE IF message = "headers" THEN <<Score(p, 10)>>
    ELSE IF message \in {"pong", "peers"} THEN <<Score(p, 5)>>
    ELSE <<>>

Handler(p, message) ==
    IF message \in {"handshake", "short handshake", "other version", "other network"}
    THEN HandleHandshake(p, message)
    ELSE IF message \in {"block", "bad block", "no hash"} THEN HandleBlock(p, message)
    ELSE IF message \in {"transaction", "bad transaction", "invalid transaction", "refused transaction"}
    THEN HandleTransaction(p, message)
    ELSE IF message = "batch" THEN HandleTxBatch(p)
    ELSE IF message = "reject" THEN HandleReject(p)
    ELSE IF message = "unknown" THEN HandleUnknown(p)
    ELSE Reward(p, message)

-----------------------------------------------------------------------------
(* handleRaw *)

\* checkRateLimit: a peer that is not known is limited, too.
CheckRateLimit(p) ==
    LET peer == Refilled(peers[p])
    IN  IF p \notin Known THEN [ok |-> FALSE, peers |-> peers]
        ELSE IF peer.tokens >= 1
        THEN [ok |-> TRUE, peers |-> Changed(p, [peer EXCEPT !.tokens = @ - 1])]
        ELSE [ok |-> FALSE, peers |-> Changed(p, peer)]

\* Bans are not looked at.
Receive(t, p, message) ==
    /\ starts > 0 /\ received < MaxReceived /\ received' = received + 1
    /\ todo[t] = <<>>
    /\ LET limit == CheckRateLimit(p)
       IN  /\ peers' = limit.peers
           /\ todo' = [todo EXCEPT ![t] =
                  IF ~limit.ok THEN <<Score(p, -50)>>
                  ELSE IF message \in Undecodable \cup {"large"} THEN Malformed(p, message)
                  ELSE << [do |-> "seen", peer |-> p, id |-> message] >>]
    /\ UNCHANGED <<dirtyIds, peerFile, seenActive, seenStale, accepted, clock, starts>>

Dispatch(t) ==
    /\ todo[t] # <<>> /\ Call(t).do = "seen"
    /\ LET p == Call(t).peer
           id == Call(t).id
       IN  IF Seen(id) THEN Return(t) /\ UNCHANGED <<seenActive, seenStale, accepted>>
           ELSE Mark(id) /\ ReturnAnd(t, <<Score(p, 1)>> \o Handler(p, id))
    /\ UNCHANGED <<peers, dirtyIds, peerFile, clock, starts, received>>

HandlerNext ==
    \/ ManagerStep /\ UNCHANGED received
    \/ /\ received < MaxReceived /\ received' = received + 1
       /\ \E t \in Worker, p \in Peer : DoHandshake(t, p)
    \/ \E t \in Worker, p \in Peer, message \in Message : Receive(t, p, message)
    \/ \E t \in Worker : Dispatch(t)

HandlerSpec == HandlerInit /\ [][HandlerNext]_handlerVars
=============================================================================
