------------------------------ MODULE MedacSync ------------------------------
(***************************************************************************)
(* The peer protocol of MEDAC nodes (src/medac_node.cjs): the handshake    *)
(* (version), the announcement of new work, the gossip of mined blocks and *)
(* the download of a heavier chain in batches (get_blocks, blocks), over   *)
(* connections that close, drop and are dialled again.                     *)
(*                                                                         *)
(* A handler is one step: the promise callbacks it leaves run before the   *)
(* next event in all but one case (several frames in one read), which      *)
(* MedacMempool has.  Each node's chain is its MedacChain, a chain of the  *)
(* block tree.  A connection is a pair of first-in first-out channels.     *)
(* Left out: transactions (MedacMempool), timers for handshake, heartbeat  *)
(* and rate limit, whose effect is that of Drop, and the byte limit of a   *)
(* response, which only makes a batch shorter.                             *)
(***************************************************************************)
EXTENDS BlockTree, FiniteSets

CONSTANTS
    Node,
    Links,            \* pairs <<dialler, listener>>: seedPeers of the diallers
    MinedBy,          \* the node that can mine each block
    MaxBlocksPerResponse,
    LocatorDense,     \* locators are dense for this many blocks, then sparse
    LocatorMax,
    MaxDrops,         \* bound: connections the network breaks
    None              \* peer.sync = null

ASSUME SyncAssumption ==
    /\ Links \subseteq Node \X Node
    /\ \A l \in Links : l[1] # l[2] /\ <<l[2], l[1]>> \notin Links
    /\ MinedBy \in [Block -> Node]
    /\ MaxBlocksPerResponse \in Nat \ {0}
    /\ LocatorDense \in Nat /\ LocatorMax \in Nat \ {0}
    /\ MaxDrops \in Nat

Flip(pair) == <<pair[2], pair[1]>>

\* <<n, m>>: what n keeps about its peer m.
Pairs == Links \cup {Flip(l) : l \in Links}

VARIABLES
    chain,            \* chain[n]: this.chain.state.blocks of n
    attached,         \* attached[<<n, m>>]: m is in n.peers
    ready,            \* peer.ready: m's version has arrived
    closing,          \* n called peer.socket.close
    announced,        \* peer.cumulativeWork, by m's last version
    sync,             \* peer.sync.blocks, or None
    channel,          \* channel[<<n, m>>]: frames on their way from n to m
    drops             \* connections broken so far

vars == <<chain, attached, ready, closing, announced, sync, channel, drops>>
peerVars == <<attached, ready, closing, announced, sync, drops>>

Work(n) == WorkOf(chain[n])

-----------------------------------------------------------------------------
(* Frames *)

Version(c) == [type |-> "version", cumulativeWork |-> WorkOf(c)]
BlockFrame(b) == [type |-> "block", block |-> b]
GetBlocks(locator) == [type |-> "get_blocks", locator |-> locator, afterHash |-> None]
GetMore(hash) == [type |-> "get_blocks", locator |-> None, afterHash |-> hash]
Restart == [type |-> "blocks", restart |-> TRUE]
Close == [type |-> "close"]

\* _requestBlocks: hashes from the tip down, one by one and then with doubling
\* gaps, and the genesis hash.
Locator(c) ==
    LET height[k \in 1..LocatorMax] ==
            IF k = 1 THEN Len(c)
            ELSE height[k - 1] - (IF k - 1 <= LocatorDense + 1 THEN 1
                                  ELSE 2 ^ (k - 2 - LocatorDense))
        count == Cardinality({k \in 1..LocatorMax : height[k] >= 1})
    IN  [k \in 1..(count + 1) |-> IF k <= count THEN c[height[k]] ELSE Genesis]

\* The height of a hash on chain c; -1 if it is not there.
HeightOf(c, hash) ==
    IF hash = Genesis THEN 0
    ELSE IF \E i \in DOMAIN c : c[i] = hash THEN CHOOSE i \in DOMAIN c : c[i] = hash ELSE -1

\* The block a request starts after: the first of the locator on the chain, or
\* afterHash; -1 asks the requester to restart.
CommonHeight(c, request) ==
    IF request.locator = None THEN HeightOf(c, request.afterHash)
    ELSE LET hits == {k \in DOMAIN request.locator : HeightOf(c, request.locator[k]) >= 0}
         IN  IF hits = {} THEN -1
             ELSE HeightOf(c, request.locator[CHOOSE k \in hits : \A j \in hits : k <= j])

Batch(c, common) ==
    LET last == IF common + MaxBlocksPerResponse < Len(c)
                THEN common + MaxBlocksPerResponse ELSE Len(c)
    IN  [type |-> "blocks", restart |-> FALSE, commonHeight |-> common,
         blocks |-> SubSeq(c, common + 1, last), more |-> last < Len(c),
         tipHeight |-> Len(c)]

\* _serveBlocks.
Response(c, request) ==
    LET common == CommonHeight(c, request)
    IN  IF common < 0 THEN Restart ELSE Batch(c, common)

-----------------------------------------------------------------------------
(* Sending.  sends maps pairs to the frames one step puts on them; a socket *)
(* that is closing sends nothing.                                           *)

Send(pair, frame) == [p \in Pairs |-> IF p = pair THEN <<frame>> ELSE <<>>]

Quiet == [p \in Pairs |-> <<>>]

\* _broadcast: to the peers of n that are ready.
Broadcast(n, frame, except) ==
    [p \in Pairs |->
        IF p[1] = n /\ attached[p] /\ ready[p] /\ p[2] # except THEN <<frame>> ELSE <<>>]

Both(first, second) == [p \in Pairs |-> first[p] \o second[p]]

Transmit(from, sends) ==
    channel' = [p \in Pairs |-> IF closing[p] THEN from[p] ELSE from[p] \o sends[p]]

\* The channels once the frame at the head of pair has been read.
Received(pair) == [channel EXCEPT ![pair] = Tail(@)]

\* peer.socket.close: the close frame follows what was sent before it.
CloseSocket(n, m) ==
    /\ closing' = [closing EXCEPT ![<<n, m>>] = TRUE]
    /\ Transmit(Received(<<m, n>>), Send(<<n, m>>, Close))

-----------------------------------------------------------------------------

Init ==
    /\ chain = [n \in Node |-> <<>>]
    /\ attached = [p \in Pairs |-> FALSE]
    /\ ready = [p \in Pairs |-> FALSE]
    /\ closing = [p \in Pairs |-> FALSE]
    /\ announced = [p \in Pairs |-> 0]
    /\ sync = [p \in Pairs |-> None]
    /\ channel = [p \in Pairs |-> <<>>]
    /\ drops = 0

(* Connections *)

\* _attachPeer: a fresh peer object, and our version as the first frame.
Attach(n, m) ==
    /\ ~attached[<<n, m>>]
    /\ attached' = [attached EXCEPT ![<<n, m>>] = TRUE]
    /\ Transmit(channel, Send(<<n, m>>, Version(chain[n])))
    /\ UNCHANGED <<chain, ready, closing, announced, sync, drops>>

\* The server accepts the connection of a dialler (connectTo, or its
\* reconnection timer) ...
Accept(l) ==
    /\ ~attached[l]
    /\ Attach(l[2], l[1])

\* ... and the dialler's socket opens.
Open(l) ==
    /\ attached[Flip(l)]
    /\ Attach(l[1], l[2])

\* Both sockets of link l are gone (_removePeer on both sides).
Detach(l) ==
    LET ends == {l, Flip(l)}
    IN  /\ attached' = [p \in Pairs |-> p \notin ends /\ attached[p]]
        /\ ready' = [p \in Pairs |-> p \notin ends /\ ready[p]]
        /\ closing' = [p \in Pairs |-> p \notin ends /\ closing[p]]
        /\ announced' = [p \in Pairs |-> IF p \in ends THEN 0 ELSE announced[p]]
        /\ sync' = [p \in Pairs |-> IF p \in ends THEN None ELSE sync[p]]
        /\ channel' = [p \in Pairs |-> IF p \in ends THEN <<>> ELSE channel[p]]

LinkOf(pair) == IF pair \in Links THEN pair ELSE Flip(pair)

\* The network, a timeout or the rate limit breaks the connection.
Drop(l) ==
    /\ attached[Flip(l)]
    /\ drops < MaxDrops
    /\ drops' = drops + 1
    /\ Detach(l)
    /\ UNCHANGED chain

(* Handlers: n reads the frame at the head of the channel from m. *)

Reads(n, m, type) ==
    /\ attached[<<n, m>>]
    /\ channel[<<m, n>>] # <<>>
    /\ Head(channel[<<m, n>>]).type = type

Frame(n, m) == Head(channel[<<m, n>>])

RequestFrom(n, m, c) == Send(<<n, m>>, GetBlocks(Locator(c)))

OnVersion(n, m) ==
    /\ Reads(n, m, "version")
    /\ ready' = [ready EXCEPT ![<<n, m>>] = TRUE]
    /\ announced' = [announced EXCEPT ![<<n, m>>] = Frame(n, m).cumulativeWork]
    /\ LET behind == Frame(n, m).cumulativeWork > Work(n)
       IN  /\ sync' = IF behind THEN [sync EXCEPT ![<<n, m>>] = None] ELSE sync
           /\ Transmit(Received(<<m, n>>),
                       IF behind THEN RequestFrom(n, m, chain[n]) ELSE Quiet)
    /\ UNCHANGED <<chain, attached, closing, drops>>

OnGetBlocks(n, m) ==
    /\ Reads(n, m, "get_blocks")
    /\ Transmit(Received(<<m, n>>), Send(<<n, m>>, Response(chain[n], Frame(n, m))))
    /\ UNCHANGED <<chain, peerVars>>

\* A mined block: appended if it extends the tip, and then passed on; any other
\* block, known ones included, makes n ask m for its chain.
OnBlock(n, m) ==
    /\ Reads(n, m, "block")
    /\ LET b == Frame(n, m).block
           extended == Append(chain[n], b)
       IN  IF Parent[b] = Tip(chain[n])
           THEN /\ chain' = [chain EXCEPT ![n] = extended]
                /\ Transmit(Received(<<m, n>>),
                            Both(Broadcast(n, BlockFrame(b), m),
                                 Broadcast(n, Version(extended), n)))
                /\ UNCHANGED sync
           ELSE /\ sync' = [sync EXCEPT ![<<n, m>>] = None]
                /\ Transmit(Received(<<m, n>>), RequestFrom(n, m, chain[n]))
                /\ UNCHANGED chain
    /\ UNCHANGED <<attached, ready, closing, announced, drops>>

OnRestart(n, m) ==
    /\ Reads(n, m, "blocks") /\ Frame(n, m).restart
    /\ sync' = [sync EXCEPT ![<<n, m>>] = None]
    /\ Transmit(Received(<<m, n>>), RequestFrom(n, m, chain[n]))
    /\ UNCHANGED <<chain, attached, ready, closing, announced, drops>>

\* peer.sync.blocks after this response: it starts from the common part of our
\* chain as it is now, which need not be the chain the request was made from.
Collected(n, m) ==
    LET response == Frame(n, m)
        base == IF sync[<<n, m>>] = None
                THEN SubSeq(chain[n], 1, response.commonHeight) ELSE sync[<<n, m>>]
    IN  base \o response.blocks

\* The response is refused: its common block is above our tip, or the blocks do
\* not add up to the announced height, or they are no chain.  In the first case
\* nothing was collected; in the second peer.sync keeps what was.
UnknownCommon(n, m) ==
    sync[<<n, m>>] = None /\ Frame(n, m).commonHeight > Len(chain[n])

OnBatchRefused(n, m) ==
    /\ Reads(n, m, "blocks") /\ ~Frame(n, m).restart
    /\ \/ /\ UnknownCommon(n, m)
          /\ UNCHANGED sync
       \/ /\ ~UnknownCommon(n, m) /\ ~Frame(n, m).more
          /\ Len(Collected(n, m)) # Frame(n, m).tipHeight
          /\ sync' = [sync EXCEPT ![<<n, m>>] = Collected(n, m)]
       \/ /\ ~UnknownCommon(n, m) /\ ~Frame(n, m).more
          /\ Len(Collected(n, m)) = Frame(n, m).tipHeight
          /\ ~IsChain(Collected(n, m))
          /\ sync' = [sync EXCEPT ![<<n, m>>] = None]
    /\ CloseSocket(n, m)
    /\ UNCHANGED <<chain, attached, ready, announced, drops>>

\* Variant: a batch that is not the last is kept, and no more is asked for.
KeepBatch(n, m) ==
    /\ Reads(n, m, "blocks") /\ ~Frame(n, m).restart
    /\ ~UnknownCommon(n, m) /\ Frame(n, m).more
    /\ sync' = [sync EXCEPT ![<<n, m>>] = Collected(n, m)]
    /\ Transmit(Received(<<m, n>>), Quiet)
    /\ UNCHANGED <<chain, attached, ready, closing, announced, drops>>

OnBatch(n, m) ==
    /\ Reads(n, m, "blocks") /\ ~Frame(n, m).restart
    /\ ~UnknownCommon(n, m) /\ Frame(n, m).more
    /\ sync' = [sync EXCEPT ![<<n, m>>] = Collected(n, m)]
    /\ Transmit(Received(<<m, n>>), Send(<<n, m>>, GetMore(Tip(Collected(n, m)))))
    /\ UNCHANGED <<chain, attached, ready, closing, announced, drops>>

\* Variant: any valid chain a peer completes is adopted.
AdoptsAnyChain(n, candidate) == IsChain(candidate)

\* Variant: the longest chain, and not the heaviest, is adopted.
AdoptsLongest(n, candidate) == IsChain(candidate) /\ Len(candidate) > Len(chain[n])

\* The last batch: considerChain adopts the candidate if it is heavier than the
\* chain n has by now, and n then announces its new work to every ready peer.
Adopts(n, candidate) == IsChain(candidate) /\ WorkOf(candidate) > Work(n)

OnLastBatch(n, m) ==
    /\ Reads(n, m, "blocks") /\ ~Frame(n, m).restart
    /\ ~UnknownCommon(n, m) /\ ~Frame(n, m).more
    /\ LET candidate == Collected(n, m)
       IN  /\ Len(candidate) = Frame(n, m).tipHeight
           /\ \/ /\ Adopts(n, candidate)
                 /\ chain' = [chain EXCEPT ![n] = candidate]
                 /\ Transmit(Received(<<m, n>>), Broadcast(n, Version(candidate), n))
              \/ /\ IsChain(candidate) /\ ~Adopts(n, candidate)
                 /\ Transmit(Received(<<m, n>>), Quiet)
                 /\ UNCHANGED chain
    /\ sync' = [sync EXCEPT ![<<n, m>>] = None]
    /\ UNCHANGED <<attached, ready, closing, announced, drops>>

OnClose(n, m) ==
    /\ Reads(n, m, "close")
    /\ Detach(LinkOf(<<n, m>>))
    /\ UNCHANGED <<chain, drops>>

Handle(n, m) ==
    \/ OnVersion(n, m) \/ OnGetBlocks(n, m) \/ OnBlock(n, m)
    \/ OnRestart(n, m) \/ OnBatchRefused(n, m) \/ OnBatch(n, m) \/ OnLastBatch(n, m)
    \/ OnClose(n, m)

\* mine: the new block is appended, sent to the ready peers, and announced.
Mine(b) ==
    LET n == MinedBy[b]
        extended == Append(chain[n], b)
    IN  /\ Parent[b] = Tip(chain[n])
        /\ chain' = [chain EXCEPT ![n] = extended]
        /\ Transmit(channel, Both(Broadcast(n, BlockFrame(b), n),
                                  Broadcast(n, Version(extended), n)))
        /\ UNCHANGED peerVars

Next ==
    \/ \E b \in Block : Mine(b)
    \/ \E l \in Links : Accept(l) \/ Open(l) \/ Drop(l)
    \/ \E p \in Pairs : Handle(p[1], p[2])

Spec == Init /\ [][Next]_vars

\* Sockets deliver, the reconnection timers fire.  Nobody need mine, and no
\* connection need break.
Fairness ==
    /\ \A p \in Pairs : WF_vars(Handle(p[1], p[2]))
    /\ \A l \in Links : WF_vars(Accept(l)) /\ WF_vars(Open(l))

FairSpec == Spec /\ Fairness

-----------------------------------------------------------------------------
(* Properties *)

TypeOK ==
    /\ chain \in [Node -> Seq(Block)]
    /\ attached \in [Pairs -> BOOLEAN]
    /\ ready \in [Pairs -> BOOLEAN]
    /\ closing \in [Pairs -> BOOLEAN]
    /\ announced \in [Pairs -> Nat]
    /\ \A p \in Pairs : sync[p] = None \/ sync[p] \in Seq(Block)
    /\ \A p \in Pairs : \A i \in DOMAIN channel[p] :
           channel[p][i].type \in {"version", "get_blocks", "blocks", "block", "close"}
    /\ drops \in 0..MaxDrops

\* However requests, batches and blocks of several peers interleave, a node
\* moves only along valid chains of strictly growing work (the step of
\* HeaviestChain): no mixture of two peers' branches is ever adopted, and no tie
\* displaces the chain in place.
HeavierStep ==
    \A n \in Node : chain'[n] # chain[n] =>
        /\ IsChain(chain'[n])
        /\ WorkOf(chain'[n]) > WorkOf(chain[n])
EveryNodeHeaviest == [][HeavierStep]_chain

\* What a node believes of a peer is never more than the peer has.
AnnouncedIsReal ==
    \A p \in Pairs : attached[p] => announced[p] <= Work(p[2])

\* A node that knows a peer to be ahead does not stay behind it while they are
\* connected: batches, restarts and refused responses included.
Behind(p) == attached[p] /\ announced[p] > Work(p[1])
CatchesUp == \A p \in Pairs : Behind(p) ~> ~Behind(p)

\* Once connections stay up and mining rests, connected nodes reach chains of
\* equal work.
Converges == \A l \in Links : <>[](Work(l[1]) = Work(l[2]))
=============================================================================
