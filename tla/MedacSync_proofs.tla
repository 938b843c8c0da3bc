--------------------------- MODULE MedacSync_proofs ---------------------------
(***************************************************************************)
(* What the peer protocol keeps true of every node, for every tree of      *)
(* blocks, every set of nodes and links and every number of drops: a node  *)
(* moves along valid chains of growing work, and believes of a peer what   *)
(* the peer has.                                                           *)
(***************************************************************************)
EXTENDS MedacSync, SequenceTheorems, TLAPS

-----------------------------------------------------------------------------
(* Chains of the block tree and their work                                 *)

\* A chain extended by a block whose parent is its tip is a heavier chain.
LEMMA ExtendedChain ==
    ASSUME NEW c \in Seq(Block), NEW b \in Block, IsChain(c), Parent[b] = Tip(c)
    PROVE  /\ Append(c, b) \in Seq(Block)
           /\ IsChain(Append(c, b))
           /\ WorkOf(Append(c, b)) > WorkOf(c)
<1>1. /\ Append(c, b) \in Seq(Block) /\ Len(Append(c, b)) = Len(c) + 1
      /\ Append(c, b)[Len(c) + 1] = b
      /\ \A i \in 1..Len(c) : Append(c, b)[i] = c[i]
    OBVIOUS
<1>2. IsChain(Append(c, b))
  <2> SUFFICES ASSUME NEW i \in 1..(Len(c) + 1)
               PROVE  Parent[Append(c, b)[i]] =
                          IF i = 1 THEN Genesis ELSE Append(c, b)[i - 1]
      BY <1>1 DEF IsChain
  <2>1. CASE i \in 1..Len(c)
      BY <1>1, <2>1 DEF IsChain
  <2>2. CASE i = Len(c) + 1
    <3>1. CASE c = <<>>
        BY <1>1, <2>2, <3>1 DEF Tip
    <3>2. CASE c # <<>>
        BY <1>1, <2>2, <3>2 DEF Tip
    <3> QED BY <3>1, <3>2
  <2> QED BY <2>1, <2>2
<1>3. WorkOf(Append(c, b)) = CumulativeWork[b]
    BY <1>1, TreeAssumption DEF WorkOf, Tip, TotalWork
<1> QED
    BY <1>1, <1>2, <1>3, TreeAssumption DEF WorkOf

\* The work of a block, the genesis block's included, is a natural number.
LEMMA WorkIsNat ==
    ASSUME NEW c \in Seq(Block)
    PROVE  WorkOf(c) \in Nat /\ (c = <<>> => WorkOf(c) = 0)
<1>1. c # <<>> => Tip(c) \in Block
    BY DEF Tip
<1> QED
    BY <1>1, TreeAssumption DEF WorkOf, Tip, TotalWork

\* No blocks are a chain.
LEMMA EmptyChain == IsChain(<<>>)
BY DEF IsChain

-----------------------------------------------------------------------------
(* The inductive invariant *)

\* What a frame carries, when its sender has work w: no version frame announces
\* more work than that.
FrameOK(f, w) ==
    /\ f.type \in {"version", "get_blocks", "blocks", "block", "close"}
    /\ f.type = "version" => f.cumulativeWork \in Nat /\ f.cumulativeWork <= w
    /\ f.type = "block" => f.block \in Block
    /\ f.type = "blocks" /\ ~f.restart =>
           f.commonHeight \in Nat /\ f.tipHeight \in Nat /\ f.blocks \in Seq(Block)

FramesOK(s, w) ==
    /\ \E S : s \in Seq(S)
    /\ \A i \in 1..Len(s) : FrameOK(s[i], w)

\* The chains of the nodes.
ChainsOK ==
    /\ chain \in [Node -> Seq(Block)]
    /\ \A n \in Node : IsChain(chain[n])

\* What the nodes keep about their peers.
PeersOK ==
    /\ attached \in [Pairs -> BOOLEAN]
    /\ ready \in [Pairs -> BOOLEAN]
    /\ closing \in [Pairs -> BOOLEAN]
    /\ announced \in [Pairs -> Nat]
    /\ sync = [p \in Pairs |-> sync[p]]
    /\ \A p \in Pairs : sync[p] = None \/ sync[p] \in Seq(Block)
    /\ drops \in 0..MaxDrops

\* The peer has at least the work it announced.
AnnouncedOK == \A p \in Pairs : announced[p] <= Work(p[2])

ChannelsOK(ch) ==
    /\ ch = [p \in Pairs |-> ch[p]]
    /\ \A p \in Pairs : FramesOK(ch[p], Work(p[1]))

SyncInv == ChainsOK /\ PeersOK /\ AnnouncedOK /\ ChannelsOK(channel)

-----------------------------------------------------------------------------
(* Pairs and chains *)

\* A pair names two nodes, and the other end's pair is a pair.
LEMMA PairFacts ==
    ASSUME NEW p \in Pairs
    PROVE  p[1] \in Node /\ p[2] \in Node /\ p = <<p[1], p[2]>> /\ <<p[2], p[1]>> \in Pairs
BY SyncAssumption DEF Pairs, Flip

\* A node's work is a natural number.
LEMMA WorkNat ==
    ASSUME ChainsOK, NEW n \in Node
    PROVE  Work(n) \in Nat
BY WorkIsNat DEF ChainsOK, Work

-----------------------------------------------------------------------------
(* Frames on channels *)

\* An empty channel.
LEMMA NoFrames == ASSUME NEW w PROVE FramesOK(<<>>, w)
<1> SUFFICES ASSUME NEW s, s = <<>> PROVE FramesOK(s, w)
    OBVIOUS
<1>1. s \in Seq({})
    OBVIOUS
<1> QED BY <1>1 DEF FramesOK

\* A channel of one frame that may be sent.
LEMMA OneFrame ==
    ASSUME NEW f, NEW w, FrameOK(f, w)
    PROVE  FramesOK(<<f>>, w)
<1> SUFFICES ASSUME NEW s, s = <<f>> PROVE FramesOK(s, w)
    OBVIOUS
<1>1. s \in Seq({f}) /\ Len(s) = 1 /\ s[1] = f
    OBVIOUS
<1>2. \A i \in 1..Len(s) : s[i] = f
    BY <1>1
<1> QED BY <1>1, <1>2 DEF FramesOK

\* A sender's work grows: what it sent stays true.
LEMMA FramesKeep ==
    ASSUME NEW s, NEW w \in Nat, NEW v \in Nat, w <= v, FramesOK(s, w)
    PROVE  FramesOK(s, v)
BY DEF FramesOK, FrameOK

\* What is sent is put behind what is on its way.
LEMMA FramesConcat ==
    ASSUME NEW s, NEW t, NEW w, FramesOK(s, w), FramesOK(t, w)
    PROVE  FramesOK(s \o t, w)
<1>1. PICK S, T : s \in Seq(S) /\ t \in Seq(T)
    BY DEF FramesOK
<1>2. s \in Seq(S \cup T) /\ t \in Seq(S \cup T)
    BY <1>1
<1>3. /\ s \o t \in Seq(S \cup T) /\ Len(s \o t) = Len(s) + Len(t)
      /\ Len(s) \in Nat /\ Len(t) \in Nat
      /\ \A i \in 1..Len(s \o t) : (s \o t)[i] = IF i <= Len(s) THEN s[i] ELSE t[i - Len(s)]
    BY <1>2
<1>4. ASSUME NEW i \in 1..Len(s \o t) PROVE FrameOK((s \o t)[i], w)
  <2>1. CASE i <= Len(s)
      BY <1>3, <2>1 DEF FramesOK
  <2>2. CASE i > Len(s)
      BY <1>3, <2>2 DEF FramesOK
  <2> QED BY <1>3, <2>1, <2>2
<1> QED BY <1>3, <1>4 DEF FramesOK

\* What a reader takes off a channel, and what is left.
LEMMA FramesRead ==
    ASSUME NEW s, NEW w, FramesOK(s, w), s # <<>>
    PROVE  FrameOK(Head(s), w) /\ FramesOK(Tail(s), w)
<1>1. PICK S : s \in Seq(S)
    BY DEF FramesOK
<1>2. /\ Tail(s) \in Seq(S) /\ Len(s) \in Nat /\ Len(s) >= 1 /\ Head(s) = s[1]
      /\ Len(Tail(s)) = Len(s) - 1
      /\ \A i \in 1..Len(Tail(s)) : Tail(s)[i] = s[i + 1]
    BY <1>1, HeadTailProperties
<1> QED BY <1>2 DEF FramesOK

-----------------------------------------------------------------------------
(* What a step sends *)

\* Nothing that is sent announces more work than its sender has then.
SendsOK(sends) == \A p \in Pairs : FramesOK(sends[p], Work(p[1])')

\* A step that sends nothing.
LEMMA QuietOK == SendsOK(Quiet)
BY NoFrames DEF SendsOK, Quiet

\* One frame to one peer (sendPeer).
LEMMA SendOK ==
    ASSUME NEW pair \in Pairs, NEW f, FrameOK(f, Work(pair[1])')
    PROVE  SendsOK(Send(pair, f))
BY NoFrames, OneFrame DEF SendsOK, Send

\* One frame to every peer but one (broadcast, broadcastVersions).
LEMMA BroadcastOK ==
    ASSUME NEW n \in Node, NEW f, NEW except, FrameOK(f, Work(n)')
    PROVE  SendsOK(Broadcast(n, f, except))
BY NoFrames, OneFrame DEF SendsOK, Broadcast

\* A step that sends twice.
LEMMA BothOK ==
    ASSUME NEW first, NEW second, SendsOK(first), SendsOK(second)
    PROVE  SendsOK(Both(first, second))
BY FramesConcat DEF SendsOK, Both

\* Frames that name no work.
LEMMA PlainFrames ==
    ASSUME NEW w
    PROVE  /\ \A b \in Block : FrameOK(BlockFrame(b), w)
           /\ \A locator : FrameOK(GetBlocks(locator), w)
           /\ \A hash : FrameOK(GetMore(hash), w)
           /\ FrameOK(Restart, w) /\ FrameOK(Close, w)
BY DEF FrameOK, BlockFrame, GetBlocks, GetMore, Restart, Close

\* A version names the work of its sender's chain, or of an earlier one.
LEMMA VersionFrame ==
    ASSUME NEW c \in Seq(Block), NEW w, WorkOf(c) <= w
    PROVE  FrameOK(Version(c), w)
BY WorkIsNat DEF FrameOK, Version

\* A request is answered with blocks of the chain.
LEMMA ResponseOK ==
    ASSUME NEW c \in Seq(Block), NEW request, NEW w
    PROVE  FrameOK(Response(c, request), w)
<1>1. /\ Len(c) \in Nat /\ DOMAIN c = 1..Len(c)
      /\ \A hash : HeightOf(c, hash) \in Int /\ HeightOf(c, hash) <= Len(c)
    BY DEF HeightOf
<1> DEFINE common == CommonHeight(c, request)
           last == IF common + MaxBlocksPerResponse < Len(c)
                   THEN common + MaxBlocksPerResponse ELSE Len(c)
<1>2. common \in Int /\ common <= Len(c)
    BY <1>1 DEF CommonHeight
<1> HIDE DEF common
<1>3. CASE common < 0
    BY <1>3, PlainFrames DEF Response, common
<1>4. CASE common >= 0
  <2>1. last \in Nat /\ last <= Len(c) /\ common + 1 \in Nat
      BY <1>1, <1>2, <1>4, SyncAssumption
  <2>2. \A i \in (common + 1)..last : c[i] \in Block
      BY <1>2, <1>4, <2>1
  <2>3. SubSeq(c, common + 1, last) \in Seq(Block)
      BY <2>1, <2>2, SubSeqProperties
  <2>4. Response(c, request) =
            [type |-> "blocks", restart |-> FALSE, commonHeight |-> common,
             blocks |-> SubSeq(c, common + 1, last), more |-> last < Len(c),
             tipHeight |-> Len(c)]
      BY <1>2, <1>4 DEF Response, Batch, common
  <2> DEFINE blocks == SubSeq(c, common + 1, last)
             more == last < Len(c)
  <2> HIDE DEF last, blocks, more
  <2>5. Response(c, request) =
            [type |-> "blocks", restart |-> FALSE, commonHeight |-> common,
             blocks |-> blocks, more |-> more, tipHeight |-> Len(c)]
      BY <2>4 DEF blocks, more
  <2> QED BY <1>1, <1>2, <1>4, <2>3, <2>5 DEF FrameOK, blocks
<1> QED BY <1>2, <1>3, <1>4

\* What n reads, and the channels once it has.
LEMMA ReadOK ==
    ASSUME SyncInv, NEW p \in Pairs, channel[p] # <<>>
    PROVE  /\ FrameOK(Head(channel[p]), Work(p[1]))
           /\ ChannelsOK(Received(p))
<1>1. /\ FrameOK(Head(channel[p]), Work(p[1]))
      /\ FramesOK(Tail(channel[p]), Work(p[1]))
    BY FramesRead DEF SyncInv, ChannelsOK
<1> QED BY <1>1 DEF SyncInv, ChannelsOK, Received

\* What is sent joins channels that are right, and stays so as chains grow.
LEMMA TransmitOK ==
    ASSUME ChainsOK, ChainsOK', \A n \in Node : Work(n)' >= Work(n),
           NEW from, NEW sends, ChannelsOK(from), SendsOK(sends), Transmit(from, sends)
    PROVE  ChannelsOK(channel)'
<1>1. \A n \in Node : Work(n) \in Nat /\ Work(n)' \in Nat
    BY WorkIsNat DEF ChainsOK, Work
<1>2. \A p \in Pairs : FramesOK(from[p], Work(p[1])')
    BY <1>1, PairFacts, FramesKeep DEF ChannelsOK
<1>3. channel' = [p \in Pairs |-> IF closing[p] THEN from[p] ELSE from[p] \o sends[p]]
    BY DEF Transmit
<1>4. \A p \in Pairs : FramesOK(channel'[p], Work(p[1])')
    BY <1>2, <1>3, FramesConcat DEF SendsOK
<1> QED BY <1>3, <1>4 DEF ChannelsOK

-----------------------------------------------------------------------------
(* Steps *)

\* The chains as they were.
LEMMA ChainsStay ==
    ASSUME SyncInv, UNCHANGED chain
    PROVE  ChainsOK' /\ HeavierStep /\ \A n \in Node : Work(n)' = Work(n) /\ Work(n) \in Nat
BY WorkNat DEF SyncInv, ChainsOK, HeavierStep, Work

\* One node moves to a valid heavier chain.
LEMMA ChainGrows ==
    ASSUME SyncInv, NEW n \in Node, NEW c \in Seq(Block), IsChain(c), WorkOf(c) > Work(n),
           chain' = [chain EXCEPT ![n] = c]
    PROVE  /\ ChainsOK' /\ HeavierStep
           /\ \A k \in Node : Work(k)' >= Work(k)
           /\ FrameOK(Version(c), Work(n)')
<1>1. ChainsOK' /\ chain'[n] = c /\ \A k \in Node \ {n} : chain'[k] = chain[k]
    BY DEF SyncInv, ChainsOK
<1>2. \A k \in Node : Work(k) \in Nat /\ Work(k)' \in Nat
    BY <1>1, WorkNat, WorkIsNat DEF SyncInv, ChainsOK, Work
<1>3. HeavierStep /\ \A k \in Node : Work(k)' >= Work(k)
    BY <1>1, <1>2 DEF HeavierStep, Work
<1>4. WorkOf(c) <= Work(n)'
    BY <1>1, <1>2 DEF Work
<1> QED
    BY <1>1, <1>3, <1>4, VersionFrame

\* A block whose parent is the tip.
LEMMA BlockExtends ==
    ASSUME SyncInv, NEW n \in Node, NEW b \in Block, Parent[b] = Tip(chain[n])
    PROVE  /\ Append(chain[n], b) \in Seq(Block) /\ IsChain(Append(chain[n], b))
           /\ WorkOf(Append(chain[n], b)) > Work(n)
BY ExtendedChain DEF SyncInv, ChainsOK, Work

\* What a step on a channel comes to: the chains stay or grow, what it sends is
\* right, and what it notes of a peer is.
LEMMA StepKeeps ==
    ASSUME SyncInv, ChainsOK', \A n \in Node : Work(n)' >= Work(n),
           NEW from, NEW sends, ChannelsOK(from), SendsOK(sends), Transmit(from, sends),
           PeersOK', \A p \in Pairs : announced'[p] <= Work(p[2])
    PROVE  SyncInv'
<1>1. ChannelsOK(channel)'
    BY TransmitOK DEF SyncInv
<1>2. \A n \in Node : Work(n) \in Nat /\ Work(n)' \in Nat
    BY WorkIsNat DEF SyncInv, ChainsOK, Work
<1>3. \A p \in Pairs : announced'[p] \in Nat
    BY DEF PeersOK
<1>4. \A p \in Pairs : p[2] \in Node
    BY PairFacts
<1>5. \A p \in Pairs : announced'[p] <= Work(p[2])'
    BY <1>2, <1>3, <1>4
<1> QED BY <1>1, <1>5 DEF SyncInv, AnnouncedOK

\* What nodes keep of their peers, where a step leaves it alone.
LEMMA PeersStay ==
    ASSUME SyncInv, UNCHANGED <<attached, ready, closing, announced, drops>>,
           sync' = [p \in Pairs |-> sync'[p]],
           \A p \in Pairs : sync'[p] = None \/ sync'[p] \in Seq(Block)
    PROVE  PeersOK' /\ \A p \in Pairs : announced'[p] <= Work(p[2])
BY DEF SyncInv, PeersOK, AnnouncedOK

\* A block is mined or arrives, is appended, passed on and announced.
LEMMA BlockAppended ==
    ASSUME SyncInv, NEW n \in Node, NEW b \in Block, Parent[b] = Tip(chain[n]),
           NEW c, c = Append(chain[n], b), chain' = [chain EXCEPT ![n] = c],
           NEW from, ChannelsOK(from), NEW except,
           Transmit(from, Both(Broadcast(n, BlockFrame(b), except), Broadcast(n, Version(c), n))),
           UNCHANGED peerVars
    PROVE  SyncInv' /\ HeavierStep
<1>1. c \in Seq(Block) /\ IsChain(c) /\ WorkOf(c) > Work(n)
    BY BlockExtends
<1>2. /\ ChainsOK' /\ HeavierStep /\ \A k \in Node : Work(k)' >= Work(k)
      /\ FrameOK(Version(c), Work(n)') /\ FrameOK(BlockFrame(b), Work(n)')
    BY <1>1, ChainGrows, PlainFrames
<1> DEFINE sends == Both(Broadcast(n, BlockFrame(b), except), Broadcast(n, Version(c), n))
<1>3. SendsOK(sends)
    BY <1>2, BroadcastOK, BothOK
<1>4. PeersOK' /\ \A p \in Pairs : announced'[p] <= Work(p[2])
    BY PeersStay DEF peerVars, SyncInv, PeersOK
<1> QED
    BY <1>2, <1>3, <1>4, StepKeeps

\* A node mines on its tip, passes the block on and announces its chain.
LEMMA MineStep ==
    ASSUME SyncInv, NEW b \in Block, Mine(b)
    PROVE  SyncInv' /\ HeavierStep
<1>1. MinedBy[b] \in Node /\ ChannelsOK(channel)
    BY SyncAssumption DEF SyncInv
<1> QED
    BY <1>1, BlockAppended DEF Mine

\* What a step that leaves the chains alone comes to.
LEMMA QuietStep ==
    ASSUME SyncInv, UNCHANGED <<chain, attached, ready, closing, announced, drops>>,
           sync' = [p \in Pairs |-> sync'[p]],
           \A p \in Pairs : sync'[p] = None \/ sync'[p] \in Seq(Block),
           NEW from, NEW sends, ChannelsOK(from), SendsOK(sends), Transmit(from, sends)
    PROVE  SyncInv' /\ HeavierStep
<1>1. ChainsOK' /\ HeavierStep /\ \A n \in Node : Work(n)' >= Work(n)
    BY ChainsStay
<1> QED
    BY <1>1, PeersStay, StepKeeps

\* The frame n reads from m.
LEMMA HandlerReads ==
    ASSUME SyncInv, NEW n, NEW m, <<n, m>> \in Pairs, NEW type, Reads(n, m, type)
    PROVE  /\ n \in Node /\ m \in Node /\ <<m, n>> \in Pairs
           /\ FrameOK(Frame(n, m), Work(m)) /\ Frame(n, m).type = type
           /\ ChannelsOK(Received(<<m, n>>))
<1>1. n \in Node /\ m \in Node /\ <<m, n>> \in Pairs
    BY PairFacts
<1>2. channel[<<m, n>>] # <<>> /\ Frame(n, m) = Head(channel[<<m, n>>])
    BY DEF Reads, Frame
<1> QED
    BY <1>1, <1>2, ReadOK DEF Reads

\* n asks m for its chain.
LEMMA RequestOK ==
    ASSUME NEW n, NEW m, <<n, m>> \in Pairs, NEW c
    PROVE  SendsOK(RequestFrom(n, m, c))
BY SendOK, PlainFrames DEF RequestFrom

\* A step that changes what n keeps of one peer's download.
LEMMA SyncSet ==
    ASSUME SyncInv, NEW p \in Pairs, NEW c, c = None \/ c \in Seq(Block),
           sync' = [sync EXCEPT ![p] = c]
    PROVE  /\ sync' = [q \in Pairs |-> sync'[q]]
           /\ \A q \in Pairs : sync'[q] = None \/ sync'[q] \in Seq(Block)
BY DEF SyncInv, PeersOK

\* The downloads under way, where a step leaves them alone.
LEMMA SyncKept ==
    ASSUME SyncInv, UNCHANGED sync
    PROVE  /\ sync' = [q \in Pairs |-> sync'[q]]
           /\ \A q \in Pairs : sync'[q] = None \/ sync'[q] \in Seq(Block)
BY DEF SyncInv, PeersOK

\* A version: m's announcement is at most the work m has by now.
LEMMA OnVersionStep ==
    ASSUME SyncInv, NEW n, NEW m, <<n, m>> \in Pairs, OnVersion(n, m)
    PROVE  SyncInv' /\ HeavierStep
<1>1. /\ n \in Node /\ m \in Node /\ <<m, n>> \in Pairs
      /\ FrameOK(Frame(n, m), Work(m)) /\ Frame(n, m).type = "version"
      /\ ChannelsOK(Received(<<m, n>>))
    BY HandlerReads DEF OnVersion
<1>2. PICK w : w = Frame(n, m).cumulativeWork
    OBVIOUS
<1>3. /\ ready' = [ready EXCEPT ![<<n, m>>] = TRUE]
      /\ announced' = [announced EXCEPT ![<<n, m>>] = w]
      /\ sync' = [sync EXCEPT ![<<n, m>>] = None] \/ sync' = sync
      /\ \/ Transmit(Received(<<m, n>>), RequestFrom(n, m, chain[n]))
         \/ Transmit(Received(<<m, n>>), Quiet)
      /\ UNCHANGED <<chain, attached, closing, drops>>
    BY <1>2 DEF OnVersion
<1>4. w \in Nat /\ w <= Work(m)
    BY <1>1, <1>2 DEF FrameOK
<1>5. ChainsOK' /\ HeavierStep /\ \A k \in Node : Work(k)' >= Work(k)
    BY <1>3, ChainsStay
<1>6. /\ sync' = [q \in Pairs |-> sync'[q]]
      /\ \A q \in Pairs : sync'[q] = None \/ sync'[q] \in Seq(Block)
    BY <1>3, SyncSet, SyncKept
<1>7. PeersOK'
    BY <1>3, <1>4, <1>6 DEF SyncInv, PeersOK
<1>8. \A p \in Pairs : announced'[p] <= Work(p[2])
    BY <1>3, <1>4 DEF SyncInv, PeersOK, AnnouncedOK
<1> QED
    BY <1>1, <1>3, <1>5, <1>7, <1>8, RequestOK, QuietOK, StepKeeps

\* A peer asks for blocks: it is answered, and nothing else changes.
LEMMA OnGetBlocksStep ==
    ASSUME SyncInv, NEW n, NEW m, <<n, m>> \in Pairs, OnGetBlocks(n, m)
    PROVE  SyncInv' /\ HeavierStep
<1>1. n \in Node /\ ChannelsOK(Received(<<m, n>>))
    BY HandlerReads DEF OnGetBlocks
<1>2. PICK f : f = Response(chain[n], Frame(n, m))
    OBVIOUS
<1>3. \A w : FrameOK(f, w)
    BY <1>1, <1>2, ResponseOK DEF SyncInv, ChainsOK
<1>4. SendsOK(Send(<<n, m>>, f))
    BY <1>3, SendOK
<1> QED
    BY <1>1, <1>2, <1>4, SyncKept, QuietStep DEF OnGetBlocks, peerVars

\* A block arrives: it is appended, or its sender is asked for its chain.
LEMMA OnBlockStep ==
    ASSUME SyncInv, NEW n, NEW m, <<n, m>> \in Pairs, OnBlock(n, m)
    PROVE  SyncInv' /\ HeavierStep
<1>1. /\ n \in Node /\ ChannelsOK(Received(<<m, n>>))
      /\ FrameOK(Frame(n, m), Work(m)) /\ Frame(n, m).type = "block"
    BY HandlerReads DEF OnBlock
<1>2. PICK b : b = Frame(n, m).block
    OBVIOUS
<1>3. b \in Block
    BY <1>1, <1>2 DEF FrameOK
<1>4. CASE Parent[b] = Tip(chain[n])
  <2>1. PICK c : c = Append(chain[n], b)
      OBVIOUS
  <2>2. /\ chain' = [chain EXCEPT ![n] = c] /\ UNCHANGED peerVars
        /\ Transmit(Received(<<m, n>>),
                    Both(Broadcast(n, BlockFrame(b), m), Broadcast(n, Version(c), n)))
      BY <1>2, <1>4, <2>1 DEF OnBlock, peerVars
  <2> QED
      BY <1>1, <1>3, <1>4, <2>1, <2>2, BlockAppended
<1>5. CASE Parent[b] # Tip(chain[n])
  <2>1. /\ sync' = [sync EXCEPT ![<<n, m>>] = None]
        /\ Transmit(Received(<<m, n>>), RequestFrom(n, m, chain[n]))
        /\ UNCHANGED <<chain, attached, ready, closing, announced, drops>>
      BY <1>2, <1>5 DEF OnBlock
  <2> QED
      BY <1>1, <2>1, SyncSet, RequestOK, QuietStep
<1> QED BY <1>4, <1>5

\* The peer's chain changed meanwhile: the download begins again.
LEMMA OnRestartStep ==
    ASSUME SyncInv, NEW n, NEW m, <<n, m>> \in Pairs, OnRestart(n, m)
    PROVE  SyncInv' /\ HeavierStep
<1>1. ChannelsOK(Received(<<m, n>>))
    BY HandlerReads DEF OnRestart
<1>2. /\ sync' = [sync EXCEPT ![<<n, m>>] = None]
      /\ Transmit(Received(<<m, n>>), RequestFrom(n, m, chain[n]))
      /\ UNCHANGED <<chain, attached, ready, closing, announced, drops>>
    BY DEF OnRestart
<1> QED
    BY <1>1, <1>2, SyncSet, RequestOK, QuietStep

\* What is collected are blocks.
LEMMA CollectedBlocks ==
    ASSUME SyncInv, NEW n, NEW m, <<n, m>> \in Pairs, Reads(n, m, "blocks"),
           ~Frame(n, m).restart, ~UnknownCommon(n, m)
    PROVE  Collected(n, m) \in Seq(Block)
<1>1. n \in Node /\ FrameOK(Frame(n, m), Work(m)) /\ Frame(n, m).type = "blocks"
    BY HandlerReads
<1>2. Frame(n, m).commonHeight \in Nat /\ Frame(n, m).blocks \in Seq(Block)
    BY <1>1 DEF FrameOK
<1>3. chain[n] \in Seq(Block)
    BY <1>1 DEF SyncInv, ChainsOK
<1>4. CASE sync[<<n, m>>] = None
  <2>1. Frame(n, m).commonHeight <= Len(chain[n])
      BY <1>2, <1>3, <1>4 DEF UnknownCommon
  <2>2. \A i \in 1..Frame(n, m).commonHeight : chain[n][i] \in Block
      BY <1>2, <1>3, <2>1
  <2>3. SubSeq(chain[n], 1, Frame(n, m).commonHeight) \in Seq(Block)
      BY <1>2, <2>2, SubSeqProperties
  <2> QED BY <1>2, <1>4, <2>3 DEF Collected
<1>5. CASE sync[<<n, m>>] # None
    BY <1>2, <1>5 DEF Collected, SyncInv, PeersOK
<1> QED BY <1>4, <1>5

\* Blocks that are not the last: they are kept, and the next are asked for.
LEMMA OnBatchStep ==
    ASSUME SyncInv, NEW n, NEW m, <<n, m>> \in Pairs, OnBatch(n, m)
    PROVE  SyncInv' /\ HeavierStep
<1>1. ChannelsOK(Received(<<m, n>>))
    BY HandlerReads DEF OnBatch
<1>2. PICK c, f : c = Collected(n, m) /\ f = GetMore(Tip(Collected(n, m)))
    OBVIOUS
<1>3. c \in Seq(Block) /\ \A w : FrameOK(f, w)
    BY <1>2, CollectedBlocks, PlainFrames DEF OnBatch
<1>4. /\ sync' = [sync EXCEPT ![<<n, m>>] = c]
      /\ Transmit(Received(<<m, n>>), Send(<<n, m>>, f))
      /\ UNCHANGED <<chain, attached, ready, closing, announced, drops>>
    BY <1>2 DEF OnBatch
<1>5. SendsOK(Send(<<n, m>>, f))
    BY <1>3, SendOK
<1> QED
    BY <1>1, <1>3, <1>4, <1>5, SyncSet, QuietStep

\* The last batch: considerChain checks the candidate and compares its work with
\* that of the chain of the moment.
LEMMA OnLastBatchStep ==
    ASSUME SyncInv, NEW n, NEW m, <<n, m>> \in Pairs, OnLastBatch(n, m)
    PROVE  SyncInv' /\ HeavierStep
<1>1. n \in Node /\ ChannelsOK(Received(<<m, n>>))
    BY HandlerReads DEF OnLastBatch
<1>2. PICK c : c = Collected(n, m)
    OBVIOUS
<1>3. c \in Seq(Block)
    BY <1>2, CollectedBlocks DEF OnLastBatch
<1>4. /\ sync' = [sync EXCEPT ![<<n, m>>] = None]
      /\ UNCHANGED <<attached, ready, closing, announced, drops>>
    BY DEF OnLastBatch
<1>5. CASE /\ Adopts(n, c) /\ chain' = [chain EXCEPT ![n] = c]
           /\ Transmit(Received(<<m, n>>), Broadcast(n, Version(c), n))
  <2>1. /\ ChainsOK' /\ HeavierStep /\ \A k \in Node : Work(k)' >= Work(k)
        /\ FrameOK(Version(c), Work(n)')
      BY <1>1, <1>3, <1>5, ChainGrows DEF Adopts
  <2>2. SendsOK(Broadcast(n, Version(c), n))
      BY <1>1, <2>1, BroadcastOK
  <2>3. PeersOK' /\ \A p \in Pairs : announced'[p] <= Work(p[2])
      BY <1>4, SyncSet, PeersStay
  <2> QED
      BY <1>1, <1>5, <2>1, <2>2, <2>3, StepKeeps
<1>6. CASE Transmit(Received(<<m, n>>), Quiet) /\ UNCHANGED chain
    BY <1>1, <1>4, <1>6, SyncSet, QuietOK, QuietStep
<1> QED
    BY <1>2, <1>5, <1>6 DEF OnLastBatch

\* A response that is refused: the connection is closed, the chain stays.
LEMMA OnBatchRefusedStep ==
    ASSUME SyncInv, NEW n, NEW m, <<n, m>> \in Pairs, OnBatchRefused(n, m)
    PROVE  SyncInv' /\ HeavierStep
<1>1. ChannelsOK(Received(<<m, n>>))
    BY HandlerReads DEF OnBatchRefused
<1>2. PICK c : c = Collected(n, m)
    OBVIOUS
<1>3. ~UnknownCommon(n, m) => c \in Seq(Block)
    BY <1>2, CollectedBlocks DEF OnBatchRefused
<1>4. /\ closing' = [closing EXCEPT ![<<n, m>>] = TRUE]
      /\ Transmit(Received(<<m, n>>), Send(<<n, m>>, Close))
      /\ UNCHANGED <<chain, attached, ready, announced, drops>>
      /\ \/ UNCHANGED sync
         \/ ~UnknownCommon(n, m) /\ sync' = [sync EXCEPT ![<<n, m>>] = c]
         \/ sync' = [sync EXCEPT ![<<n, m>>] = None]
    BY <1>2 DEF OnBatchRefused, CloseSocket
<1>5. /\ sync' = [q \in Pairs |-> sync'[q]]
      /\ \A q \in Pairs : sync'[q] = None \/ sync'[q] \in Seq(Block)
    BY <1>3, <1>4, SyncSet, SyncKept
<1>6. PeersOK' /\ \A p \in Pairs : announced'[p] <= Work(p[2])
    BY <1>4, <1>5 DEF SyncInv, PeersOK, AnnouncedOK
<1>7. ChainsOK' /\ HeavierStep /\ \A k \in Node : Work(k)' >= Work(k)
    BY <1>4, ChainsStay
<1>8. SendsOK(Send(<<n, m>>, Close))
    BY SendOK, PlainFrames
<1> QED
    BY <1>1, <1>4, <1>6, <1>7, <1>8, StepKeeps

\* A connection is gone: both ends forget each other.
LEMMA DetachStep ==
    ASSUME SyncInv, NEW l, Detach(l), UNCHANGED chain, drops' \in 0..MaxDrops
    PROVE  SyncInv' /\ HeavierStep
<1>1. ChainsOK' /\ HeavierStep /\ \A k \in Node : Work(k)' = Work(k) /\ Work(k) \in Nat
    BY ChainsStay
<1>2. PICK ends : ends = {l, Flip(l)}
    OBVIOUS
<1>3. PeersOK'
    BY DEF Detach, SyncInv, PeersOK
<1>4. AnnouncedOK'
  <2>1. \A p \in Pairs : announced'[p] = IF p \in ends THEN 0 ELSE announced[p]
      BY <1>2 DEF Detach
  <2>2. \A p \in Pairs : p[2] \in Node
      BY PairFacts
  <2> QED
      BY <1>1, <2>1, <2>2 DEF SyncInv, AnnouncedOK
<1>5. ChannelsOK(channel)'
  <2>1. channel' = [p \in Pairs |-> IF p \in ends THEN <<>> ELSE channel[p]]
      BY <1>2 DEF Detach
  <2>2. ASSUME NEW p \in Pairs PROVE FramesOK(channel'[p], Work(p[1])')
    <3>1. p[1] \in Node
        BY PairFacts
    <3>2. FramesOK(channel[p], Work(p[1])')
        BY <1>1, <3>1 DEF SyncInv, ChannelsOK
    <3> QED BY <2>1, <3>2, NoFrames
  <2> QED BY <2>1, <2>2 DEF ChannelsOK
<1> QED
    BY <1>1, <1>3, <1>4, <1>5 DEF SyncInv

\* A node hangs up, as it decided when it refused a chain.
LEMMA OnCloseStep ==
    ASSUME SyncInv, NEW n, NEW m, OnClose(n, m)
    PROVE  SyncInv' /\ HeavierStep
BY DetachStep DEF OnClose, SyncInv, PeersOK

\* The network loses a connection.
LEMMA DropStep ==
    ASSUME SyncInv, NEW l \in Links, Drop(l)
    PROVE  SyncInv' /\ HeavierStep
<1>1. drops' \in 0..MaxDrops
    BY SyncAssumption DEF Drop, SyncInv, PeersOK
<1> QED
    BY <1>1, DetachStep DEF Drop

\* A connection opens at one end, which announces the work it has.
LEMMA AttachStep ==
    ASSUME SyncInv, NEW n, NEW m, <<n, m>> \in Pairs, Attach(n, m)
    PROVE  SyncInv' /\ HeavierStep
<1>1. n \in Node
    BY PairFacts
<1>2. PICK f : f = Version(chain[n])
    OBVIOUS
<1>3. /\ attached' = [attached EXCEPT ![<<n, m>>] = TRUE]
      /\ Transmit(channel, Send(<<n, m>>, f))
      /\ UNCHANGED <<chain, ready, closing, announced, sync, drops>>
    BY <1>2 DEF Attach
<1>4. /\ ChainsOK' /\ HeavierStep
      /\ \A k \in Node : Work(k)' = Work(k) /\ Work(k) \in Nat
    BY <1>3, ChainsStay
<1>5. FrameOK(f, Work(n)')
    BY <1>1, <1>2, <1>4, VersionFrame DEF SyncInv, ChainsOK, Work
<1>6. SendsOK(Send(<<n, m>>, f))
    BY <1>5, SendOK
<1>7. PeersOK' /\ \A p \in Pairs : announced'[p] <= Work(p[2])
    BY <1>3 DEF SyncInv, PeersOK, AnnouncedOK
<1>8. ChannelsOK(channel) /\ \A k \in Node : Work(k)' >= Work(k)
    BY <1>4 DEF SyncInv
<1> QED
    BY <1>3, <1>4, <1>6, <1>7, <1>8, StepKeeps

\* One end of a connection opens or accepts it.
LEMMA ConnectStep ==
    ASSUME SyncInv, NEW l \in Links, Accept(l) \/ Open(l)
    PROVE  SyncInv' /\ HeavierStep
<1>1. l = <<l[1], l[2]>> /\ <<l[1], l[2]>> \in Pairs /\ <<l[2], l[1]>> \in Pairs
    BY SyncAssumption DEF Pairs, Flip
<1> QED
    BY <1>1, AttachStep DEF Accept, Open

-----------------------------------------------------------------------------
(* Theorems *)

\* At the start every node has genesis and no connections.
LEMMA SyncInit == Init => SyncInv
<1> SUFFICES ASSUME Init PROVE SyncInv
    OBVIOUS
<1>1. ChainsOK
    BY EmptyChain DEF Init, ChainsOK
<1>2. PeersOK
    BY SyncAssumption DEF Init, PeersOK
<1>3. AnnouncedOK
  <2>1. \A p \in Pairs : p[2] \in Node
      BY PairFacts
  <2>2. \A p \in Pairs : announced[p] = 0
      BY DEF Init
  <2>3. \A n \in Node : Work(n) \in Nat
      BY <1>1, WorkNat
  <2> QED BY <2>1, <2>2, <2>3 DEF AnnouncedOK
<1>4. ChannelsOK(channel)
    BY NoFrames DEF Init, ChannelsOK
<1> QED BY <1>1, <1>2, <1>3, <1>4 DEF SyncInv

\* Every step of the node keeps the invariant and moves no chain but to a heavier one.
LEMMA SyncNext ==
    ASSUME SyncInv, Next
    PROVE  SyncInv' /\ HeavierStep
<1>1. ASSUME NEW p \in Pairs, Handle(p[1], p[2])
      PROVE  SyncInv' /\ HeavierStep
  <2>1. <<p[1], p[2]>> \in Pairs
      BY PairFacts
  <2> QED
      BY <1>1, <2>1, OnVersionStep, OnGetBlocksStep, OnBlockStep, OnRestartStep,
         OnBatchRefusedStep, OnBatchStep, OnLastBatchStep, OnCloseStep DEF Handle
<1> QED
    BY <1>1, MineStep, ConnectStep, DropStep DEF Next

\* A step that changes nothing.
LEMMA SyncStutter ==
    ASSUME SyncInv, UNCHANGED vars
    PROVE  SyncInv'
<1>1. /\ UNCHANGED <<chain, attached, ready, closing, announced, sync, drops>>
      /\ UNCHANGED channel
    BY DEF vars
<1>2. ChainsOK' /\ PeersOK'
    BY <1>1 DEF SyncInv, ChainsOK, PeersOK
<1>3. AnnouncedOK' /\ ChannelsOK(channel)'
    BY <1>1 DEF SyncInv, AnnouncedOK, ChannelsOK, Work
<1> QED BY <1>2, <1>3 DEF SyncInv

\* The invariant of the protocol: chains are chains, downloads are blocks, and
\* no version on its way or noted announces more work than its sender has.
THEOREM SyncInvariant == Spec => []SyncInv
<1>1. SyncInv /\ [Next]_vars => SyncInv'
    BY SyncNext, SyncStutter
<1> QED
    BY SyncInit, <1>1, PTL DEF Spec

\* The variables keep their types, and so do the frames under way.
THEOREM SyncTypes == Spec => []TypeOK
<1>1. SyncInv => TypeOK
  <2> SUFFICES ASSUME SyncInv PROVE TypeOK
      OBVIOUS
  <2>1. ASSUME NEW p \in Pairs, NEW i \in DOMAIN channel[p]
        PROVE  channel[p][i].type \in {"version", "get_blocks", "blocks", "block", "close"}
    <3>1. i \in 1..Len(channel[p])
      <4>1. PICK S : channel[p] \in Seq(S)
          BY DEF SyncInv, ChannelsOK, FramesOK
      <4> QED BY <4>1
    <3> QED BY <3>1 DEF SyncInv, ChannelsOK, FramesOK, FrameOK
  <2> QED BY <2>1 DEF SyncInv, ChainsOK, PeersOK, TypeOK
<1> QED
    BY SyncInvariant, <1>1, PTL

\* However requests, batches and blocks of several peers interleave, every node
\* moves only along valid chains of strictly growing work: considerChain checks
\* the candidate and its work against the chain of that moment.
THEOREM NodesFollowHeavierChains == Spec => EveryNodeHeaviest
<1>1. SyncInv /\ [Next]_vars => [HeavierStep]_chain
    BY SyncNext DEF vars
<1> QED
    BY SyncInvariant, <1>1, PTL DEF Spec, EveryNodeHeaviest

\* What a node believes of a peer is never more than the peer has: versions on
\* their way were true when sent, and work only grows.
THEOREM AnnouncementsAreReal == Spec => []AnnouncedIsReal
<1>1. SyncInv => AnnouncedIsReal
    BY DEF SyncInv, AnnouncedOK, AnnouncedIsReal
<1> QED
    BY SyncInvariant, <1>1, PTL

\* The abstract chain of a node is the one it has.
NodeChain(n) == INSTANCE HeaviestChain WITH best <- chain[n]

\* Each node of a network implements what a chain promises its callers, as the
\* chain over its journal does: every handler that touches the chain is a step
\* of HeaviestChain (considerChain and appendBlock as the protocol uses them).
THEOREM EveryNodeImplementsHeaviest ==
    ASSUME NEW n \in Node
    PROVE  Spec => NodeChain(n)!Spec
<1>1. Init => NodeChain(n)!Init
    BY DEF Init, NodeChain!Init
<1>2. SyncInv /\ [Next]_vars => [NodeChain(n)!Next]_(chain[n])
  <2> SUFFICES ASSUME SyncInv, Next, chain'[n] # chain[n] PROVE NodeChain(n)!Next
      BY DEF vars
  <2>1. HeavierStep /\ ChainsOK'
      BY SyncNext DEF SyncInv
  <2> QED
      BY <2>1 DEF HeavierStep, ChainsOK, NodeChain!Next, NodeChain!IsChain, NodeChain!WorkOf,
                  NodeChain!TotalWork, NodeChain!Tip, IsChain, WorkOf, TotalWork, Tip
<1> QED
    BY SyncInvariant, <1>1, <1>2, PTL DEF Spec, NodeChain!Spec
=============================================================================
