-------------------------- MODULE MedacChain_proofs --------------------------
(***************************************************************************)
(* The crash consistency of the MEDAC chain, for every tree of blocks and  *)
(* every number of crashes and failing calls: what a call acknowledged     *)
(* survives, and the acknowledged chains implement HeaviestChain.          *)
(*                                                                         *)
(* The theorems hold under FaultModel: system calls fail only up to the    *)
(* rename of replace, and what dies is the machine.  Outside it they are   *)
(* false (see the runs on the other fault points).                         *)
(***************************************************************************)
EXTENDS MedacChain, TLAPS

-----------------------------------------------------------------------------
(* Chains of the block tree and their work                                 *)

\* A chain extended by a block whose parent is its tip is a heavier chain.
LEMMA ExtendedChain ==
    ASSUME NEW c \in Seq(Block), NEW b \in Block, IsChain(c), Parent[b] = Tip(c)
    PROVE  /\ Append(c, b) \in Seq(Block)
           /\ IsChain(Append(c, b))
           /\ WorkOf(Append(c, b)) > WorkOf(c)
<1>1. /\ Append(c, b) \in Seq(Block) /\ Len(Append(c, b)) = Len(c) + 1
      /\ Append(c, b)[Len(c) + 1] = b
      /\ \A i \in 1..Len(c) : Append(c, b)[i] = c[i]
    OBVIOUS
<1>2. IsChain(Append(c, b))
  <2> SUFFICES ASSUME NEW i \in 1..(Len(c) + 1)
               PROVE  Parent[Append(c, b)[i]] =
                          IF i = 1 THEN Genesis ELSE Append(c, b)[i - 1]
      BY <1>1 DEF IsChain
  <2>1. CASE i \in 1..Len(c)
      BY <1>1, <2>1 DEF IsChain
  <2>2. CASE i = Len(c) + 1
    <3>1. CASE c = <<>>
        BY <1>1, <2>2, <3>1 DEF Tip
    <3>2. CASE c # <<>>
        BY <1>1, <2>2, <3>2 DEF Tip
    <3> QED BY <3>1, <3>2
  <2> QED BY <2>1, <2>2
<1>3. WorkOf(Append(c, b)) = CumulativeWork[b]
    BY <1>1, TreeAssumption DEF WorkOf, Tip, TotalWork
<1> QED
    BY <1>1, <1>2, <1>3, TreeAssumption DEF WorkOf

\* The work of a block, the genesis block's included, is a natural number.
LEMMA WorkIsNat ==
    ASSUME NEW c \in Seq(Block)
    PROVE  WorkOf(c) \in Nat /\ (c = <<>> => WorkOf(c) = 0)
<1>1. c # <<>> => Tip(c) \in Block
    BY DEF Tip
<1> QED
    BY <1>1, TreeAssumption DEF WorkOf, Tip, TotalWork

\* No blocks are a chain.
LEMMA EmptyChain == IsChain(<<>>)
BY DEF IsChain

\* Two chains one after the other are no chain: the second starts at genesis.
LEMMA TwoChains ==
    ASSUME NEW c \in Seq(Block), NEW d \in Seq(Block),
           c # <<>>, d # <<>>, IsChain(d)
    PROVE  ~IsChain(c \o d)
<1>1. /\ Len(c) \in Nat /\ Len(c) > 0 /\ Len(d) \in Nat /\ Len(d) > 0
      /\ Len(c \o d) = Len(c) + Len(d)
      /\ (c \o d)[Len(c) + 1] = d[1] /\ (c \o d)[Len(c)] = c[Len(c)]
    OBVIOUS
<1>2. Parent[d[1]] = Genesis
    BY <1>1 DEF IsChain
<1>3. c[Len(c)] \in Block
    BY <1>1
<1> SUFFICES ASSUME IsChain(c \o d) PROVE FALSE
    OBVIOUS
<1>4. \A i \in 1..Len(c \o d) :
          Parent[(c \o d)[i]] = IF i = 1 THEN Genesis ELSE (c \o d)[i - 1]
    BY DEF IsChain
<1>5. Len(c) + 1 \in 1..Len(c \o d) /\ Len(c) + 1 # 1 /\ (Len(c) + 1) - 1 = Len(c)
    BY <1>1
<1>6. Parent[(c \o d)[Len(c) + 1]] = (c \o d)[Len(c)]
    BY <1>4, <1>5
<1> QED
    BY <1>1, <1>2, <1>3, <1>6, TreeAssumption

FaultModel ==
    /\ FaultPoints \cap {"renamed", "dir_synced"} = {}
    /\ CrashKinds \subseteq {"power"}

-----------------------------------------------------------------------------
(* The inductive invariant *)

Named == {entry, durableEntry} \ {NoFile}

\* A file that serves the acknowledged chain.
Serves(file) ==
    /\ file.header
    /\ IsChain(file.blocks)
    /\ WorkOf(file.blocks) >= WorkOf(acked)

\* Every file the name may lead to after a crash holds a chain, and one that
\* serves the acknowledged chain if there is one.
DiskInv ==
    /\ \A i \in Named : IsChain(cached[i].blocks) /\ IsChain(synced[i].blocks)
    /\ acked # <<>> =>
           /\ entry # NoFile /\ durableEntry # NoFile
           /\ \A i \in Named : Serves(cached[i]) /\ Serves(synced[i])

\* A store that is not open; its journal, if it has one, is durably named.
\* this.blocks outlives a close, but then the journal is not empty either, and
\* the next open of the same object is refused.
ClosedInv ==
    pc \in {"down", "closed", "locked", "journal", "truncated"} =>
        /\ entry = durableEntry
        /\ chainFd = NoFile
        /\ pc \in {"journal", "truncated"} => entry # NoFile
        /\ blocks # <<>> => entry # NoFile /\ cached[entry].blocks # <<>>
        /\ pc = "down" => blocks = <<>>

\* The first journal is being created: nothing has been acknowledged.
CreatingInv ==
    pc \in {"created", "header_written", "header_synced"} =>
        /\ acked = <<>>
        /\ entry # NoFile /\ durableEntry = NoFile /\ chainFd = NoFile
        /\ blocks = <<>>
        /\ cached[entry].blocks = <<>> /\ synced[entry].blocks = <<>>

\* An open store and its chain agree.
OpenInv ==
    pc \in {"ready"} \cup AppendSteps \cup ReplaceSteps =>
        /\ entry # NoFile /\ durableEntry # NoFile /\ chainFd # NoFile
        /\ blocks = chain
        /\ IsChain(chain)
        /\ WorkOf(chain) >= WorkOf(acked)

ReadyInv ==
    pc = "ready" =>
        /\ chainFd = entry /\ durableEntry = entry
        /\ cached[entry] = Journal(chain)

AppendInv ==
    pc \in AppendSteps =>
        /\ chainFd = entry /\ durableEntry = entry
        /\ before = Journal(chain)
        /\ pending = Append(chain, pending[Len(pending)])
        /\ IsChain(pending) /\ WorkOf(pending) > WorkOf(chain)
        /\ pc = "append_written" => cached[entry] = Journal(pending)
        /\ pc = "rollback_truncated" => cached[entry] = Journal(chain)

ReplaceInv ==
    pc \in ReplaceSteps =>
        /\ IsChain(pending) /\ WorkOf(pending) > WorkOf(chain)
        /\ tmp # NoFile /\ cached[tmp] = Journal(pending)
        /\ pc # "tmp_written" => synced[tmp] = Journal(pending)
        /\ pc \in {"tmp_written", "tmp_synced"} =>
               /\ chainFd = entry /\ durableEntry = entry /\ tmp # entry
               /\ cached[entry] = Journal(chain)
        /\ pc \in {"renamed", "dir_synced"} => entry = tmp
        /\ pc = "dir_synced" => durableEntry = entry

ChainInv ==
    /\ TypeOK
    /\ DiskInv /\ ClosedInv /\ CreatingInv
    /\ OpenInv /\ ReadyInv /\ AppendInv /\ ReplaceInv

-----------------------------------------------------------------------------
(* Journals of chains *)

\* A complete file with its header is the journal of its blocks.
LEMMA FileIsJournal ==
    ASSUME NEW f \in File, f.header, ~f.torn
    PROVE  f = Journal(f.blocks)
BY DEF File, Journal

\* A file just created is a file.
LEMMA EmptyFile == Empty \in File
BY DEF Empty, File

\* The journal of a chain is a file that holds its blocks.
LEMMA JournalFields ==
    ASSUME NEW c \in Seq(Block)
    PROVE  /\ Journal(c) \in File
           /\ Journal(c).header /\ Journal(c).blocks = c /\ ~Journal(c).torn
BY DEF File, Journal

\* A record appended to a journal makes the journal of the longer chain.
LEMMA JournalExtends ==
    ASSUME NEW c \in Seq(Block), NEW d \in Seq(Block)
    PROVE  [Journal(c) EXCEPT !.blocks = d] = Journal(d)
<1> DEFINE written == [Journal(c) EXCEPT !.blocks = d]
<1>1. Journal(c) \in File /\ Journal(c).header /\ ~Journal(c).torn
    BY JournalFields
<1> HIDE DEF Journal
<1>2. /\ written \in File /\ written.blocks = d
      /\ written.header = Journal(c).header /\ written.torn = Journal(c).torn
    BY <1>1 DEF File
<1> QED
    BY <1>1, <1>2, FileIsJournal

-----------------------------------------------------------------------------
\* The invariant holds of a fresh data directory.
LEMMA ChainInit == Init => ChainInv
<1> SUFFICES ASSUME Init PROVE ChainInv
    OBVIOUS
<1>1. <<>> \in Seq(Block)
    OBVIOUS
<1>2. TypeOK
    BY <1>1, EmptyFile DEF Init, StoreInit, TypeOK, StoreTypeOK, Steps
<1>3. DiskInv /\ ClosedInv /\ CreatingInv
    BY DEF Init, StoreInit, DiskInv, ClosedInv, CreatingInv, Named
<1>4. OpenInv /\ ReadyInv /\ AppendInv /\ ReplaceInv
    BY DEF Init, StoreInit, OpenInv, ReadyInv, AppendInv, ReplaceInv,
           AppendSteps, ReplaceSteps
<1> QED
    BY <1>2, <1>3, <1>4 DEF ChainInv

-----------------------------------------------------------------------------
(* The steps of open *)

\* The lock is taken.
LEMMA TakeLockStep ==
    ASSUME ChainInv, TakeLock, UNCHANGED <<chain, acked>>
    PROVE  ChainInv'
<1>1. TypeOK'
    BY DEF ChainInv, TakeLock, TypeOK, StoreTypeOK, Steps, OpenSteps, File, Empty, diskVars, Sync
<1>2. DiskInv'
    BY EmptyChain DEF ChainInv, TakeLock, TypeOK, StoreTypeOK, DiskInv, ClosedInv, CreatingInv, Named,
       Serves, FreeInodes, Empty, diskVars, Sync
<1>3. ClosedInv' /\ CreatingInv'
    BY DEF ChainInv, TakeLock, TypeOK, StoreTypeOK, DiskInv, ClosedInv, CreatingInv, FreeInodes, Empty,
       diskVars, Sync
<1>4. OpenInv' /\ ReadyInv' /\ AppendInv' /\ ReplaceInv'
    BY DEF TakeLock, OpenInv, ReadyInv, AppendInv, ReplaceInv, AppendSteps, ReplaceSteps
<1> QED
    BY <1>1, <1>2, <1>3, <1>4 DEF ChainInv

\* The journal file is created.
LEMMA CreateJournalStep ==
    ASSUME ChainInv, CreateJournal, UNCHANGED <<chain, acked>>
    PROVE  ChainInv'
<1>1. TypeOK'
    BY EmptyFile DEF ChainInv, CreateJournal, TypeOK, StoreTypeOK, Steps, OpenSteps, FreeInodes
<1>2. DiskInv'
    BY EmptyChain DEF ChainInv, CreateJournal, TypeOK, StoreTypeOK, DiskInv, ClosedInv, CreatingInv, Named,
       Serves, FreeInodes, Empty, diskVars, Sync
<1>3. ClosedInv' /\ CreatingInv'
    BY DEF ChainInv, CreateJournal, TypeOK, StoreTypeOK, DiskInv, ClosedInv, CreatingInv, FreeInodes, Empty,
       diskVars, Sync
<1>4. OpenInv' /\ ReadyInv' /\ AppendInv' /\ ReplaceInv'
    BY DEF CreateJournal, OpenInv, ReadyInv, AppendInv, ReplaceInv, AppendSteps, ReplaceSteps
<1> QED
    BY <1>1, <1>2, <1>3, <1>4 DEF ChainInv

\* Its header is written ...
LEMMA WriteHeaderStep ==
    ASSUME ChainInv, WriteHeader, UNCHANGED <<chain, acked>>
    PROVE  ChainInv'
<1>1. TypeOK'
    BY DEF ChainInv, WriteHeader, TypeOK, StoreTypeOK, Steps, OpenSteps, File, Empty, diskVars, Sync
<1>2. DiskInv'
    BY EmptyChain DEF ChainInv, WriteHeader, TypeOK, StoreTypeOK, DiskInv, ClosedInv, CreatingInv, Named,
       Serves, FreeInodes, Empty, diskVars, Sync
<1>3. ClosedInv' /\ CreatingInv'
    BY DEF ChainInv, WriteHeader, TypeOK, StoreTypeOK, DiskInv, ClosedInv, CreatingInv, FreeInodes, Empty,
       diskVars, Sync
<1>4. OpenInv' /\ ReadyInv' /\ AppendInv' /\ ReplaceInv'
    BY DEF WriteHeader, OpenInv, ReadyInv, AppendInv, ReplaceInv, AppendSteps, ReplaceSteps
<1> QED
    BY <1>1, <1>2, <1>3, <1>4 DEF ChainInv

\* ... and synced ...
LEMMA SyncHeaderStep ==
    ASSUME ChainInv, SyncHeader, UNCHANGED <<chain, acked>>
    PROVE  ChainInv'
<1>1. TypeOK'
    BY DEF ChainInv, SyncHeader, TypeOK, StoreTypeOK, Steps, OpenSteps, File, Empty, diskVars, Sync
<1>2. DiskInv'
    BY EmptyChain DEF ChainInv, SyncHeader, TypeOK, StoreTypeOK, DiskInv, ClosedInv, CreatingInv, Named,
       Serves, FreeInodes, Empty, diskVars, Sync
<1>3. ClosedInv' /\ CreatingInv'
    BY DEF ChainInv, SyncHeader, TypeOK, StoreTypeOK, DiskInv, ClosedInv, CreatingInv, FreeInodes, Empty,
       diskVars, Sync
<1>4. OpenInv' /\ ReadyInv' /\ AppendInv' /\ ReplaceInv'
    BY DEF SyncHeader, OpenInv, ReadyInv, AppendInv, ReplaceInv, AppendSteps, ReplaceSteps
<1> QED
    BY <1>1, <1>2, <1>3, <1>4 DEF ChainInv

\* ... and the directory entry with it.
LEMMA SyncNewDirectoryStep ==
    ASSUME ChainInv, SyncNewDirectory, UNCHANGED <<chain, acked>>
    PROVE  ChainInv'
<1>1. TypeOK'
    BY DEF ChainInv, SyncNewDirectory, TypeOK, StoreTypeOK, Steps, OpenSteps, File, Empty, diskVars, Sync
<1>2. DiskInv'
    BY EmptyChain DEF ChainInv, SyncNewDirectory, TypeOK, StoreTypeOK, DiskInv, ClosedInv, CreatingInv, Named,
       Serves, FreeInodes, Empty, diskVars, Sync
<1>3. ClosedInv' /\ CreatingInv'
    BY DEF ChainInv, SyncNewDirectory, TypeOK, StoreTypeOK, DiskInv, ClosedInv, CreatingInv, FreeInodes, Empty,
       diskVars, Sync
<1>4. OpenInv' /\ ReadyInv' /\ AppendInv' /\ ReplaceInv'
    BY DEF SyncNewDirectory, OpenInv, ReadyInv, AppendInv, ReplaceInv, AppendSteps, ReplaceSteps
<1> QED
    BY <1>1, <1>2, <1>3, <1>4 DEF ChainInv

\* A journal is found.
LEMMA FindJournalStep ==
    ASSUME ChainInv, FindJournal, UNCHANGED <<chain, acked>>
    PROVE  ChainInv'
<1>1. TypeOK'
    BY DEF ChainInv, FindJournal, TypeOK, StoreTypeOK, Steps, OpenSteps, File, Empty, diskVars, Sync
<1>2. DiskInv'
    BY EmptyChain DEF ChainInv, FindJournal, TypeOK, StoreTypeOK, DiskInv, ClosedInv, CreatingInv, Named,
       Serves, FreeInodes, Empty, diskVars, Sync
<1>3. ClosedInv' /\ CreatingInv'
    BY DEF ChainInv, FindJournal, TypeOK, StoreTypeOK, DiskInv, ClosedInv, CreatingInv, FreeInodes, Empty,
       diskVars, Sync
<1>4. OpenInv' /\ ReadyInv' /\ AppendInv' /\ ReplaceInv'
    BY DEF FindJournal, OpenInv, ReadyInv, AppendInv, ReplaceInv, AppendSteps, ReplaceSteps
<1> QED
    BY <1>1, <1>2, <1>3, <1>4 DEF ChainInv

\* A torn tail is cut off ...
LEMMA RepairTailStep ==
    ASSUME ChainInv, RepairTail, UNCHANGED <<chain, acked>>
    PROVE  ChainInv'
<1>1. TypeOK'
    BY DEF ChainInv, RepairTail, TypeOK, StoreTypeOK, Steps, OpenSteps, File, Empty, diskVars, Sync
<1>2. DiskInv'
    BY EmptyChain DEF ChainInv, RepairTail, TypeOK, StoreTypeOK, DiskInv, ClosedInv, CreatingInv, Named,
       Serves, FreeInodes, Empty, diskVars, Sync
<1>3. ClosedInv' /\ CreatingInv'
    BY DEF ChainInv, RepairTail, TypeOK, StoreTypeOK, DiskInv, ClosedInv, CreatingInv, FreeInodes, Empty,
       diskVars, Sync
<1>4. OpenInv' /\ ReadyInv' /\ AppendInv' /\ ReplaceInv'
    BY DEF RepairTail, OpenInv, ReadyInv, AppendInv, ReplaceInv, AppendSteps, ReplaceSteps
<1> QED
    BY <1>1, <1>2, <1>3, <1>4 DEF ChainInv

\* ... and the cut synced.
LEMMA SyncRepairStep ==
    ASSUME ChainInv, SyncRepair, UNCHANGED <<chain, acked>>
    PROVE  ChainInv'
<1>1. TypeOK'
    BY DEF ChainInv, SyncRepair, TypeOK, StoreTypeOK, Steps, OpenSteps, File, Empty, diskVars, Sync
<1>2. DiskInv'
    BY EmptyChain DEF ChainInv, SyncRepair, TypeOK, StoreTypeOK, DiskInv, ClosedInv, CreatingInv, Named,
       Serves, FreeInodes, Empty, diskVars, Sync
<1>3. ClosedInv' /\ CreatingInv'
    BY DEF ChainInv, SyncRepair, TypeOK, StoreTypeOK, DiskInv, ClosedInv, CreatingInv, FreeInodes, Empty,
       diskVars, Sync
<1>4. OpenInv' /\ ReadyInv' /\ AppendInv' /\ ReplaceInv'
    BY DEF SyncRepair, OpenInv, ReadyInv, AppendInv, ReplaceInv, AppendSteps, ReplaceSteps
<1> QED
    BY <1>1, <1>2, <1>3, <1>4 DEF ChainInv

-----------------------------------------------------------------------------
(* The steps of appendBlock *)

\* What appendBlock would make of the chain.
LEMMA AppendFacts ==
    ASSUME ChainInv, NEW b \in Block, CanAppend(b), pc = "ready",
           pending' = Append(blocks, b), UNCHANGED <<chain, acked>>
    PROVE  /\ pending' \in Seq(Block) /\ pending' = Append(chain, pending'[Len(pending')])
           /\ IsChain(pending') /\ WorkOf(pending') > WorkOf(chain)
           /\ WorkOf(pending') \in Nat /\ WorkOf(chain) \in Nat /\ WorkOf(acked) \in Nat
           /\ WorkOf(pending') >= WorkOf(acked)
<1>1. chain \in Seq(Block) /\ acked \in Seq(Block)
    BY DEF ChainInv, TypeOK
<1>2. blocks = chain /\ IsChain(chain) /\ WorkOf(chain) >= WorkOf(acked)
    BY DEF ChainInv, OpenInv
<1>3. pending' = Append(chain, b)
    BY <1>2
<1>4. pending' \in Seq(Block) /\ IsChain(pending') /\ WorkOf(pending') > WorkOf(chain)
    BY <1>1, <1>2, <1>3, ExtendedChain DEF CanAppend
<1>5. pending'[Len(pending')] = b
    BY <1>1, <1>3
<1>6. WorkOf(pending') \in Nat /\ WorkOf(chain) \in Nat /\ WorkOf(acked) \in Nat
    BY <1>1, <1>4, WorkIsNat
<1> QED
    BY <1>2, <1>3, <1>4, <1>5, <1>6

\* A record is written behind the blocks of the chain ...
LEMMA WriteRecordStep ==
    ASSUME ChainInv, NEW b \in Block, CanAppend(b), WriteRecord(b), UNCHANGED <<chain, acked>>
    PROVE  ChainInv'
<1>1. pc = "ready" /\ pending' = Append(blocks, b)
    BY DEF WriteRecord
<1>2. /\ chainFd = entry /\ durableEntry = entry /\ entry # NoFile /\ entry \in Inode
      /\ cached[entry] = Journal(chain) /\ blocks = chain /\ chain \in Seq(Block)
    BY <1>1 DEF ChainInv, TypeOK, StoreTypeOK, OpenInv, ReadyInv
<1>3. pending' \in Seq(Block)
    BY <1>1, AppendFacts
<1>4. cached' = [cached EXCEPT ![entry] = Journal(pending')]
  <2>1. cached' = [cached EXCEPT ![entry] =
                      [cached[entry] EXCEPT !.blocks = Append(cached[entry].blocks, b)]]
      BY <1>2 DEF WriteRecord
  <2>2. cached[entry].blocks = chain
      BY <1>2, JournalFields
  <2>3. [Journal(chain) EXCEPT !.blocks = Append(chain, b)] = Journal(Append(chain, b))
      BY <1>1, <1>2, <1>3, JournalExtends
  <2> QED BY <1>1, <1>2, <2>1, <2>2, <2>3
<1>5. Journal(pending') \in File /\ Journal(chain) \in File
    BY <1>2, <1>3, JournalFields
<1>6. TypeOK'
    BY <1>2, <1>3, <1>4, <1>5 DEF ChainInv, TypeOK, StoreTypeOK, WriteRecord, Steps, AppendSteps
<1>7. DiskInv'
    BY <1>1, <1>2, <1>3, <1>4, AppendFacts, JournalFields
    DEF ChainInv, TypeOK, StoreTypeOK, DiskInv, Named, Serves, WriteRecord
<1>8. OpenInv'
    BY <1>1, <1>2 DEF ChainInv, OpenInv, WriteRecord, AppendSteps, ReplaceSteps
<1>9. AppendInv'
    BY <1>1, <1>2, <1>3, <1>4, AppendFacts DEF ChainInv, TypeOK, StoreTypeOK, AppendInv, WriteRecord
<1>10. ClosedInv' /\ CreatingInv' /\ ReadyInv' /\ ReplaceInv'
    BY DEF WriteRecord, ClosedInv, CreatingInv, ReadyInv, ReplaceInv, ReplaceSteps
<1> QED
    BY <1>6, <1>7, <1>8, <1>9, <1>10 DEF ChainInv

\* ... or part of it is ...
LEMMA WriteRecordFailsStep ==
    ASSUME ChainInv, NEW b \in Block, CanAppend(b), WriteRecordFails(b),
           UNCHANGED <<chain, acked>>
    PROVE  ChainInv'
<1>1. pc = "ready" /\ pending' = Append(blocks, b)
    BY DEF WriteRecordFails
<1>2. /\ chainFd = entry /\ durableEntry = entry /\ entry # NoFile /\ entry \in Inode
      /\ cached[entry] = Journal(chain) /\ blocks = chain /\ chain \in Seq(Block)
    BY <1>1 DEF ChainInv, TypeOK, StoreTypeOK, OpenInv, ReadyInv
<1>3. pending' \in Seq(Block)
    BY <1>1, AppendFacts
<1>4. TypeOK'
    BY <1>2, <1>3 DEF ChainInv, TypeOK, StoreTypeOK, WriteRecordFails, Steps, AppendSteps, File
<1>5. DiskInv'
    BY <1>2 DEF ChainInv, TypeOK, StoreTypeOK, DiskInv, Named, Serves, WriteRecordFails, File
<1>6. OpenInv'
    BY <1>1, <1>2 DEF ChainInv, OpenInv, WriteRecordFails, AppendSteps, ReplaceSteps
<1>7. AppendInv'
    BY <1>1, <1>2, AppendFacts DEF AppendInv, WriteRecordFails
<1>8. ClosedInv' /\ CreatingInv' /\ ReadyInv' /\ ReplaceInv'
    BY DEF WriteRecordFails, ClosedInv, CreatingInv, ReadyInv, ReplaceInv, ReplaceSteps
<1> QED
    BY <1>4, <1>5, <1>6, <1>7, <1>8 DEF ChainInv

\* The acknowledgement of an append.
LEMMA AppendReturnsStep ==
    ASSUME ChainInv, AppendReturns
    PROVE  /\ ChainInv'
           /\ acked' \in Seq(Block) /\ IsChain(acked') /\ WorkOf(acked') > WorkOf(acked)
<1>1. /\ pc = "append_written" /\ pc' = "ready"
      /\ synced' = [synced EXCEPT ![chainFd] = cached[chainFd]]
      /\ blocks' = pending
      /\ UNCHANGED <<lock, entry, durableEntry, cached, chainFd, pending, before, tmp>>
    BY DEF AppendReturns, SyncRecord, Sync
<1>2. /\ chainFd = entry /\ durableEntry = entry /\ entry # NoFile /\ entry \in Inode
      /\ cached[entry] = Journal(pending)
      /\ pending = Append(chain, pending[Len(pending)])
      /\ IsChain(pending) /\ WorkOf(pending) > WorkOf(chain) /\ WorkOf(chain) >= WorkOf(acked)
      /\ pending \in Seq(Block) /\ chain \in Seq(Block) /\ acked \in Seq(Block)
    BY <1>1 DEF ChainInv, TypeOK, StoreTypeOK, OpenInv, AppendInv, AppendSteps
<1>3. chain' = pending /\ acked' = pending
    BY <1>2 DEF AppendReturns
<1>4. WorkOf(pending) \in Nat /\ WorkOf(chain) \in Nat /\ WorkOf(acked) \in Nat
    BY <1>2, WorkIsNat
<1>5. synced' = [synced EXCEPT ![entry] = Journal(pending)] /\ Journal(pending) \in File
    BY <1>1, <1>2, JournalFields
<1>6. TypeOK'
    BY <1>1, <1>2, <1>3, <1>5 DEF ChainInv, TypeOK, StoreTypeOK, Steps
<1>7. DiskInv'
    BY <1>1, <1>2, <1>3, <1>4, <1>5, JournalFields
    DEF ChainInv, TypeOK, StoreTypeOK, DiskInv, Named, Serves
<1>8. OpenInv' /\ ReadyInv'
    BY <1>1, <1>2, <1>3, <1>4 DEF OpenInv, ReadyInv, AppendSteps, ReplaceSteps
<1>9. ClosedInv' /\ CreatingInv' /\ AppendInv' /\ ReplaceInv'
    BY <1>1 DEF ClosedInv, CreatingInv, AppendInv, ReplaceInv, AppendSteps, ReplaceSteps
<1> QED
    BY <1>2, <1>3, <1>4, <1>6, <1>7, <1>8, <1>9 DEF ChainInv

\* The fsync of a record fails: the disk has the old file, the new or a cut one.
LEMMA SyncRecordFailsStep ==
    ASSUME ChainInv, SyncRecordFails, UNCHANGED <<chain, acked>>
    PROVE  ChainInv'
<1>1. pc = "append_written" /\ pc' = "rollback"
    BY DEF SyncRecordFails
<1>2. chainFd = entry /\ durableEntry = entry /\ entry # NoFile /\ entry \in Inode
    BY <1>1 DEF ChainInv, TypeOK, StoreTypeOK, OpenInv, AppendInv, AppendSteps
<1>3. PICK content \in Survivors(entry) : synced' = [synced EXCEPT ![entry] = content]
    BY <1>2 DEF SyncRecordFails
<1>4. /\ content \in File
      /\ content.blocks = cached[entry].blocks \/ content.blocks = synced[entry].blocks
      /\ (cached[entry].header /\ synced[entry].header) => content.header
    BY <1>2 DEF Survivors, ChainInv, TypeOK, StoreTypeOK, File
<1>5. TypeOK'
    BY <1>2, <1>3, <1>4 DEF ChainInv, TypeOK, StoreTypeOK, SyncRecordFails, Steps, AppendSteps
<1>6. DiskInv'
    BY <1>2, <1>3, <1>4 DEF ChainInv, TypeOK, StoreTypeOK, DiskInv, Named, Serves, SyncRecordFails
<1>7. OpenInv' /\ AppendInv'
    BY <1>1 DEF ChainInv, OpenInv, AppendInv, SyncRecordFails, AppendSteps, ReplaceSteps
<1>8. ClosedInv' /\ CreatingInv' /\ ReadyInv' /\ ReplaceInv'
    BY <1>1 DEF ClosedInv, CreatingInv, ReadyInv, ReplaceInv, ReplaceSteps
<1> QED
    BY <1>5, <1>6, <1>7, <1>8 DEF ChainInv

\* The file is cut back to what it was before the append ...
LEMMA TruncateRecordStep ==
    ASSUME ChainInv, TruncateRecord, UNCHANGED <<chain, acked>>
    PROVE  ChainInv'
<1>1. pc = "rollback" /\ pc' = "rollback_truncated"
    BY DEF TruncateRecord
<1>2. /\ chainFd = entry /\ durableEntry = entry /\ entry # NoFile /\ entry \in Inode
      /\ before = Journal(chain) /\ chain \in Seq(Block)
      /\ IsChain(chain) /\ WorkOf(chain) >= WorkOf(acked)
    BY <1>1 DEF ChainInv, TypeOK, StoreTypeOK, OpenInv, AppendInv, AppendSteps
<1>3. cached' = [cached EXCEPT ![entry] = Journal(chain)] /\ Journal(chain) \in File
    BY <1>2, JournalFields DEF TruncateRecord
<1>4. TypeOK'
    BY <1>2, <1>3 DEF ChainInv, TypeOK, StoreTypeOK, TruncateRecord, Steps, AppendSteps
<1>5. DiskInv'
    BY <1>2, <1>3, JournalFields
    DEF ChainInv, TypeOK, StoreTypeOK, DiskInv, Named, Serves, TruncateRecord
<1>6. OpenInv' /\ AppendInv'
    BY <1>1, <1>2, <1>3 DEF ChainInv, TypeOK, StoreTypeOK, OpenInv, AppendInv, TruncateRecord,
       AppendSteps, ReplaceSteps
<1>7. ClosedInv' /\ CreatingInv' /\ ReadyInv' /\ ReplaceInv'
    BY <1>1 DEF ClosedInv, CreatingInv, ReadyInv, ReplaceInv, ReplaceSteps
<1> QED
    BY <1>4, <1>5, <1>6, <1>7 DEF ChainInv

\* ... and the disk with it.
LEMMA SyncTruncationStep ==
    ASSUME ChainInv, SyncTruncation, UNCHANGED <<chain, acked>>
    PROVE  ChainInv'
<1>1. pc = "rollback_truncated" /\ pc' = "ready"
    BY DEF SyncTruncation
<1>2. /\ chainFd = entry /\ durableEntry = entry /\ entry # NoFile /\ entry \in Inode
      /\ cached[entry] = Journal(chain)
    BY <1>1 DEF ChainInv, TypeOK, StoreTypeOK, OpenInv, AppendInv, AppendSteps
<1>3. synced' = [synced EXCEPT ![entry] = cached[entry]] /\ cached[entry] \in File
    BY <1>2 DEF ChainInv, TypeOK, StoreTypeOK, SyncTruncation, Sync
<1>4. TypeOK'
    BY <1>2, <1>3 DEF ChainInv, TypeOK, StoreTypeOK, SyncTruncation, Steps
<1>5. DiskInv'
    BY <1>2, <1>3 DEF ChainInv, TypeOK, StoreTypeOK, DiskInv, Named, Serves, SyncTruncation
<1>6. OpenInv' /\ ReadyInv'
    BY <1>1, <1>2 DEF ChainInv, OpenInv, ReadyInv, SyncTruncation, AppendSteps, ReplaceSteps
<1>7. ClosedInv' /\ CreatingInv' /\ AppendInv' /\ ReplaceInv'
    BY <1>1 DEF ClosedInv, CreatingInv, AppendInv, ReplaceInv, AppendSteps, ReplaceSteps
<1> QED
    BY <1>4, <1>5, <1>6, <1>7 DEF ChainInv

-----------------------------------------------------------------------------
(* The steps of considerChain *)

\* A heavier candidate is written to the temporary file ...
LEMMA ConsiderChainStep ==
    ASSUME ChainInv, NEW candidate \in Candidates, ConsiderChain(candidate)
    PROVE  ChainInv'
<1>1. /\ pc = "ready" /\ pc' = "tmp_written" /\ pending' = candidate
      /\ UNCHANGED <<lock, entry, durableEntry, chainFd, blocks, before, chain, acked>>
      /\ IsChain(candidate) /\ WorkOf(candidate) > WorkOf(chain)
    BY DEF ConsiderChain, ShouldAdopt, WriteTemporary
<1>2. candidate \in Seq(Block)
    BY ChainAssumption
<1>3. /\ chainFd = entry /\ durableEntry = entry /\ entry # NoFile /\ entry \in Inode
      /\ cached[entry] = Journal(chain)
    BY <1>1 DEF ChainInv, TypeOK, StoreTypeOK, OpenInv, ReadyInv
<1>4. PICK i \in FreeInodes : /\ tmp' = i
                              /\ cached' = [cached EXCEPT ![i] = Journal(candidate)]
                              /\ synced' = [synced EXCEPT ![i] = Empty]
    BY DEF ConsiderChain, WriteTemporary
<1>5. i \in Inode /\ i # entry /\ i # durableEntry /\ i # NoFile
    BY <1>4, StoreAssumption DEF FreeInodes
<1>6. Journal(candidate) \in File /\ Empty \in File
    BY <1>2, JournalFields, EmptyFile
<1>7. TypeOK'
    BY <1>1, <1>2, <1>4, <1>5, <1>6 DEF ChainInv, TypeOK, StoreTypeOK, Steps, ReplaceSteps
<1>8. DiskInv'
    BY <1>1, <1>3, <1>4, <1>5 DEF ChainInv, TypeOK, StoreTypeOK, DiskInv, Named, Serves
<1>9. OpenInv'
    BY <1>1 DEF ChainInv, OpenInv, AppendSteps, ReplaceSteps
<1>10. ReplaceInv'
    BY <1>1, <1>3, <1>4, <1>5 DEF ChainInv, TypeOK, StoreTypeOK, ReplaceInv, ReplaceSteps
<1>11. ClosedInv' /\ CreatingInv' /\ ReadyInv' /\ AppendInv'
    BY <1>1 DEF ClosedInv, CreatingInv, ReadyInv, AppendInv, AppendSteps
<1> QED
    BY <1>7, <1>8, <1>9, <1>10, <1>11 DEF ChainInv

\* ... which is synced ...
LEMMA SyncTemporaryStep ==
    ASSUME ChainInv, SyncTemporary, UNCHANGED <<chain, acked>>
    PROVE  ChainInv'
<1>1. /\ pc = "tmp_written" /\ pc' = "tmp_synced"
      /\ synced' = [synced EXCEPT ![tmp] = cached[tmp]]
      /\ UNCHANGED <<lock, entry, durableEntry, cached, chainFd, blocks, pending, before, tmp>>
    BY DEF SyncTemporary, Sync
<1>2. /\ tmp \in Inode /\ tmp # NoFile /\ tmp # entry /\ durableEntry = entry
      /\ cached[tmp] = Journal(pending)
    BY <1>1 DEF ChainInv, TypeOK, StoreTypeOK, ReplaceInv, ReplaceSteps
<1>3. TypeOK'
    BY <1>1, <1>2 DEF ChainInv, TypeOK, StoreTypeOK, Steps, ReplaceSteps
<1>4. DiskInv'
    BY <1>1, <1>2 DEF ChainInv, TypeOK, StoreTypeOK, DiskInv, Named, Serves
<1>5. OpenInv' /\ ReplaceInv'
    BY <1>1, <1>2 DEF ChainInv, TypeOK, StoreTypeOK, OpenInv, ReplaceInv, AppendSteps, ReplaceSteps
<1>6. ClosedInv' /\ CreatingInv' /\ ReadyInv' /\ AppendInv'
    BY <1>1 DEF ClosedInv, CreatingInv, ReadyInv, AppendInv, AppendSteps
<1> QED
    BY <1>3, <1>4, <1>5, <1>6 DEF ChainInv

\* ... renamed over the journal ...
LEMMA RenameTemporaryStep ==
    ASSUME ChainInv, RenameTemporary, UNCHANGED <<chain, acked>>
    PROVE  ChainInv'
<1>1. /\ pc = "tmp_synced" /\ pc' = "renamed" /\ entry' = tmp
      /\ UNCHANGED <<lock, durableEntry, cached, synced, chainFd, blocks, pending, before, tmp>>
    BY DEF RenameTemporary
<1>2. /\ tmp \in Inode /\ tmp # NoFile /\ tmp # entry /\ durableEntry = entry
      /\ cached[tmp] = Journal(pending) /\ synced[tmp] = Journal(pending)
      /\ IsChain(pending) /\ WorkOf(pending) > WorkOf(chain)
    BY <1>1 DEF ChainInv, TypeOK, StoreTypeOK, ReplaceInv, ReplaceSteps
<1>3. /\ chain \in Seq(Block) /\ pending \in Seq(Block) /\ acked \in Seq(Block)
      /\ WorkOf(chain) >= WorkOf(acked)
    BY <1>1 DEF ChainInv, TypeOK, StoreTypeOK, OpenInv, ReplaceSteps
<1>4. WorkOf(pending) \in Nat /\ WorkOf(chain) \in Nat /\ WorkOf(acked) \in Nat
    BY <1>3, WorkIsNat
<1>5. TypeOK'
    BY <1>1, <1>2 DEF ChainInv, TypeOK, StoreTypeOK, Steps, ReplaceSteps
<1>6. Serves(Journal(pending))
    BY <1>2, <1>3, <1>4, JournalFields DEF Serves
<1>7. DiskInv'
    BY <1>1, <1>2, <1>3, <1>6, JournalFields DEF ChainInv, DiskInv, Named, Serves
<1>8. OpenInv' /\ ReplaceInv'
    BY <1>1, <1>2 DEF ChainInv, OpenInv, ReplaceInv, AppendSteps, ReplaceSteps
<1>9. ClosedInv' /\ CreatingInv' /\ ReadyInv' /\ AppendInv'
    BY <1>1 DEF ClosedInv, CreatingInv, ReadyInv, AppendInv, AppendSteps
<1> QED
    BY <1>5, <1>7, <1>8, <1>9 DEF ChainInv

\* ... and named by the disk.
LEMMA SyncDirectoryStep ==
    ASSUME ChainInv, SyncDirectory, UNCHANGED <<chain, acked>>
    PROVE  ChainInv'
<1>1. /\ pc = "renamed" /\ pc' = "dir_synced" /\ durableEntry' = entry
      /\ UNCHANGED <<lock, entry, cached, synced, chainFd, blocks, pending, before, tmp>>
    BY DEF SyncDirectory
<1>2. TypeOK'
    BY <1>1 DEF ChainInv, TypeOK, StoreTypeOK, Steps, ReplaceSteps
<1>3. DiskInv'
    BY <1>1 DEF ChainInv, DiskInv, Named, Serves
<1>4. OpenInv' /\ ReplaceInv'
    BY <1>1 DEF ChainInv, OpenInv, ReplaceInv, AppendSteps, ReplaceSteps
<1>5. ClosedInv' /\ CreatingInv' /\ ReadyInv' /\ AppendInv'
    BY <1>1 DEF ClosedInv, CreatingInv, ReadyInv, AppendInv, AppendSteps
<1> QED
    BY <1>2, <1>3, <1>4, <1>5 DEF ChainInv

\* The acknowledgement of an adopted chain.
LEMMA ConsiderReturnsStep ==
    ASSUME ChainInv, ConsiderReturns
    PROVE  /\ ChainInv'
           /\ acked' \in Seq(Block) /\ IsChain(acked') /\ WorkOf(acked') > WorkOf(acked)
<1>1. /\ pc = "dir_synced" /\ pc' = "ready" /\ chainFd' = entry /\ blocks' = pending
      /\ chain' = pending /\ acked' = pending
      /\ UNCHANGED <<lock, entry, durableEntry, cached, synced, pending, before, tmp>>
    BY DEF ConsiderReturns, InstallJournal, diskVars
<1>2. /\ entry # NoFile /\ entry = tmp /\ durableEntry = entry /\ entry \in Inode
      /\ cached[entry] = Journal(pending) /\ synced[entry] = Journal(pending)
      /\ IsChain(pending) /\ WorkOf(pending) > WorkOf(chain) /\ WorkOf(chain) >= WorkOf(acked)
      /\ pending \in Seq(Block) /\ chain \in Seq(Block) /\ acked \in Seq(Block)
    BY <1>1 DEF ChainInv, TypeOK, StoreTypeOK, OpenInv, ReplaceInv, ReplaceSteps
<1>3. WorkOf(pending) \in Nat /\ WorkOf(chain) \in Nat /\ WorkOf(acked) \in Nat
    BY <1>2, WorkIsNat
<1>4. TypeOK'
    BY <1>1, <1>2 DEF ChainInv, TypeOK, StoreTypeOK, Steps
<1>5. DiskInv'
    BY <1>1, <1>2, <1>3, JournalFields DEF DiskInv, Named, Serves
<1>6. OpenInv' /\ ReadyInv'
    BY <1>1, <1>2, <1>3 DEF OpenInv, ReadyInv, AppendSteps, ReplaceSteps
<1>7. ClosedInv' /\ CreatingInv' /\ AppendInv' /\ ReplaceInv'
    BY <1>1 DEF ClosedInv, CreatingInv, AppendInv, ReplaceInv, AppendSteps, ReplaceSteps
<1> QED
    BY <1>1, <1>2, <1>3, <1>4, <1>5, <1>6, <1>7 DEF ChainInv

\* A call of replace fails where FaultModel lets it: the rename is yet to come.
LEMMA ReplaceFailsStep ==
    ASSUME FaultModel, ChainInv, ReplaceFails, UNCHANGED <<chain, acked>>
    PROVE  ChainInv'
<1>1. pc \in {"tmp_written", "tmp_synced"}
    BY DEF FaultModel, ReplaceFails, ReplaceSteps, ChainInv, OpenInv
<1>2. /\ pc' = "ready" /\ chainFd' = chainFd
      /\ UNCHANGED <<lock, entry, durableEntry, cached, synced, blocks, pending, before, tmp>>
    BY <1>1 DEF ReplaceFails, diskVars
<1>3. chainFd = entry /\ durableEntry = entry /\ cached[entry] = Journal(chain)
    BY <1>1 DEF ChainInv, ReplaceInv, ReplaceSteps
<1>4. TypeOK'
    BY <1>2 DEF ChainInv, TypeOK, StoreTypeOK, Steps
<1>5. DiskInv'
    BY <1>2 DEF ChainInv, DiskInv, Named, Serves
<1>6. OpenInv' /\ ReadyInv'
    BY <1>1, <1>2, <1>3 DEF ChainInv, OpenInv, ReadyInv, AppendSteps, ReplaceSteps
<1>7. ClosedInv' /\ CreatingInv' /\ AppendInv' /\ ReplaceInv'
    BY <1>2 DEF ClosedInv, CreatingInv, AppendInv, ReplaceInv, AppendSteps, ReplaceSteps
<1> QED
    BY <1>4, <1>5, <1>6, <1>7 DEF ChainInv

-----------------------------------------------------------------------------
(* Opening, closing and crashing *)

\* The replayed chain is the journal: this.blocks was empty, or the replay
\* would have been refused.
LEMMA OpenSucceedsStep ==
    ASSUME ChainInv, OpenSucceeds
    PROVE  ChainInv'
<1>1. /\ pc = "journal" /\ pc' = "ready"
      /\ ~cached[entry].torn /\ cached[entry].header
      /\ IsChain(LoadedBlocks)
      /\ blocks' = LoadedBlocks /\ chain' = LoadedBlocks /\ chainFd' = entry
      /\ UNCHANGED <<lock, entry, durableEntry, cached, synced, pending, before, tmp, acked>>
    BY DEF OpenSucceeds, LoadJournal, diskVars
<1>2. /\ entry # NoFile /\ durableEntry = entry /\ entry \in Inode
      /\ cached[entry] \in File /\ cached[entry].blocks \in Seq(Block)
      /\ blocks \in Seq(Block) /\ acked \in Seq(Block)
      /\ blocks # <<>> => cached[entry].blocks # <<>>
    BY <1>1 DEF ChainInv, TypeOK, StoreTypeOK, ClosedInv, File
<1>3. /\ IsChain(cached[entry].blocks)
      /\ acked # <<>> => WorkOf(cached[entry].blocks) >= WorkOf(acked)
    BY <1>2 DEF ChainInv, DiskInv, Named, Serves
<1>4. blocks = <<>>
    BY <1>1, <1>2, <1>3, TwoChains DEF LoadedBlocks
<1>5. LoadedBlocks = cached[entry].blocks
    BY <1>2, <1>4 DEF LoadedBlocks
<1>6. cached[entry] = Journal(LoadedBlocks)
    BY <1>1, <1>2, <1>5, FileIsJournal
<1>7. WorkOf(LoadedBlocks) >= WorkOf(acked)
    BY <1>2, <1>3, <1>5, WorkIsNat
<1>8. TypeOK'
    BY <1>1, <1>2, <1>5 DEF ChainInv, TypeOK, StoreTypeOK, Steps
<1>9. DiskInv'
    BY <1>1 DEF ChainInv, DiskInv, Named, Serves
<1>10. OpenInv' /\ ReadyInv'
    BY <1>1, <1>2, <1>6, <1>7 DEF OpenInv, ReadyInv, AppendSteps, ReplaceSteps
<1>11. ClosedInv' /\ CreatingInv' /\ AppendInv' /\ ReplaceInv'
    BY <1>1 DEF ClosedInv, CreatingInv, AppendInv, ReplaceInv, AppendSteps, ReplaceSteps
<1> QED
    BY <1>8, <1>9, <1>10, <1>11 DEF ChainInv

\* An open that is refused closes the store and leaves the disk alone.
LEMMA OpenRefusedStep ==
    ASSUME ChainInv, OpenRefused
    PROVE  ChainInv'
<1>1. /\ pc = "journal" /\ pc' = "closed" /\ chainFd' = NoFile /\ lock' = FALSE
      /\ blocks' = blocks \/ blocks' = LoadedBlocks
      /\ UNCHANGED <<entry, durableEntry, cached, synced, pending, before, tmp, chain, acked>>
    BY DEF OpenRefused, ReleaseFiles
<1>2. /\ entry # NoFile /\ durableEntry = entry /\ entry \in Inode
      /\ cached[entry].blocks \in Seq(Block) /\ blocks \in Seq(Block)
      /\ blocks # <<>> => cached[entry].blocks # <<>>
    BY <1>1 DEF ChainInv, TypeOK, StoreTypeOK, ClosedInv, File
<1>3. LoadedBlocks \in Seq(Block)
    BY <1>2 DEF LoadedBlocks
<1>4. cached[entry].blocks = <<>> => LoadedBlocks = <<>>
    BY <1>2 DEF LoadedBlocks
<1>5. TypeOK'
    BY <1>1, <1>3 DEF ChainInv, TypeOK, StoreTypeOK, Steps
<1>6. DiskInv'
    BY <1>1 DEF ChainInv, DiskInv, Named, Serves
<1>7. ClosedInv'
    BY <1>1, <1>2, <1>4 DEF ClosedInv
<1>8. CreatingInv' /\ OpenInv' /\ ReadyInv' /\ AppendInv' /\ ReplaceInv'
    BY <1>1 DEF CreatingInv, OpenInv, ReadyInv, AppendInv, ReplaceInv, AppendSteps, ReplaceSteps
<1> QED
    BY <1>5, <1>6, <1>7, <1>8 DEF ChainInv

\* close leaves the disk alone.
LEMMA CloseStep ==
    ASSUME ChainInv, Close
    PROVE  ChainInv'
<1>1. /\ pc = "ready" /\ pc' = "closed" /\ chainFd' = NoFile /\ lock' = FALSE
      /\ UNCHANGED <<entry, durableEntry, cached, synced, pending, before, tmp,
                     blocks, chain, acked>>
    BY DEF Close, ReleaseFiles
<1>2. /\ entry # NoFile /\ durableEntry = entry /\ blocks = chain
      /\ cached[entry] = Journal(chain) /\ chain \in Seq(Block)
    BY <1>1 DEF ChainInv, TypeOK, OpenInv, ReadyInv
<1>3. TypeOK'
    BY <1>1 DEF ChainInv, TypeOK, StoreTypeOK, Steps
<1>4. DiskInv'
    BY <1>1 DEF ChainInv, DiskInv, Named, Serves
<1>5. ClosedInv'
    BY <1>1, <1>2, JournalFields DEF ClosedInv
<1>6. CreatingInv' /\ OpenInv' /\ ReadyInv' /\ AppendInv' /\ ReplaceInv'
    BY <1>1 DEF CreatingInv, OpenInv, ReadyInv, AppendInv, ReplaceInv, AppendSteps, ReplaceSteps
<1> QED
    BY <1>3, <1>4, <1>5, <1>6 DEF ChainInv

\* A new process starts with empty memory.
LEMMA StartStep ==
    ASSUME ChainInv, Start
    PROVE  ChainInv'
<1>1. /\ pc = "down" /\ pc' = "closed"
      /\ UNCHANGED <<lock, entry, durableEntry, cached, synced, chainFd, blocks, pending,
                     before, tmp, chain, acked>>
    BY DEF Start, diskVars
<1>2. TypeOK' /\ DiskInv'
    BY <1>1 DEF ChainInv, TypeOK, StoreTypeOK, Steps, DiskInv, Named, Serves
<1>3. ClosedInv'
    BY <1>1 DEF ChainInv, ClosedInv
<1>4. CreatingInv' /\ OpenInv' /\ ReadyInv' /\ AppendInv' /\ ReplaceInv'
    BY <1>1 DEF CreatingInv, OpenInv, ReadyInv, AppendInv, ReplaceInv, AppendSteps, ReplaceSteps
<1> QED
    BY <1>2, <1>3, <1>4 DEF ChainInv

\* The lock of a process that crashed is removed.
LEMMA RemoveStaleLockStep ==
    ASSUME ChainInv, RemoveStaleLock
    PROVE  ChainInv'
<1>1. /\ lock' = FALSE
      /\ UNCHANGED <<entry, durableEntry, cached, synced, chainFd, blocks, pending,
                     before, tmp, pc, chain, acked>>
    BY DEF RemoveStaleLock
<1>2. TypeOK' /\ DiskInv'
    BY <1>1 DEF ChainInv, TypeOK, StoreTypeOK, DiskInv, Named, Serves
<1>3. ClosedInv' /\ CreatingInv' /\ OpenInv' /\ ReadyInv' /\ AppendInv' /\ ReplaceInv'
    BY <1>1 DEF ChainInv, ClosedInv, CreatingInv, OpenInv, ReadyInv, AppendInv, ReplaceInv
<1> QED
    BY <1>2, <1>3 DEF ChainInv

\* A file that may be lost or cut keeps the blocks of one of its two versions.
LEMMA SurvivorFacts ==
    ASSUME ChainInv, NEW i \in Inode, NEW image \in Survivors(i)
    PROVE  /\ image \in File
           /\ image.blocks = cached[i].blocks \/ image.blocks = synced[i].blocks
           /\ (cached[i].header /\ synced[i].header) => image.header
BY DEF Survivors, ChainInv, TypeOK, StoreTypeOK, File

\* What the power failure leaves is still a journal of a heavy enough chain.
LEMMA CrashStep ==
    ASSUME ChainInv, Crash("power")
    PROVE  ChainInv'
<1>1. /\ pc' = "down" /\ chainFd' = NoFile /\ tmp' = NoFile
      /\ blocks' = <<>> /\ pending' = <<>> /\ chain' = <<>> /\ before' = Empty
      /\ acked' = acked /\ lock' \in {lock, FALSE}
      /\ entry' \in {entry, durableEntry} /\ durableEntry' = entry'
      /\ synced' = cached'
    BY DEF Crash
<1>2. PICK image \in ImagesOf(entry', "power") :
          cached' = [i \in Inode |-> IF i = entry' THEN image ELSE Empty]
    BY DEF Crash
<1>3. entry' # NoFile => image \in Survivors(entry')
    BY <1>2 DEF ImagesOf
<1>4. entry' \in Inode \cup {NoFile}
    BY <1>1 DEF ChainInv, TypeOK, StoreTypeOK
<1>5. image \in File
    BY <1>2, <1>3, <1>4, SurvivorFacts, EmptyFile DEF ImagesOf
<1>6. cached' \in [Inode -> File]
    BY <1>2, <1>5, EmptyFile
<1>7. TypeOK'
  <2>1. <<>> \in Seq(Block) /\ cached' \in [Inode -> File] /\ acked \in Seq(Block)
      BY <1>6 DEF ChainInv, TypeOK
  <2>2. lock' \in BOOLEAN
      BY <1>1 DEF ChainInv, TypeOK, StoreTypeOK
  <2>3. before' \in File /\ pc' \in Steps
      BY <1>1, EmptyFile DEF Steps
  <2> QED BY <1>1, <1>4, <2>1, <2>2, <2>3 DEF TypeOK, StoreTypeOK
<1>8. DiskInv'
  <2>1. CASE entry' = NoFile
      BY <1>1, <2>1 DEF ChainInv, DiskInv, Named
  <2>2. CASE entry' # NoFile
    <3>1. entry' \in Inode /\ entry' \in Named /\ cached'[entry'] = image
        BY <1>1, <1>2, <1>4, <2>2 DEF Named
    <3>2. IsChain(image.blocks) /\ (acked # <<>> => Serves(image))
        BY <1>3, <2>2, <3>1, SurvivorFacts DEF ChainInv, DiskInv, Serves
    <3> QED BY <1>1, <2>2, <3>1, <3>2 DEF DiskInv, Named, Serves
  <2> QED BY <2>1, <2>2
<1>9. ClosedInv'
    BY <1>1 DEF ClosedInv
<1>10. CreatingInv' /\ OpenInv' /\ ReadyInv' /\ AppendInv' /\ ReplaceInv'
    BY <1>1 DEF CreatingInv, OpenInv, ReadyInv, AppendInv, ReplaceInv, AppendSteps, ReplaceSteps
<1> QED
    BY <1>7, <1>8, <1>9, <1>10 DEF ChainInv

-----------------------------------------------------------------------------
(* Theorems *)

\* A stuttering step keeps the invariant.
LEMMA ChainStutter ==
    ASSUME ChainInv, UNCHANGED vars
    PROVE  ChainInv'
BY DEF ChainInv, vars, storeVars, TypeOK, StoreTypeOK, DiskInv, Named, Serves, ClosedInv,
       CreatingInv, OpenInv, ReadyInv, AppendInv, ReplaceInv

\* One step: the invariant is kept, and the acknowledged chain stays or is
\* replaced by a valid heavier one.
LEMMA ChainNext ==
    ASSUME FaultModel, ChainInv, Next
    PROVE  /\ ChainInv'
           /\ \/ acked' = acked
              \/ acked' \in Seq(Block) /\ IsChain(acked') /\ WorkOf(acked') > WorkOf(acked)
<1>1. CASE StoreStep
  <2>1. UNCHANGED <<chain, acked>>
      BY <1>1 DEF StoreStep
  <2>2. CASE TakeLock BY <2>1, <2>2, TakeLockStep
  <2>3. CASE CreateJournal BY <2>1, <2>3, CreateJournalStep
  <2>4. CASE WriteHeader BY <2>1, <2>4, WriteHeaderStep
  <2>5. CASE SyncHeader BY <2>1, <2>5, SyncHeaderStep
  <2>6. CASE SyncNewDirectory BY <2>1, <2>6, SyncNewDirectoryStep
  <2>7. CASE FindJournal BY <2>1, <2>7, FindJournalStep
  <2>8. CASE RepairTail BY <2>1, <2>8, RepairTailStep
  <2>9. CASE SyncRepair BY <2>1, <2>9, SyncRepairStep
  <2>10. CASE SyncRecordFails BY <2>1, <2>10, SyncRecordFailsStep
  <2>11. CASE TruncateRecord BY <2>1, <2>11, TruncateRecordStep
  <2>12. CASE SyncTruncation BY <2>1, <2>12, SyncTruncationStep
  <2>13. CASE SyncTemporary BY <2>1, <2>13, SyncTemporaryStep
  <2>14. CASE RenameTemporary BY <2>1, <2>14, RenameTemporaryStep
  <2>15. CASE SyncDirectory BY <2>1, <2>15, SyncDirectoryStep
  <2>16. CASE ReplaceFails BY <2>1, <2>16, ReplaceFailsStep
  <2> QED
      BY <1>1, <2>1, <2>2, <2>3, <2>4, <2>5, <2>6, <2>7, <2>8, <2>9, <2>10, <2>11, <2>12,
         <2>13, <2>14, <2>15, <2>16 DEF StoreStep
<1>2. CASE OpenSucceeds BY <1>2, OpenSucceedsStep DEF OpenSucceeds
<1>3. CASE OpenRefused BY <1>3, OpenRefusedStep DEF OpenRefused
<1>4. ASSUME NEW b \in Block, AppendBlock(b)
      PROVE  ChainInv' /\ acked' = acked
    BY <1>4, WriteRecordStep, WriteRecordFailsStep DEF AppendBlock
<1>5. CASE AppendReturns BY <1>5, AppendReturnsStep
<1>6. ASSUME NEW candidate \in Candidates, ConsiderChain(candidate)
      PROVE  ChainInv' /\ acked' = acked
    BY <1>6, ConsiderChainStep DEF ConsiderChain
<1>7. CASE ConsiderReturns BY <1>7, ConsiderReturnsStep
<1>8. CASE Close BY <1>8, CloseStep DEF Close
<1>9. CASE Start BY <1>9, StartStep DEF Start
<1>10. CASE RemoveStaleLock BY <1>10, RemoveStaleLockStep DEF RemoveStaleLock
<1>11. ASSUME NEW kind \in CrashKinds, Crash(kind)
       PROVE  ChainInv' /\ acked' = acked
  <2>1. kind = "power"
      BY DEF FaultModel
  <2> QED BY <1>11, <2>1, CrashStep DEF Crash
<1> QED
    BY <1>1, <1>2, <1>3, <1>4, <1>5, <1>6, <1>7, <1>8, <1>9, <1>10, <1>11 DEF Next

\* ChainInv is an invariant of the chain over its journal.
THEOREM ChainInvariant == ASSUME FaultModel PROVE Spec => []ChainInv
<1>1. ChainInv /\ [Next]_vars => ChainInv'
    BY ChainNext, ChainStutter
<1> QED
    BY ChainInit, <1>1, PTL DEF Spec

\* Every variable keeps its type: the files hold blocks, the steps are known.
THEOREM ChainTypes == ASSUME FaultModel PROVE Spec => []TypeOK
<1>1. ChainInv => TypeOK
    BY DEF ChainInv
<1> QED
    BY ChainInvariant, <1>1, PTL

\* Whatever fails or crashes, the next open finds a journal it accepts, at
\* least as heavy as the last chain appendBlock or considerChain acknowledged.
THEOREM AcknowledgedChainsAreDurable == ASSUME FaultModel PROVE Spec => []AckDurable
<1>1. ChainInv => AckDurable
  <2> SUFFICES ASSUME ChainInv, acked # <<>>,
                      NEW i \in {entry, durableEntry}, NEW image \in ImagesOf(i, "power")
               PROVE  Serves(image)
      BY DEF AckDurable, CrashImages, Serves
  <2>1. i # NoFile /\ i \in Inode /\ i \in Named /\ Serves(cached[i]) /\ Serves(synced[i])
      BY DEF ChainInv, TypeOK, StoreTypeOK, DiskInv, Named
  <2>2. image \in Survivors(i)
      BY <2>1 DEF ImagesOf
  <2> QED BY <2>1, <2>2, SurvivorFacts DEF Serves
<1> QED
    BY ChainInvariant, <1>1, PTL

\* Between calls the open file, its name and the memory agree.
THEOREM ReadyStoresAgree == ASSUME FaultModel PROVE Spec => []ReadyAgrees
<1>1. ChainInv => ReadyAgrees
    BY DEF ChainInv, ReadyAgrees, OpenInv, ReadyInv
<1> QED
    BY ChainInvariant, <1>1, PTL

\* The acknowledged chains follow HeaviestChain: every step of the chain over
\* its journal is a step of the abstract chain or leaves it alone.
THEOREM ChainImplementsHeaviest == ASSUME FaultModel PROVE Spec => RefinesHeaviestChain
<1>1. Init => HC!Init
    BY DEF Init, HC!Init
<1>2. ChainInv /\ [Next]_vars => [HC!Next]_acked
  <2> SUFFICES ASSUME ChainInv, Next, acked' # acked PROVE HC!Next
      BY DEF vars
  <2>1. acked' \in Seq(Block) /\ IsChain(acked') /\ WorkOf(acked') > WorkOf(acked)
      BY ChainNext
  <2> QED
      BY <2>1 DEF HC!Next, HC!IsChain, HC!WorkOf, HC!TotalWork, HC!Tip,
                  IsChain, WorkOf, TotalWork, Tip
<1> QED
    BY ChainInvariant, <1>1, <1>2, PTL DEF Spec, RefinesHeaviestChain, HC!Spec
=============================================================================
