----------------------------- MODULE MedacChain -----------------------------
(***************************************************************************)
(* The persistent chain of a MEDAC node (src/medac_chain.cjs) over its     *)
(* journal: open with replay, appendBlock, considerChain, close, and what  *)
(* crashes and restarts of the process and of the machine do in between.   *)
(* The methods run without interruption (no await inside), so one call is  *)
(* in progress at a time; a crash can come between any two of its steps.   *)
(*                                                                         *)
(* Blocks are the nodes of a fixed tree: what consensus checks of a block  *)
(* at its place in a chain is that its parent is the block before it       *)
(* (BlockTree).                                                            *)
(* MedacConsensus has the rules themselves.                                *)
(***************************************************************************)
EXTENDS MedacStore

CONSTANTS
    Candidates,      \* the block sequences peers offer to considerChain
    CrashKinds       \* what can die: the "process", or the machine ("power")

ASSUME ChainAssumption ==
    /\ Candidates \subseteq Seq(Block)
    /\ CrashKinds \subseteq {"process", "power"}

VARIABLES
    chain,           \* this.state.blocks
    acked            \* history: the chain a call that returned reported last

vars == <<storeVars, chain, acked>>

\* The abstract chain: the acknowledged one.
HC == INSTANCE HeaviestChain WITH best <- acked

Init == StoreInit /\ chain = <<>> /\ acked = <<>>

-----------------------------------------------------------------------------
(* The calls *)

\* open replays the journal; the chain is installed only if the replay of
\* every record succeeds.
OpenSucceeds ==
    /\ LoadJournal
    /\ IsChain(LoadedBlocks)
    /\ chain' = LoadedBlocks
    /\ UNCHANGED acked

\* No header line, or a record the rules refuse: the store is closed again.
OpenRefused ==
    /\ pc = "journal" /\ ~cached[entry].torn
    /\ \/ ~cached[entry].header /\ UNCHANGED blocks
       \/ cached[entry].header /\ ~IsChain(LoadedBlocks) /\ blocks' = LoadedBlocks
    /\ ReleaseFiles
    /\ UNCHANGED <<chain, acked>>

CanAppend(b) == Parent[b] = Tip(chain)

AppendBlock(b) ==
    /\ CanAppend(b)
    /\ WriteRecord(b) \/ WriteRecordFails(b)
    /\ UNCHANGED <<chain, acked>>

\* appendBlock returns: this.state is the state after the block.
AppendReturns ==
    /\ SyncRecord
    /\ chain' = Append(chain, pending[Len(pending)])
    /\ acked' = chain'

\* Variant: a tie displaces the chain in place.
AdoptsTies(candidate) ==
    /\ IsChain(candidate)
    /\ WorkOf(candidate) >= WorkOf(chain)

ShouldAdopt(candidate) ==
    /\ IsChain(candidate)
    /\ WorkOf(candidate) > WorkOf(chain)

ConsiderChain(candidate) ==
    /\ ShouldAdopt(candidate)
    /\ WriteTemporary(candidate)
    /\ UNCHANGED <<chain, acked>>

\* considerChain returns {adopted: true}.
ConsiderReturns ==
    /\ InstallJournal
    /\ chain' = pending
    /\ acked' = pending

\* close of an open chain; this.state and this.blocks stay as they are.
Close ==
    /\ pc = "ready"
    /\ ReleaseFiles
    /\ UNCHANGED <<blocks, chain, acked>>

StoreStep ==
    /\ \/ TakeLock \/ CreateJournal \/ WriteHeader \/ SyncHeader \/ SyncNewDirectory
       \/ FindJournal \/ RepairTail \/ SyncRepair
       \/ SyncRecordFails \/ TruncateRecord \/ SyncTruncation
       \/ SyncTemporary \/ RenameTemporary \/ SyncDirectory \/ ReplaceFails
    /\ UNCHANGED <<chain, acked>>

-----------------------------------------------------------------------------
(* The process and the machine *)

\* A new process, with a new MedacChain and MedacStore.
Start ==
    /\ pc = "down"
    /\ pc' = "closed"
    /\ UNCHANGED <<diskVars, chainFd, blocks, pending, before, tmp, chain, acked>>

\* The contents chain.ndjson has after a crash that leaves it naming inode i.
ImagesOf(i, kind) ==
    IF i = NoFile THEN {Empty} ELSE IF kind = "power" THEN Survivors(i) ELSE {cached[i]}

\* All memory is lost and node.lock stays.  When the power fails each file is
\* what reached the disk, and the last creation or rename, or the lock itself,
\* may not have.  When only the process dies the files are as the kernel has
\* them, and what was not synced still is not.
Crash(kind) ==
    /\ pc' = "down"
    /\ chainFd' = NoFile /\ tmp' = NoFile
    /\ blocks' = <<>> /\ pending' = <<>> /\ chain' = <<>>
    /\ before' = Empty
    /\ UNCHANGED acked
    /\ lock' \in IF kind = "power" THEN {lock, FALSE} ELSE {lock}
    /\ entry' \in IF kind = "power" THEN {entry, durableEntry} ELSE {entry}
    /\ durableEntry' = IF kind = "power" THEN entry' ELSE durableEntry
    /\ \E image \in ImagesOf(entry', kind) :
           cached' = [i \in Inode |-> IF i = entry' THEN image ELSE Empty]
    /\ synced' = IF kind = "power" THEN cached'
                 ELSE [i \in Inode |-> IF i \in {entry, durableEntry} THEN synced[i] ELSE Empty]

\* The operator, seeing no node running, removes the lock a crash left.
RemoveStaleLock ==
    /\ pc = "down" /\ lock
    /\ lock' = FALSE
    /\ UNCHANGED <<entry, durableEntry, cached, synced, chainFd, blocks, pending,
                   before, tmp, pc, chain, acked>>

Next ==
    \/ StoreStep
    \/ OpenSucceeds \/ OpenRefused
    \/ \E b \in Block : AppendBlock(b)
    \/ AppendReturns
    \/ \E candidate \in Candidates : ConsiderChain(candidate)
    \/ ConsiderReturns
    \/ Close
    \/ Start \/ RemoveStaleLock
    \/ \E kind \in CrashKinds : Crash(kind)

Spec == Init /\ [][Next]_vars

-----------------------------------------------------------------------------
(* Properties *)

TypeOK ==
    /\ StoreTypeOK
    /\ chain \in Seq(Block)
    /\ acked \in Seq(Block)

\* The contents chain.ndjson may have if everything stopped now.
CrashImages == UNION {ImagesOf(i, "power") : i \in {entry, durableEntry}}

\* Durability: whatever fails now, the next open finds a journal it accepts,
\* with a chain at least as heavy as the last one a call acknowledged.
AckDurable ==
    acked # <<>> =>
        \A image \in CrashImages :
            /\ image.header
            /\ IsChain(image.blocks)
            /\ WorkOf(image.blocks) >= WorkOf(acked)

\* Between calls the open file is the one with the name, it holds exactly the
\* blocks of the in-memory state, and that state is a valid chain.
ReadyAgrees ==
    pc = "ready" =>
        /\ chainFd = entry /\ durableEntry = entry
        /\ cached[entry] = Journal(chain)
        /\ blocks = chain
        /\ IsChain(chain)

\* Across crashes, restarts and failed calls, the acknowledged chains follow
\* the heaviest-chain rule.
RefinesHeaviestChain == HC!Spec
=============================================================================
