----------------------------- MODULE MedacStore -----------------------------
(***************************************************************************)
(* The journal of a MEDAC node (src/medac_store.cjs): chain.ndjson, one    *)
(* checksummed record per line, and the node.lock file.  Each step is the  *)
(* system call, or the few of them, after which a crash can find another   *)
(* file system; what a crash leaves is in MedacChain.                      *)
(*                                                                         *)
(* A file is [header, blocks, torn]: whether its first line is the header  *)
(* record, its complete block records, whether a partial line follows.     *)
(* For each inode the page cache ("cached") is told from what the last     *)
(* fsync put on the disk ("synced"); likewise for the directory entry.     *)
(*                                                                         *)
(* System calls fail one at a time: the truncate and fsync that undo a     *)
(* failed append are taken to succeed, as are those of open.  The size     *)
(* limit MAX_STORE_BYTES is left out.                                      *)
(***************************************************************************)
EXTENDS BlockTree

CONSTANTS
    Inode,           \* the files that exist at a time: three are enough
    NoFile,          \* no inode: no directory entry, or no open descriptor
    FaultPoints,     \* the values of pc at which a system call may fail
    MaxLoaded        \* bound: this.blocks is not reopened on when longer

ASSUME StoreAssumption ==
    /\ NoFile \notin Inode
    /\ FaultPoints \subseteq {"append", "append_written", "tmp_written",
                              "tmp_synced", "renamed", "dir_synced"}

VARIABLES
    lock,            \* node.lock exists
    entry,           \* the inode chain.ndjson names
    durableEntry,    \* the inode it names on the disk
    cached,          \* content of each inode, as the kernel reads it
    synced,          \* content of each inode at its last fsync
    chainFd,         \* the inode this.chainFd is open on
    blocks,          \* this.blocks
    pending,         \* what this.blocks becomes if the running call succeeds
    before,          \* content of the file when the running append began
    tmp,             \* the temporary file of the running replace
    pc               \* where the process is

storeVars == <<lock, entry, durableEntry, cached, synced, chainFd, blocks,
               pending, before, tmp, pc>>
diskVars == <<lock, entry, durableEntry, cached, synced>>

File == [header : BOOLEAN, blocks : Seq(Block), torn : BOOLEAN]
Empty == [header |-> FALSE, blocks |-> <<>>, torn |-> FALSE]
Journal(chain) == [header |-> TRUE, blocks |-> chain, torn |-> FALSE]

OpenSteps == {"locked", "created", "header_written", "header_synced", "journal", "truncated"}
AppendSteps == {"append_written", "rollback", "rollback_truncated"}
ReplaceSteps == {"tmp_written", "tmp_synced", "renamed", "dir_synced"}
Steps == {"down", "closed", "ready"} \cup OpenSteps \cup AppendSteps \cup ReplaceSteps

StoreTypeOK ==
    /\ lock \in BOOLEAN
    /\ entry \in Inode \cup {NoFile} /\ durableEntry \in Inode \cup {NoFile}
    /\ cached \in [Inode -> File] /\ synced \in [Inode -> File]
    /\ chainFd \in Inode \cup {NoFile}
    /\ blocks \in Seq(Block) /\ pending \in Seq(Block)
    /\ before \in File
    /\ tmp \in Inode \cup {NoFile}
    /\ pc \in Steps

StoreInit ==
    /\ lock = FALSE
    /\ entry = NoFile /\ durableEntry = NoFile
    /\ cached = [i \in Inode |-> Empty] /\ synced = [i \in Inode |-> Empty]
    /\ chainFd = NoFile
    /\ blocks = <<>> /\ pending = <<>>
    /\ before = Empty
    /\ tmp = NoFile
    /\ pc = "down"

FreeInodes == Inode \ {entry, durableEntry, chainFd}

\* What the disk may hold of inode i if the power fails: its last synced
\* content, what was written since, or part of it.
Survivors(i) ==
    {synced[i], cached[i]} \cup
        IF cached[i] # synced[i] THEN {[synced[i] EXCEPT !.torn = TRUE]} ELSE {}

Sync(i) == synced' = [synced EXCEPT ![i] = cached[i]]

-----------------------------------------------------------------------------
(* open *)

\* node.lock is created exclusively: a file left by a crash refuses the open.
TakeLock ==
    /\ pc = "closed" /\ ~lock
    /\ Len(blocks) <= MaxLoaded
    /\ lock' = TRUE
    /\ pc' = "locked"
    /\ UNCHANGED <<entry, durableEntry, cached, synced, chainFd, blocks, pending, before, tmp>>

CreateJournal ==
    /\ pc = "locked" /\ entry = NoFile
    /\ \E i \in FreeInodes :
           /\ entry' = i
           /\ cached' = [cached EXCEPT ![i] = Empty]
           /\ synced' = [synced EXCEPT ![i] = Empty]
    /\ pc' = "created"
    /\ UNCHANGED <<lock, durableEntry, chainFd, blocks, pending, before, tmp>>

WriteHeader ==
    /\ pc = "created"
    /\ cached' = [cached EXCEPT ![entry].header = TRUE]
    /\ pc' = "header_written"
    /\ UNCHANGED <<lock, entry, durableEntry, synced, chainFd, blocks, pending, before, tmp>>

SyncHeader ==
    /\ pc = "header_written"
    /\ Sync(entry)
    /\ pc' = "header_synced"
    /\ UNCHANGED <<lock, entry, durableEntry, cached, chainFd, blocks, pending, before, tmp>>

SyncNewDirectory ==
    /\ pc = "header_synced"
    /\ durableEntry' = entry
    /\ pc' = "journal"
    /\ UNCHANGED <<lock, entry, cached, synced, chainFd, blocks, pending, before, tmp>>

FindJournal ==
    /\ pc = "locked" /\ entry # NoFile
    /\ pc' = "journal"
    /\ UNCHANGED <<diskVars, chainFd, blocks, pending, before, tmp>>

\* A line without its newline at the end is cut off ...
RepairTail ==
    /\ pc = "journal" /\ cached[entry].torn
    /\ cached' = [cached EXCEPT ![entry].torn = FALSE]
    /\ pc' = "truncated"
    /\ UNCHANGED <<lock, entry, durableEntry, synced, chainFd, blocks, pending, before, tmp>>

\* ... and the cut is synced.
SyncRepair ==
    /\ pc = "truncated"
    /\ Sync(entry)
    /\ pc' = "journal"
    /\ UNCHANGED <<lock, entry, durableEntry, cached, chainFd, blocks, pending, before, tmp>>

\* The records are pushed onto this.blocks, which open does not clear first.
LoadedBlocks == blocks \o cached[entry].blocks

LoadJournal ==
    /\ pc = "journal" /\ ~cached[entry].torn /\ cached[entry].header
    /\ blocks' = LoadedBlocks
    /\ chainFd' = entry
    /\ pc' = "ready"
    /\ UNCHANGED <<diskVars, pending, before, tmp>>

\* close: both descriptors are closed and node.lock is removed.
ReleaseFiles ==
    /\ chainFd' = NoFile
    /\ lock' = FALSE
    /\ pc' = "closed"
    /\ UNCHANGED <<entry, durableEntry, cached, synced, pending, before, tmp>>

-----------------------------------------------------------------------------
(* append *)

\* writeAll of one record ends at chainFd's end of file.
WriteRecord(b) ==
    /\ pc = "ready" /\ chainFd # NoFile
    /\ before' = cached[chainFd]
    /\ pending' = Append(blocks, b)
    /\ cached' = [cached EXCEPT ![chainFd].blocks = Append(@, b)]
    /\ pc' = "append_written"
    /\ UNCHANGED <<lock, entry, durableEntry, synced, chainFd, blocks, tmp>>

\* The write fails part way; the catch block begins.
WriteRecordFails(b) ==
    /\ pc = "ready" /\ chainFd # NoFile /\ "append" \in FaultPoints
    /\ before' = cached[chainFd]
    /\ pending' = Append(blocks, b)
    /\ cached' = [cached EXCEPT ![chainFd].torn = TRUE]
    /\ pc' = "rollback"
    /\ UNCHANGED <<lock, entry, durableEntry, synced, chainFd, blocks, tmp>>

\* Variant: append returns without its fsync.
RecordNotSynced ==
    /\ pc = "append_written"
    /\ blocks' = pending
    /\ pc' = "ready"
    /\ UNCHANGED <<diskVars, chainFd, pending, before, tmp>>

SyncRecord ==
    /\ pc = "append_written"
    /\ Sync(chainFd)
    /\ blocks' = pending
    /\ pc' = "ready"
    /\ UNCHANGED <<lock, entry, durableEntry, cached, chainFd, pending, before, tmp>>

\* The fsync fails: any part of the record may be on the disk.
SyncRecordFails ==
    /\ pc = "append_written" /\ pc \in FaultPoints
    /\ \E content \in Survivors(chainFd) : synced' = [synced EXCEPT ![chainFd] = content]
    /\ pc' = "rollback"
    /\ UNCHANGED <<lock, entry, durableEntry, cached, chainFd, blocks, pending, before, tmp>>

TruncateRecord ==
    /\ pc = "rollback"
    /\ cached' = [cached EXCEPT ![chainFd] = before]
    /\ pc' = "rollback_truncated"
    /\ UNCHANGED <<lock, entry, durableEntry, synced, chainFd, blocks, pending, before, tmp>>

\* The truncation is synced and the error is thrown to the caller.
SyncTruncation ==
    /\ pc = "rollback_truncated"
    /\ Sync(chainFd)
    /\ pc' = "ready"
    /\ UNCHANGED <<lock, entry, durableEntry, cached, chainFd, blocks, pending, before, tmp>>

-----------------------------------------------------------------------------
(* replace *)

WriteTemporary(chain) ==
    /\ pc = "ready"
    /\ \E i \in FreeInodes :
           /\ tmp' = i
           /\ cached' = [cached EXCEPT ![i] = Journal(chain)]
           /\ synced' = [synced EXCEPT ![i] = Empty]
    /\ pending' = chain
    /\ pc' = "tmp_written"
    /\ UNCHANGED <<lock, entry, durableEntry, chainFd, blocks, before>>

SyncTemporary ==
    /\ pc = "tmp_written"
    /\ Sync(tmp)
    /\ pc' = "tmp_synced"
    /\ UNCHANGED <<lock, entry, durableEntry, cached, chainFd, blocks, pending, before, tmp>>

RenameTemporary ==
    /\ pc = "tmp_synced"
    /\ entry' = tmp
    /\ pc' = "renamed"
    /\ UNCHANGED <<lock, durableEntry, cached, synced, chainFd, blocks, pending, before, tmp>>

SyncDirectory ==
    /\ pc = "renamed"
    /\ durableEntry' = entry
    /\ pc' = "dir_synced"
    /\ UNCHANGED <<lock, entry, cached, synced, chainFd, blocks, pending, before, tmp>>

\* Variant: the descriptor stays on the replaced file.
KeepDescriptor ==
    /\ pc = "dir_synced" /\ chainFd # NoFile
    /\ blocks' = pending
    /\ pc' = "ready"
    /\ UNCHANGED <<diskVars, chainFd, pending, before, tmp>>

\* The old descriptor is closed and the new file opened for appending.
InstallJournal ==
    /\ pc = "dir_synced" /\ chainFd # NoFile
    /\ chainFd' = entry
    /\ blocks' = pending
    /\ pc' = "ready"
    /\ UNCHANGED <<diskVars, pending, before, tmp>>

\* A call fails at any point of replace: the catch block removes the temporary
\* file, if it still has that name, and throws.  Neither the descriptor nor
\* this.blocks is touched, before the rename or after it; after closeSync the
\* descriptor is closed.
ReplaceFails ==
    /\ pc \in ReplaceSteps
    /\ pc \in FaultPoints \/ (pc = "dir_synced" /\ chainFd = NoFile)
    /\ chainFd' = IF pc = "dir_synced" THEN NoFile ELSE chainFd
    /\ pc' = "ready"
    /\ UNCHANGED <<diskVars, blocks, pending, before, tmp>>
=============================================================================
