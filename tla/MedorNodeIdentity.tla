-------------------------- MODULE MedorNodeIdentity --------------------------
(***************************************************************************)
(* The private key file of a node, in src/src/net/node_identity.cpp (as    *)
(* built for POSIX): generate writes a new key under a temporary name,     *)
(* syncs it and renames it over the old one; loadFromFile reads it.  Any   *)
(* call may fail, the process may die and the power may fail between any   *)
(* two: of a file that was not synced a part may then be missing, and a    *)
(* rename is undone that had not reached the disk, which it does in its    *)
(* own time as no directory is synced.  A file holds a key, or Torn: no    *)
(* line of 64 hex digits.                                                  *)
(***************************************************************************)
EXTENDS Integers

CONSTANTS Key,              \* private keys; one file each, as a name
          NoFile, Torn,
          MaxFaults         \* bound on failing calls and power failures

VARIABLES file,             \* from files to what they hold and whether it is synced
          tmp, name, disk,  \* the file at path.tmp, at path, and at path on disk
          step, key,        \* where the process is, and its identity
          faults            \* bound: so far

identityVars == <<file, tmp, name, disk, step, key, faults>>

Unwritten == [holds |-> Torn, synced |-> FALSE]

Init ==
    /\ file = [k \in Key |-> Unwritten]
    /\ tmp = NoFile /\ name = NoFile /\ disk = NoFile
    /\ step = "down" /\ key = NoFile
    /\ faults = 0

Fault == faults < MaxFaults /\ faults' = faults + 1

-----------------------------------------------------------------------------
(* generate *)

\* A key pair; it is not looked whether there is an identity already.
Generate ==
    /\ step = "down"
    /\ \E k \in Key :
         /\ file[k] = Unwritten /\ k \notin {tmp, name, disk}
         /\ key' = k
    /\ step' = "open"
    /\ UNCHANGED <<file, tmp, name, disk, faults>>

\* O_TRUNC: what an earlier attempt left under the temporary name is emptied.
OpenTemporary ==
    /\ step = "open"
    /\ tmp' = IF tmp = NoFile THEN key ELSE tmp
    /\ file' = [file EXCEPT ![tmp'] = Unwritten]
    /\ step' = "write"
    /\ UNCHANGED <<name, disk, key, faults>>

\* The writes of the loop, up to the last.
WriteKey ==
    /\ step = "write"
    /\ file' = [file EXCEPT ![tmp].holds = key]
    /\ step' = "sync"
    /\ UNCHANGED <<tmp, name, disk, key, faults>>

\* Variant: fsync is left out.
RenameUnsynced ==
    /\ step = "sync"
    /\ step' = "rename"
    /\ UNCHANGED <<file, tmp, name, disk, key, faults>>

SyncKey ==
    /\ step = "sync"
    /\ file' = [file EXCEPT ![tmp].synced = TRUE]
    /\ step' = "rename"
    /\ UNCHANGED <<tmp, name, disk, key, faults>>

RenameTemporary ==
    /\ step = "rename"
    /\ name' = tmp /\ tmp' = NoFile
    /\ step' = "up"
    /\ UNCHANGED <<file, disk, key, faults>>

\* open fails, and nothing has been done; after any other call that fails
\* the temporary name is removed.  generate throws.
CallFails ==
    /\ step \in {"open", "write", "sync", "rename"}
    /\ Fault
    /\ tmp' = IF step = "open" THEN tmp ELSE NoFile
    /\ step' = "down" /\ key' = NoFile
    /\ UNCHANGED <<file, name, disk>>

-----------------------------------------------------------------------------
(* loadFromFile *)

\* It throws when there is no file, or no key in it.
LoadFromFile ==
    /\ step = "down"
    /\ name # NoFile
    /\ file[name].holds # Torn
    /\ key' = file[name].holds
    /\ step' = "up"
    /\ UNCHANGED <<file, tmp, name, disk, faults>>

-----------------------------------------------------------------------------
(* What happens to the process and its disk *)

ProcessEnds ==
    /\ step # "down"
    /\ step' = "down" /\ key' = NoFile
    /\ UNCHANGED <<file, tmp, name, disk, faults>>

DirectoryReachesDisk ==
    /\ disk # name
    /\ disk' = name
    /\ UNCHANGED <<file, tmp, name, step, key, faults>>

\* The temporary name may be left or gone.
PowerFails ==
    /\ Fault
    /\ name' \in {name, disk} /\ disk' = name'
    /\ tmp' \in {tmp, NoFile} \ {name'}
    /\ \E torn \in SUBSET {k \in Key : ~file[k].synced} :
         file' = [k \in Key |-> IF k \in torn THEN Unwritten ELSE file[k]]
    /\ step' = "down" /\ key' = NoFile

Next ==
    \/ Generate \/ OpenTemporary \/ WriteKey \/ SyncKey \/ RenameTemporary
    \/ CallFails
    \/ LoadFromFile
    \/ ProcessEnds
    \/ DirectoryReachesDisk
    \/ PowerFails

Spec == Init /\ [][Next]_identityVars

-----------------------------------------------------------------------------
(* Properties *)

\* "fsync before rename -- crash/power-loss safe": whatever fails, dies or is
\* undone at whatever moment, path leads to a whole key once it leads to one,
\* and to that of the running node if this one saved or loaded it last.
KeyWhole ==
    /\ \A f \in {name, disk} \ {NoFile} : file[f].holds # Torn
    /\ step = "up" => name # NoFile /\ file[name].holds = key
=============================================================================
