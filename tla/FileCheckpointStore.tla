------------------------- MODULE FileCheckpointStore -------------------------
(***************************************************************************)
(* FileCheckpointStore as one worker uses it: load_latest when the process  *)
(* starts, save before every commit.  A save writes a temporary file and    *)
(* renames it; every call may fail, the process may die between any two,    *)
(* and the machine may lose power with data still in its cache.  The name   *)
(* of a file ends in its next offset, zero-padded, so that names sort as    *)
(* offsets do.                                                              *)
(***************************************************************************)
EXTENDS CheckpointCodec

CONSTANTS
  MaxOffset,         \* bound: records of the partition
  RuntimeStates,     \* what the sections may hold when a checkpoint is made
  LegacyFiles,       \* files an earlier version may have left behind
  MaxFaults,         \* bound: crashes and failing calls
  MaxPowerLosses     \* bound: power failures

Offsets == 0 .. MaxOffset

ASSUME FileStoreAssumption ==
  /\ MaxOffset \in Nat \ {0}
  /\ MaxFaults \in Nat
  /\ MaxPowerLosses \in Nat
  /\ RuntimeStates \subseteq Sections
  /\ LegacyFiles \subseteq [position : Offsets, sections : Sections]
  /\ \A c \in LegacyFiles : \A t \in OptionalTags : c.sections[t] = {}

VARIABLES
  files,         \* files[n]: the lines of the checkpoint file for offset n
  temps,         \* the same with the extension .tmp
  unsynced,      \* files whose data the system has not written back
  pc,            \* where the process is
  saving,        \* the checkpoint of the latest save
  fresh,         \* no save since the process started
  loaded,        \* what load_latest returned to this process
  committed,     \* the offset committed at the broker
  stored,        \* history: the checkpoint each file was last renamed from
  saved,         \* history: the latest checkpoint that was renamed into place
  faults, powerLosses

disk == <<files, temps, unsynced>>
history == <<stored, saved>>
bounds == <<faults, powerLosses>>
vars == <<disk, pc, saving, fresh, loaded, committed, history, bounds>>

\* The offset in the name of what is being saved.
Target == saving.position

Fault ==
  /\ faults < MaxFaults
  /\ faults' = faults + 1
  /\ UNCHANGED powerLosses

-----------------------------------------------------------------------------
(* load_latest.                                                            *)

\* Variant: the first name of the directory.
OldestCheckpointPath == Min({m \in Offsets : files[m] # Nothing})

LatestCheckpointPath == Max({m \in Offsets : files[m] # Nothing})

\* Only the file whose name sorts last is read.
LoadLatest ==
  IF \A m \in Offsets : files[m] = Nothing THEN Nothing
  ELSE ReadCheckpoint(files[LatestCheckpointPath])

Start ==
  /\ pc = "down"
  /\ loaded' = LoadLatest
  /\ fresh' = TRUE
  /\ pc' = "idle"
  /\ UNCHANGED <<disk, saving, committed, history, bounds>>

\* A directory that cannot be listed looks like an empty one.
StartWithoutListing ==
  /\ pc = "down"
  /\ Fault
  /\ loaded' = Nothing
  /\ fresh' = TRUE
  /\ pc' = "idle"
  /\ UNCHANGED <<disk, saving, committed, history>>

-----------------------------------------------------------------------------
(* save.                                                                   *)

\* Replay reaches every offset that was ever saved, so positions never go
\* back; the startup scan saves at the offset that recovery ended at.
BeginSave(position, sections) ==
  /\ pc = "idle"
  /\ IF fresh THEN position >= Target ELSE position > Target
  /\ saving' = Checkpoint(position, sections)
  /\ fresh' = FALSE
  /\ pc' = "writing"
  /\ UNCHANGED <<disk, loaded, committed, history, bounds>>

WriteTemp ==
  /\ pc = "writing"
  /\ temps' = [temps EXCEPT ![Target] = WriteCheckpoint(saving)]
  /\ pc' = "renaming"
  /\ UNCHANGED <<files, unsynced, saving, fresh, loaded, committed, history, bounds>>

\* The file could not be opened, or the process ended with part of it written,
\* at worst all but the last line.  Nobody removes that file or reads it.
WriteFails ==
  /\ pc = "writing"
  /\ Fault
  /\ \/ UNCHANGED temps
     \/ temps' = [temps EXCEPT ![Target] = Front(WriteCheckpoint(saving))]
  /\ pc' = "down"
  /\ UNCHANGED <<files, unsynced, saving, fresh, loaded, committed, history>>

\* The data is flushed to the system, not to the disk.
RenameTemp ==
  /\ files' = [files EXCEPT ![Target] = temps[Target]]
  /\ temps' = [temps EXCEPT ![Target] = Nothing]
  /\ unsynced' = unsynced \cup {Target}
  /\ stored' = [stored EXCEPT ![Target] = saving]
  /\ saved' = saving
  /\ pc' = "saved"
  /\ UNCHANGED <<saving, fresh, loaded, committed, bounds>>

Rename == pc \in {"renaming", "renamingAgain"} /\ RenameTemp

RenameFails ==
  /\ pc = "renaming"
  /\ Fault
  /\ pc' = "removing"
  /\ UNCHANGED <<disk, saving, fresh, loaded, committed, history>>

\* The file in the way is removed and the rename tried again, whether or not
\* the removal worked.
RemoveFinal ==
  /\ pc = "removing"
  /\ pc' = "renamingAgain"
  /\ \/ /\ files' = [files EXCEPT ![Target] = Nothing]
        /\ unsynced' = unsynced \ {Target}
        /\ UNCHANGED faults
     \/ /\ faults < MaxFaults
        /\ faults' = faults + 1
        /\ UNCHANGED <<files, unsynced>>
  /\ UNCHANGED <<temps, saving, fresh, loaded, committed, history, powerLosses>>

\* The second failure removes the temporary file and throws.
RenameFailsAgain ==
  /\ pc = "renamingAgain"
  /\ Fault
  /\ temps' = [temps EXCEPT ![Target] = Nothing]
  /\ pc' = "down"
  /\ UNCHANGED <<files, unsynced, saving, fresh, loaded, committed, history>>

\* CommitOffset of EngineWorker; the startup scan commits nothing.
AfterSave ==
  /\ pc = "saved"
  /\ committed' \in {committed, Target}
  /\ pc' = "idle"
  /\ UNCHANGED <<disk, saving, fresh, loaded, history, bounds>>

-----------------------------------------------------------------------------
(* The machine.                                                            *)

Crash ==
  /\ pc # "down"
  /\ Fault
  /\ pc' = "down"
  /\ UNCHANGED <<disk, saving, fresh, loaded, committed, history>>

Sync(m) ==
  /\ m \in unsynced
  /\ unsynced' = unsynced \ {m}
  /\ UNCHANGED <<files, temps, pc, saving, fresh, loaded, committed, history, bounds>>

\* A renamed file whose data was still in the cache keeps any prefix of it.
PowerLoss ==
  /\ powerLosses < MaxPowerLosses
  /\ powerLosses' = powerLosses + 1
  /\ \E m \in unsynced : \E k \in 0 .. Len(files[m]) :
       files' = [files EXCEPT ![m] = SubSeq(files[m], 1, k)]
  /\ unsynced' = {}
  /\ pc' = "down"
  /\ UNCHANGED <<temps, saving, fresh, loaded, committed, history, faults>>

-----------------------------------------------------------------------------
\* The directory is empty, or holds one file of an earlier version, without
\* the sections that version did not have.
Init ==
  /\ \E c \in LegacyFiles \cup {Checkpoint(0, EmptySections)} :
       /\ saving = c
       /\ committed = c.position
       /\ files = [m \in Offsets |->
            IF c.position = m /\ m > 0
            THEN LinesWith(c, Range(SectionTags) \ OptionalTags) ELSE Nothing]
       /\ stored = [m \in Offsets |-> IF c.position = m /\ m > 0 THEN c ELSE Nothing]
       /\ saved = IF c.position > 0 THEN c ELSE Nothing
  /\ temps = [m \in Offsets |-> Nothing]
  /\ unsynced = {}
  /\ pc = "down"
  /\ fresh = TRUE
  /\ loaded = Nothing
  /\ faults = 0
  /\ powerLosses = 0

Next ==
  \/ Start \/ StartWithoutListing
  \/ \E m \in Offsets \ {0}, s \in RuntimeStates : BeginSave(m, s)
  \/ WriteTemp \/ WriteFails
  \/ Rename \/ RenameFails \/ RemoveFinal \/ RenameFailsAgain \/ AfterSave
  \/ Crash \/ PowerLoss
  \/ \E m \in Offsets : Sync(m)

Spec == Init /\ [][Next]_vars

-----------------------------------------------------------------------------
(* Properties.                                                             *)

\* Every file with the checkpoint extension reads back as the checkpoint it was
\* written from, whichever calls failed and wherever the process died; a file
\* that a power failure tore is never taken for a checkpoint, whatever part of
\* it is left.
FilesReadBack ==
  \A m \in Offsets : files[m] # Nothing =>
    \/ stored[m] # Nothing /\ ReadCheckpoint(files[m]) = Restored(stored[m])
    \/ powerLosses > 0 /\ ReadCheckpoint(files[m]) = Nothing

\* Unless power was lost, a process starts from the latest checkpoint that was
\* renamed into place, whether or not that save returned; it falls behind only
\* when a re-save of that very offset broke off between removing and renaming.
StartsFromNewestSave ==
  Start /\ powerLosses = 0 /\ saved # Nothing =>
    loaded' = Restored(saved) \/ files[saved.position] = Nothing

\* Whatever has been committed is covered by a checkpoint that the next start
\* will find: a checkpoint is durable before the commit.
CheckpointBeforeCommit ==
  committed > 0 => LoadLatest # Nothing /\ committed <= LoadLatest.position

=============================================================================
