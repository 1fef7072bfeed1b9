-------------------------- MODULE S3CheckpointStore --------------------------
(***************************************************************************)
(* S3CheckpointStore as one worker uses it: load_latest lists the keys of   *)
(* its prefix page by page and gets the last one; save puts one object.     *)
(* Every request may fail or time out, and a put that timed out may still   *)
(* be carried out later, while the next process is already listing.         *)
(***************************************************************************)
EXTENDS Naturals, FiniteSetsExt

\* The checkpoint format, which is the file store's (see CheckpointCodec).
CONSTANTS
  Nothing,
  Sections, EmptySections,
  Checkpoint(_, _),
  WriteCheckpoint(_), ReadCheckpoint(_),
  Restored(_)

CONSTANTS
  MaxOffset,         \* bound: records of the partition
  RuntimeStates,     \* what the sections may hold when a checkpoint is made
  PageSize,          \* keys in one response to a list request
  MaxFaults          \* bound: crashes and failing requests

Offsets == 1 .. MaxOffset

\* What its user asserts of the constants.
S3StoreConstants ==
  /\ MaxOffset \in Nat \ {0}
  /\ MaxFaults \in Nat
  /\ PageSize \in Nat \ {0}
  /\ RuntimeStates \subseteq Sections

VARIABLES
  objects,       \* objects[n]: the body stored under the key for offset n
  late,          \* a put the client has given up and the server has not
  pc,            \* where the process is
  saving,        \* the checkpoint of the latest save
  fresh,         \* no save since the process started
  token,         \* the continuation token: the last key of the previous page
  candidates,    \* the keys listed so far
  body,          \* the body of the object that load_latest got
  saved,         \* history: the latest checkpoint whose save returned
  attempts,      \* history: the saves begun since then
  faults

process == <<saving, fresh, token, candidates, body>>
history == <<saved, attempts>>
vars == <<objects, late, pc, process, history, faults>>

\* The offset in the name of what is being saved.
Target == saving.position

Fault ==
  /\ faults < MaxFaults
  /\ faults' = faults + 1

-----------------------------------------------------------------------------
(* load_latest.                                                            *)

Start ==
  /\ pc = "down"
  /\ token' = 0
  /\ candidates' = {}
  /\ fresh' = TRUE
  /\ pc' = "listing"
  /\ UNCHANGED <<objects, late, saving, body, history, faults>>

KeysAfter(k) == {m \in Offsets : m > k /\ objects[m] # Nothing}

\* The server's answer: the next keys in order, and whether there are more.
Page == {m \in KeysAfter(token) : Cardinality({l \in KeysAfter(token) : l < m}) < PageSize}
IsTruncated == Page # KeysAfter(token)

\* list_checkpoint_keys: one page.
ListPage ==
  /\ pc = "listing"
  /\ candidates' = candidates \cup Page
  /\ IF IsTruncated THEN token' = Max(Page) /\ UNCHANGED <<pc, body>>
     ELSE /\ UNCHANGED token
          /\ IF candidates' = {} THEN pc' = "idle" /\ body' = Nothing
                                 ELSE pc' = "getting" /\ UNCHANGED body
  /\ UNCHANGED <<objects, late, saving, fresh, history, faults>>

GetObject ==
  /\ pc = "getting"
  /\ body' = objects[Max(candidates)]
  /\ pc' = "idle"
  /\ UNCHANGED <<objects, late, saving, fresh, token, candidates, history, faults>>

\* What load_latest returns: the body is read by the same reader as a file.
Loaded == IF body = Nothing THEN Nothing ELSE ReadCheckpoint(body)

\* An error status or no answer: unlike the file store, it throws.
LoadFails ==
  /\ pc \in {"listing", "getting"}
  /\ Fault
  /\ pc' = "down"
  /\ UNCHANGED <<objects, late, process, history>>

-----------------------------------------------------------------------------
(* save.                                                                   *)

\* Replay reaches every offset that was ever saved, so positions never go
\* back; the startup scan saves at the offset that recovery ended at.  A put
\* that was given up does not outlive the next one.
BeginSave(position, sections) ==
  /\ pc = "idle"
  /\ IF fresh THEN position >= Target ELSE position > Target
  /\ saving' = Checkpoint(position, sections)
  /\ fresh' = FALSE
  /\ late' = Nothing
  /\ attempts' = attempts \cup {saving'}
  /\ pc' = "putting"
  /\ UNCHANGED <<objects, token, candidates, body, saved, faults>>

PutSucceeds ==
  /\ pc = "putting"
  /\ objects' = [objects EXCEPT ![Target] = WriteCheckpoint(saving)]
  /\ saved' = saving
  /\ attempts' = {}
  /\ pc' = "idle"
  /\ UNCHANGED <<late, process, faults>>

\* A status outside 2xx, a timeout or the end of the process: the save throws,
\* and the request may have reached the server.
PutFails ==
  /\ pc = "putting"
  /\ Fault
  /\ late' \in {Nothing, saving}
  /\ pc' = "down"
  /\ UNCHANGED <<objects, process, history>>

PutLate ==
  /\ late # Nothing
  /\ objects' = [objects EXCEPT ![late.position] = WriteCheckpoint(late)]
  /\ late' = Nothing
  /\ UNCHANGED <<pc, process, history, faults>>

Crash ==
  /\ pc = "idle"
  /\ Fault
  /\ pc' = "down"
  /\ UNCHANGED <<objects, late, process, history>>

-----------------------------------------------------------------------------
Init ==
  /\ objects = [m \in Offsets |-> Nothing]
  /\ late = Nothing
  /\ pc = "down"
  /\ saving = Checkpoint(0, EmptySections)
  /\ fresh = TRUE
  /\ token = 0
  /\ candidates = {}
  /\ body = Nothing
  /\ saved = Nothing
  /\ attempts = {}
  /\ faults = 0

Load == Start \/ ListPage \/ GetObject

Next ==
  \/ Load \/ LoadFails
  \/ \E m \in Offsets, s \in RuntimeStates : BeginSave(m, s)
  \/ PutSucceeds \/ PutFails \/ PutLate
  \/ Crash

Spec == Init /\ [][Next]_vars

-----------------------------------------------------------------------------
(* Properties.                                                             *)

\* A process starts from the latest save that returned, or from one begun later
\* whose put was given up, also when that put lands between two pages or
\* between the listing and the get.
LoadsNewestSave ==
  pc = "idle" /\ fresh /\ saved # Nothing =>
    Loaded \in {Restored(c) : c \in attempts \cup {saved}}
=============================================================================
