--------------------------- MODULE CheckpointStores ---------------------------
(***************************************************************************)
(* The store make_checkpoint_store builds from the configuration: one of   *)
(* the two, for the whole life of the worker.  Where they keep the same    *)
(* thing (where the process is, the checkpoint being saved, the latest     *)
(* save) they share the variable; both use the one checkpoint format.      *)
(***************************************************************************)
EXTENDS FileCheckpointStore

\* MaxOffset, PageSize and RuntimeStates of the S3 store.
CONSTANTS S3MaxOffset, S3PageSize, S3RuntimeStates

VARIABLES
  kind,                              \* EngineCheckpointStoreKind
  objects, late, token, candidates, body, attempts

s3Only == <<objects, late, token, candidates, body, attempts>>
fileOnly == <<disk, loaded, committed, stored, powerLosses>>
storeVars == <<vars, kind, s3Only>>

S3 == INSTANCE S3CheckpointStore WITH
        MaxOffset <- S3MaxOffset, PageSize <- S3PageSize,
        RuntimeStates <- S3RuntimeStates

ASSUME S3StoreAssumption == S3!S3StoreConstants

FileInit ==
  /\ kind = "file"
  /\ Init
  /\ objects = [m \in 1 .. S3MaxOffset |-> Nothing]
  /\ late = Nothing /\ body = Nothing
  /\ token = 0
  /\ candidates = {} /\ attempts = {}

S3Init ==
  /\ kind = "s3"
  /\ S3!Init
  /\ files = [m \in Offsets |-> Nothing] /\ temps = files /\ stored = files
  /\ unsynced = {}
  /\ loaded = Nothing
  /\ committed = 0
  /\ powerLosses = 0

StoreInit == FileInit \/ S3Init

StoreNext ==
  /\ UNCHANGED kind
  /\ \/ kind = "file" /\ Next /\ UNCHANGED s3Only
     \/ kind = "s3" /\ S3!Next /\ UNCHANGED fileOnly

StoreSpec == StoreInit /\ [][StoreNext]_storeVars

-----------------------------------------------------------------------------
(* Properties.                                                             *)

\* FilesReadBack of the file store.
FileStoreReadsBack == kind = "file" => FilesReadBack

\* A start finds the newest save, with either store: the file store through a
\* rename that failed, the S3 store through a listing and a get between which an
\* older put may land.
NewestSaveIsFound ==
  /\ [](kind = "s3" => S3!LoadsNewestSave)
  /\ [][kind = "file" => StartsFromNewestSave]_vars
=============================================================================
