---------------------------- MODULE SnapshotStore ----------------------------
(***************************************************************************)
(* The data of the snapshot store (src/codelux/snapshots.py, models.py):   *)
(* one manifest per operation, holding the state of the operation, the     *)
(* state of each file it may touch and the backup of each file taken       *)
(* before the first write.                                                 *)
(*                                                                         *)
(* A client owns NFiles[c] configuration files, written in index order:    *)
(* Claude owns settings.json, Codex owns config.toml (1) and auth.json     *)
(* (2).  The bytes of a file are abstracted to the Provider whose          *)
(* configuration they hold, a member of Contents.                          *)
(***************************************************************************)
EXTENDS Integers, Sequences

CONSTANTS
    Clients,      \* the clients Codelux manages
    NFiles,       \* NFiles[c]: how many files client c is configured by
    Contents      \* what a configuration file may hold: one value per Provider

ASSUME ClientFilesAssumption == NFiles \in [Clients -> {1, 2}]

ASSUME ContentsAssumption == Contents # {}

Files == {f \in Clients \X (1 .. 2) : f[2] <= NFiles[f[1]]}

FilesOf(c) == {c} \X (1 .. NFiles[c])

Images == [Files -> Contents]

(***************************************************************************)
(* OperationState and FileState.                                           *)
(***************************************************************************)
OperationStates ==
    {"PREPARED", "COMMITTING", "COMMITTED",
     "ROLLING_BACK", "ROLLED_BACK", "RECOVERY_REQUIRED"}

FileStates == {"STAGED", "MODIFIED", "ROLLED_BACK", "RECOVERY_REQUIRED"}

(***************************************************************************)
(* A manifest.  clients: the clients the operation changes, in commit      *)
(* order.  target: the Provider it installs.  files[f]: the state of f; a  *)
(* file of another client is not listed and has no state.  backup: the     *)
(* image the listed files had when the operation was prepared.             *)
(***************************************************************************)
Manifest ==
    [clients : Seq(Clients),
     target  : Contents,
     state   : OperationStates,
     files   : [Files -> FileStates \cup {"UNLISTED"}],
     backup  : Images]

ClientSet(m) == {m.clients[i] : i \in 1 .. Len(m.clients)}

Listed(m) == {f \in Files : f[1] \in ClientSet(m)}

(* The manifest SnapshotStore.create writes for a change list.             *)
NewManifest(clients, target, image) ==
    [clients |-> clients,
     target  |-> target,
     state   |-> "PREPARED",
     files   |-> [f \in Files |->
                    IF \E i \in 1 .. Len(clients) : f[1] = clients[i]
                    THEN "STAGED" ELSE "UNLISTED"],
     backup  |-> image]

UpdateFileStates(m, fs, state) ==
    [m EXCEPT !.files = [f \in Files |-> IF f \in fs THEN state ELSE m.files[f]]]

UpdateAllFileStates(m, state) == UpdateFileStates(m, Listed(m), state)

UpdateClientState(m, c, state, opState) ==
    [UpdateFileStates(m, FilesOf(c), state) EXCEPT !.state = opState]

SetOperationState(m, state) == [m EXCEPT !.state = state]

Finalized(m) == m.state \in {"COMMITTED", "ROLLED_BACK"}

(* The file states SnapshotStore.recover restores; it skips the others.    *)
Recoverable(m, f) == m.files[f] \in {"MODIFIED", "RECOVERY_REQUIRED"}

(* The operations whose stored manifest is not final.  Operation ids are   *)
(* positions in ms: they are numbered in the order of created_at.          *)
Incomplete(ms) == {op \in 1 .. Len(ms) : ~Finalized(ms[op])}

(* latest_incomplete picks the greatest created_at.                        *)
IsLatestIncomplete(ms, op) ==
    /\ op \in Incomplete(ms)
    /\ \A other \in Incomplete(ms) : other <= op
=============================================================================
