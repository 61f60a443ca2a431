------------------------- MODULE ProviderTransaction -------------------------
(***************************************************************************)
(* The commands that rewrite client configuration: `codelux switch` (and   *)
(* the activating half of `add` and `update`, which run the same           *)
(* transaction) and `codelux recover`.                                     *)
(*                                                                         *)
(* A command takes the operation lock (locking.py), passes the recovery    *)
(* gate of cli.py, snapshots the files it may touch (snapshots.py),        *)
(* commits through TransactionCoordinator (coordinator.py) and the client  *)
(* adapters (adapters/), and records the new Provider in the registry.     *)
(* Every step below is one durable write, the grain at which a write may   *)
(* fail and the process may die.                                           *)
(***************************************************************************)
EXTENDS SnapshotStore

CONSTANTS
    Procs,          \* the Codelux processes a user may start
    ChangeLists,    \* the change lists a transaction may commit
    ClientFaults,   \* how a write of a client file may fail
    StoreFaults,    \* how a write of a manifest or recovery.json may fail
    RegistryFaults, \* how the write of providers.json may fail
    MaxOps,         \* bound: operations started
    MaxFaults,      \* bound: failed writes
    MaxCrashes,     \* bound: processes killed
    NoProc

NoRecord == 0       \* recovery.json is absent

(* atomic_write_private fails before os.replace (early: the target keeps   *)
(* its content) or after it, in chmod or in the directory's fsync (late:   *)
(* the target is changed and the caller sees the exception all the same).  *)
Faults == {"early", "late"}

ASSUME FaultsAssumption ==
    ClientFaults \subseteq Faults /\ StoreFaults \subseteq Faults
        /\ RegistryFaults \subseteq Faults

ASSUME ProcsAssumption == NoProc \notin Procs

ASSUME ChangeListsAssumption ==
    /\ ChangeLists \subseteq Seq(Clients)
    /\ \A list \in ChangeLists :
          /\ Len(list) > 0
          /\ \A i, k \in 1 .. Len(list) : list[i] = list[k] => i = k

ASSUME BoundsAssumption == MaxOps \in Nat /\ MaxFaults \in Nat /\ MaxCrashes \in Nat

VARIABLES
    disk,       \* disk[f]: what client file f holds
    current,    \* providers.json: the Provider recorded for each client
    manifests,  \* the stored manifests, by operation in order of creation
    recovery,   \* the operation recovery.json names, or NoRecord
    lock,       \* the holder of operation.lock, or NoProc
    job,        \* job[p]: the volatile state of process p
    faults,     \* failed writes so far
    crashes     \* crashes so far

vars == <<disk, current, manifests, recovery, lock, job, faults, crashes>>

Labels ==
    {"idle", "gate", "flagFiles", "flagOperation", "flagRecord",
     "prepare", "create", "begin", "commit", "undo", "mark", "finish",
     "rollback", "markBack", "flagClient", "flagFailed", "report", "settle",
     "save", "check", "restore", "settleFiles", "settleOperation", "clear"}

(* at: the next step.  op, mem: the operation in hand and the manifest as  *)
(* the process last knew it.  i, j: position in the change list and in the *)
(* client's files.  failed: clients to flag.  todo: files recover has yet  *)
(* to restore.  saving: the rollback was caused by the registry write.     *)
Jobs ==
    [at     : Labels,
     cmd    : {"switch", "recover"},
     op     : Nat,
     mem    : Manifest,
     i      : Nat,
     j      : Nat,
     failed : SUBSET Clients,
     todo   : SUBSET Files,
     saving : BOOLEAN]

IdleJob ==
    [at |-> "idle", cmd |-> "switch", op |-> 0,
     mem |-> NewManifest(<<>>, CHOOSE x \in Contents : TRUE,
                         [f \in Files |-> CHOOSE x \in Contents : TRUE]),
     i |-> 0, j |-> 0, failed |-> {}, todo |-> {}, saving |-> FALSE]

Init ==
    /\ \E x \in Contents : /\ disk = [f \in Files |-> x]
                           /\ current = [c \in Clients |-> x]
    /\ manifests = <<>>
    /\ recovery = NoRecord
    /\ lock = NoProc
    /\ job = [p \in Procs |-> IdleJob]
    /\ faults = 0
    /\ crashes = 0

-----------------------------------------------------------------------------
(* Writes and control.                                                     *)

Outcomes(kinds) == {"ok"} \cup IF faults < MaxFaults THEN kinds ELSE {}

Takes(o) == o # "early"     \* the target holds the new content

Count(o) == faults' = IF o = "ok" THEN faults ELSE faults + 1

WriteFile(f, content, o) ==
    disk' = IF Takes(o) THEN [disk EXCEPT ![f] = content] ELSE disk

WriteManifest(op, m, o) ==
    manifests' = IF Takes(o) THEN [manifests EXCEPT ![op] = m] ELSE manifests

At(p, label) == job[p].at = label

Continue(p, next) == job' = [job EXCEPT ![p] = next] /\ UNCHANGED lock

Goto(p, label) == Continue(p, [job[p] EXCEPT !.at = label])

(* The command ends, normally or with an exception: OperationLock.__exit__ *)
(* closes the process's own descriptor, and with it its own lock.          *)
Exit(p) ==
    /\ job' = [job EXCEPT ![p] = IdleJob]
    /\ lock' = IF lock = p THEN NoProc ELSE lock

(* A manifest write by p that replaces its copy in memory when it succeeds *)
(* and otherwise leaves the copy as it was.                                *)
StoreThen(p, m, o, next, otherwise) ==
    /\ WriteManifest(job[p].op, m, o)
    /\ IF o = "ok" THEN Continue(p, [next EXCEPT !.mem = m]) ELSE otherwise
    /\ Count(o)

Client(p) == job[p].mem.clients[job[p].i]

(* The rollback loop over reversed(committed): the client at position k    *)
(* comes next; when none is left the outcome of the loop decides.  In      *)
(* commit_all every failed client is flagged only now; after a failed      *)
(* registry write each was flagged when it failed.                         *)
RollBackFrom(next, k) ==
    IF k > 0 THEN [next EXCEPT !.at = "rollback", !.i = k, !.j = 1]
    ELSE [next EXCEPT !.i = 0, !.j = 0,
                      !.at = IF next.failed = {} THEN "settle"
                             ELSE IF next.saving THEN "report" ELSE "flagFailed"]

-----------------------------------------------------------------------------
(* Starting a command.  flock is taken with LOCK_NB: a process that finds  *)
(* the lock held ends at once, which changes nothing.                      *)

(* Mutant: the lock is not asked for.                                      *)
StartUnlocked(p, cmd) ==
    /\ job[p].at = "idle"
    /\ lock' = p
    /\ job' = [job EXCEPT ![p].at = "gate", ![p].cmd = cmd]
    /\ UNCHANGED <<disk, current, manifests, recovery, faults, crashes>>

Start(p, cmd) ==
    /\ lock = NoProc
    /\ job[p].at = "idle"
    /\ lock' = p
    /\ job' = [job EXCEPT ![p].at = "gate", ![p].cmd = cmd]
    /\ UNCHANGED <<disk, current, manifests, recovery, faults, crashes>>

StartSwitch(p) == Len(manifests) < MaxOps /\ Start(p, "switch")

StartRecover(p) == Start(p, "recover")

(* The gate: recovery.json stops every command but recover; an incomplete  *)
(* operation is first turned into a recorded one (require_recovery), by    *)
(* recover too, when no record exists yet.                                 *)
GateRecorded(p) ==
    /\ At(p, "gate")
    /\ recovery # NoRecord
    /\ IF job[p].cmd = "switch" THEN Exit(p)
       ELSE Continue(p, [job[p] EXCEPT !.at = "check", !.op = recovery,
                                       !.mem = manifests[recovery]])
    /\ UNCHANGED <<disk, current, manifests, recovery, faults, crashes>>

GateIncomplete(p) ==
    /\ At(p, "gate")
    /\ recovery = NoRecord
    /\ \E op \in 1 .. Len(manifests) :
          /\ IsLatestIncomplete(manifests, op)
          /\ Continue(p, [job[p] EXCEPT !.at = "flagFiles", !.op = op,
                                        !.mem = manifests[op]])
    /\ UNCHANGED <<disk, current, manifests, recovery, faults, crashes>>

(* Mutants: the gate looks only for recovery.json; only at the manifests.  *)
GateClearIfUnrecorded(p) ==
    /\ At(p, "gate")
    /\ recovery = NoRecord
    /\ IF job[p].cmd = "switch" THEN Goto(p, "prepare") ELSE Exit(p)
    /\ UNCHANGED <<disk, current, manifests, recovery, faults, crashes>>

GateClearIfFinal(p) ==
    /\ At(p, "gate")
    /\ Incomplete(manifests) = {}
    /\ IF job[p].cmd = "switch" THEN Goto(p, "prepare") ELSE Exit(p)
    /\ UNCHANGED <<disk, current, manifests, recovery, faults, crashes>>

GateClear(p) ==
    /\ At(p, "gate")
    /\ recovery = NoRecord
    /\ Incomplete(manifests) = {}
    /\ IF job[p].cmd = "switch" THEN Goto(p, "prepare") ELSE Exit(p)
    /\ UNCHANGED <<disk, current, manifests, recovery, faults, crashes>>

(* Mutant: require_recovery flags the operation but not its files.         *)
FlagFilesNever(p) ==
    /\ At(p, "flagFiles")
    /\ Goto(p, "flagOperation")
    /\ UNCHANGED <<disk, current, manifests, recovery, faults, crashes>>

(* require_recovery: three writes, the record last.                        *)
FlagFiles(p) ==
    /\ At(p, "flagFiles")
    /\ \E o \in Outcomes(StoreFaults) :
          StoreThen(p, UpdateAllFileStates(job[p].mem, "RECOVERY_REQUIRED"), o,
                    [job[p] EXCEPT !.at = "flagOperation"], Exit(p))
    /\ UNCHANGED <<disk, current, recovery, crashes>>

FlagOperation(p) ==
    /\ At(p, "flagOperation")
    /\ \E o \in Outcomes(StoreFaults) :
          StoreThen(p, SetOperationState(job[p].mem, "RECOVERY_REQUIRED"), o,
                    [job[p] EXCEPT !.at = "flagRecord"], Exit(p))
    /\ UNCHANGED <<disk, current, recovery, crashes>>

FlagRecord(p) ==
    /\ At(p, "flagRecord")
    /\ \E o \in Outcomes(StoreFaults) :
          /\ recovery' = IF Takes(o) THEN job[p].op ELSE recovery
          /\ Count(o)
          /\ IF o = "ok" /\ job[p].cmd = "recover" THEN Goto(p, "check") ELSE Exit(p)
    /\ UNCHANGED <<disk, current, manifests, crashes>>

-----------------------------------------------------------------------------
(* The transaction: prepare, create, commit_all.                           *)

(* The preparation finds a reason to refuse (the client runs, its          *)
(* configuration is overridden, the Provider is unknown).                  *)
Refuse(p) ==
    /\ At(p, "prepare")
    /\ Exit(p)
    /\ UNCHANGED <<disk, current, manifests, recovery, faults, crashes>>

(* The adapters read the files they will replace.                          *)
Prepare(p) ==
    /\ At(p, "prepare")
    /\ \E clients \in ChangeLists, target \in Contents :
          Continue(p, [job[p] EXCEPT !.at = "create",
                                     !.mem = NewManifest(clients, target, disk)])
    /\ UNCHANGED <<disk, current, manifests, recovery, faults, crashes>>

(* Mutant: a failure to write the manifest goes unnoticed.                 *)
CreateManifestUnchecked(p) ==
    /\ At(p, "create")
    /\ \E o \in Outcomes(StoreFaults) :
          /\ manifests' = IF Takes(o) THEN Append(manifests, job[p].mem) ELSE manifests
          /\ Count(o)
          /\ Continue(p, [job[p] EXCEPT !.at = "begin", !.op = Len(manifests) + 1])
    /\ UNCHANGED <<disk, current, recovery, crashes>>

(* The backups are written first; without a manifest they are ignored.     *)
CreateManifest(p) ==
    /\ At(p, "create")
    /\ \E o \in Outcomes(StoreFaults) :
          /\ manifests' = IF Takes(o) THEN Append(manifests, job[p].mem) ELSE manifests
          /\ Count(o)
          /\ IF o = "ok"
             THEN Continue(p, [job[p] EXCEPT !.at = "begin", !.op = Len(manifests) + 1])
             ELSE Exit(p)
    /\ UNCHANGED <<disk, current, recovery, crashes>>

BeginCommit(p) ==
    /\ At(p, "begin")
    /\ \E o \in Outcomes(StoreFaults) :
          StoreThen(p, SetOperationState(job[p].mem, "COMMITTING"), o,
                    [job[p] EXCEPT !.at = "commit", !.i = 1, !.j = 1], Exit(p))
    /\ UNCHANGED <<disk, current, recovery, crashes>>

(* adapter.commit writes the client's files in order.  A failure at the    *)
(* first file leaves the adapter at once; at the second (Codex's auth.json)*)
(* the first is put back before the exception goes on.                     *)
CommitFile(p) ==
    /\ At(p, "commit")
    /\ \E o \in Outcomes(ClientFaults) :
          /\ WriteFile(<<Client(p), job[p].j>>, job[p].mem.target, o)
          /\ Count(o)
          /\ IF o # "ok"
             THEN IF job[p].j = 1
                  THEN Continue(p, RollBackFrom(job[p], job[p].i - 1))
                  ELSE Goto(p, "undo")
             ELSE IF job[p].j < NFiles[Client(p)]
                  THEN Continue(p, [job[p] EXCEPT !.j = @ + 1])
                  ELSE Goto(p, "mark")
    /\ UNCHANGED <<current, manifests, recovery, crashes>>

(* Mutant: the adapter raises the first exception even when its undo fails. *)
UndoCommitUnreported(p) ==
    /\ At(p, "undo")
    /\ LET first == <<Client(p), 1>> IN
       \E o \in Outcomes(ClientFaults) :
          /\ WriteFile(first, job[p].mem.backup[first], o)
          /\ Count(o)
          /\ Continue(p, RollBackFrom(job[p], job[p].i - 1))
    /\ UNCHANGED <<current, manifests, recovery, crashes>>

(* The adapter restores config.toml; if that fails too it raises           *)
(* RecoveryRequiredError and the client is one to flag.                    *)
UndoCommit(p) ==
    /\ At(p, "undo")
    /\ LET first == <<Client(p), 1>> IN
       \E o \in Outcomes(ClientFaults) :
          /\ WriteFile(first, job[p].mem.backup[first], o)
          /\ Count(o)
          /\ Continue(p, RollBackFrom(
                            IF o = "ok" THEN job[p]
                            ELSE [job[p] EXCEPT !.failed = {Client(p)}],
                            job[p].i - 1))
    /\ UNCHANGED <<current, manifests, recovery, crashes>>

(* Mutant: the change joins `committed` only after its manifest update.    *)
MarkCommittedLate(p) ==
    /\ At(p, "mark")
    /\ \E o \in Outcomes(StoreFaults) :
          StoreThen(p, UpdateClientState(job[p].mem, Client(p), "MODIFIED", "COMMITTING"), o,
                    IF job[p].i < Len(job[p].mem.clients)
                    THEN [job[p] EXCEPT !.at = "commit", !.i = @ + 1, !.j = 1]
                    ELSE [job[p] EXCEPT !.at = "finish", !.i = 0, !.j = 0],
                    Continue(p, RollBackFrom(job[p], job[p].i - 1)))
    /\ UNCHANGED <<disk, current, recovery, crashes>>

MarkCommitted(p) ==
    /\ At(p, "mark")
    /\ \E o \in Outcomes(StoreFaults) :
          StoreThen(p, UpdateClientState(job[p].mem, Client(p), "MODIFIED", "COMMITTING"), o,
                    IF job[p].i < Len(job[p].mem.clients)
                    THEN [job[p] EXCEPT !.at = "commit", !.i = @ + 1, !.j = 1]
                    ELSE [job[p] EXCEPT !.at = "finish", !.i = 0, !.j = 0],
                    Continue(p, RollBackFrom(job[p], job[p].i)))
    /\ UNCHANGED <<disk, current, recovery, crashes>>

(* Mutant: the COMMITTED manifest is written inside the try.               *)
FinishCommitInside(p) ==
    /\ At(p, "finish")
    /\ \E o \in Outcomes(StoreFaults) :
          StoreThen(p, SetOperationState(job[p].mem, "COMMITTED"), o,
                    [job[p] EXCEPT !.at = "save"],
                    Continue(p, RollBackFrom(job[p], Len(job[p].mem.clients))))
    /\ UNCHANGED <<disk, current, recovery, crashes>>

(* The COMMITTED manifest is written outside the try: no compensation.     *)
FinishCommit(p) ==
    /\ At(p, "finish")
    /\ \E o \in Outcomes(StoreFaults) :
          StoreThen(p, SetOperationState(job[p].mem, "COMMITTED"), o,
                    [job[p] EXCEPT !.at = "save"], Exit(p))
    /\ UNCHANGED <<disk, current, recovery, crashes>>

(* Mutant: a failing registry write leaves the clients switched.           *)
SaveRegistryOnly(p) ==
    /\ At(p, "save")
    /\ \E o \in Outcomes(RegistryFaults) :
          /\ current' = IF Takes(o)
                        THEN [c \in Clients |-> IF c \in ClientSet(job[p].mem)
                                                THEN job[p].mem.target ELSE current[c]]
                        ELSE current
          /\ Count(o)
          /\ Exit(p)
    /\ UNCHANGED <<disk, manifests, recovery, crashes>>

(* providers.json records the new Provider.  If the write fails the        *)
(* clients are rolled back, starting from the manifest create returned.    *)
SaveRegistry(p) ==
    /\ At(p, "save")
    /\ LET m == job[p].mem
           created == NewManifest(m.clients, m.target, m.backup) IN
       \E o \in Outcomes(RegistryFaults) :
          /\ current' = IF Takes(o)
                        THEN [c \in Clients |->
                                IF c \in ClientSet(m) THEN m.target ELSE current[c]]
                        ELSE current
          /\ Count(o)
          /\ IF o = "ok" THEN Exit(p)
             ELSE Continue(p, RollBackFrom([job[p] EXCEPT !.mem = created, !.saving = TRUE],
                                           Len(m.clients)))
    /\ UNCHANGED <<disk, manifests, recovery, crashes>>

-----------------------------------------------------------------------------
(* Rolling back, in commit_all and in _save_registry_after_switch.         *)

(* What happens when rolling back a client fails.                          *)
RollBackFailed(p) ==
    IF job[p].saving THEN Goto(p, "flagClient")
    ELSE Continue(p, RollBackFrom([job[p] EXCEPT !.failed = @ \cup {Client(p)}],
                                  job[p].i - 1))

RollBackFile(p) ==
    /\ At(p, "rollback")
    /\ LET f == <<Client(p), job[p].j>> IN
       \E o \in Outcomes(ClientFaults) :
          /\ WriteFile(f, job[p].mem.backup[f], o)
          /\ Count(o)
          /\ IF o # "ok" THEN RollBackFailed(p)
             ELSE IF job[p].j < NFiles[Client(p)]
                  THEN Continue(p, [job[p] EXCEPT !.j = @ + 1])
                  ELSE Goto(p, "markBack")
    /\ UNCHANGED <<current, manifests, recovery, crashes>>

MarkRolledBack(p) ==
    /\ At(p, "markBack")
    /\ \E o \in Outcomes(StoreFaults) :
          StoreThen(p, UpdateClientState(job[p].mem, Client(p), "ROLLED_BACK", "ROLLING_BACK"), o,
                    RollBackFrom(job[p], job[p].i - 1), RollBackFailed(p))
    /\ UNCHANGED <<disk, current, recovery, crashes>>

(* Mutant: the failed client is flagged and then forgotten.                *)
FlagClientForgotten(p) ==
    /\ At(p, "flagClient")
    /\ \E o \in Outcomes(StoreFaults) :
          StoreThen(p, UpdateClientState(job[p].mem, Client(p),
                                         "RECOVERY_REQUIRED", "RECOVERY_REQUIRED"), o,
                    RollBackFrom(job[p], job[p].i - 1), Exit(p))
    /\ UNCHANGED <<disk, current, recovery, crashes>>

(* _save_registry_after_switch flags a client as soon as it fails.         *)
FlagClient(p) ==
    /\ At(p, "flagClient")
    /\ \E o \in Outcomes(StoreFaults) :
          StoreThen(p, UpdateClientState(job[p].mem, Client(p),
                                         "RECOVERY_REQUIRED", "RECOVERY_REQUIRED"), o,
                    RollBackFrom([job[p] EXCEPT !.failed = @ \cup {Client(p)}],
                                 job[p].i - 1),
                    Exit(p))
    /\ UNCHANGED <<disk, current, recovery, crashes>>

(* commit_all flags the failed clients at the end, in any order.           *)
FlagFailed(p) ==
    /\ At(p, "flagFailed")
    /\ \E c \in job[p].failed, o \in Outcomes(StoreFaults) :
          StoreThen(p, UpdateClientState(job[p].mem, c,
                                         "RECOVERY_REQUIRED", "RECOVERY_REQUIRED"), o,
                    [job[p] EXCEPT !.failed = @ \ {c},
                                   !.at = IF job[p].failed = {c} THEN "report" ELSE @],
                    Exit(p))
    /\ UNCHANGED <<disk, current, recovery, crashes>>

(* write_recovery: recovery.json names the operation.                      *)
ReportRecovery(p) ==
    /\ At(p, "report")
    /\ \E o \in Outcomes(StoreFaults) :
          /\ recovery' = IF Takes(o) THEN job[p].op ELSE recovery
          /\ Count(o)
          /\ Exit(p)
    /\ UNCHANGED <<disk, current, manifests, crashes>>

(* Every client was restored: the operation becomes ROLLED_BACK.           *)
SettleRollBack(p) ==
    /\ At(p, "settle")
    /\ \E o \in Outcomes(StoreFaults) :
          /\ WriteManifest(job[p].op, SetOperationState(job[p].mem, "ROLLED_BACK"), o)
          /\ Count(o)
          /\ Exit(p)
    /\ UNCHANGED <<disk, current, recovery, crashes>>

-----------------------------------------------------------------------------
(* SnapshotStore.recover.                                                  *)

(* A client still runs: recover refuses, after any require_recovery above. *)
RefuseRecover(p) ==
    /\ At(p, "check")
    /\ Exit(p)
    /\ UNCHANGED <<disk, current, manifests, recovery, faults, crashes>>

AcceptRecover(p) ==
    /\ At(p, "check")
    /\ LET m == job[p].mem
           files == {f \in Listed(m) : Recoverable(m, f)} IN
       Continue(p, [job[p] EXCEPT !.todo = files,
                                  !.at = IF files = {} THEN "settleFiles" ELSE "restore"])
    /\ UNCHANGED <<disk, current, manifests, recovery, faults, crashes>>

(* f comes last among files in the order the manifest lists them.          *)
ListedLast(m, files, f) ==
    /\ f \in files
    /\ \A g \in files : \E i, k \in 1 .. Len(m.clients) :
          /\ m.clients[i] = g[1]
          /\ m.clients[k] = f[1]
          /\ i < k \/ (i = k /\ g[2] <= f[2])

RestoreFile(p) ==
    /\ At(p, "restore")
    /\ \E f \in job[p].todo, o \in Outcomes(ClientFaults) :
          /\ ListedLast(job[p].mem, job[p].todo, f)
          /\ WriteFile(f, job[p].mem.backup[f], o)
          /\ Count(o)
          /\ IF o # "ok" THEN Exit(p)
             ELSE Continue(p, [job[p] EXCEPT
                                 !.todo = @ \ {f},
                                 !.at = IF job[p].todo = {f} THEN "settleFiles" ELSE @])
    /\ UNCHANGED <<current, manifests, recovery, crashes>>

SettleFiles(p) ==
    /\ At(p, "settleFiles")
    /\ \E o \in Outcomes(StoreFaults) :
          StoreThen(p, UpdateAllFileStates(job[p].mem, "ROLLED_BACK"), o,
                    [job[p] EXCEPT !.at = "settleOperation"], Exit(p))
    /\ UNCHANGED <<disk, current, recovery, crashes>>

SettleOperation(p) ==
    /\ At(p, "settleOperation")
    /\ \E o \in Outcomes(StoreFaults) :
          StoreThen(p, SetOperationState(job[p].mem, "ROLLED_BACK"), o,
                    [job[p] EXCEPT !.at = "clear"], Exit(p))
    /\ UNCHANGED <<disk, current, recovery, crashes>>

(* Mutant: recovery.json stays behind.                                     *)
ClearRecordNever(p) ==
    /\ At(p, "clear")
    /\ Exit(p)
    /\ UNCHANGED <<disk, current, manifests, recovery, faults, crashes>>

ClearRecord(p) ==
    /\ At(p, "clear")
    /\ recovery' = NoRecord
    /\ Exit(p)
    /\ UNCHANGED <<disk, current, manifests, faults, crashes>>

-----------------------------------------------------------------------------
(* Recovery is owed: there is a record, or an operation to make one of.    *)
Owed == recovery # NoRecord \/ Incomplete(manifests) # {}

(* The process dies; the operating system releases its flock.              *)
Crash(p) ==
    /\ crashes < MaxCrashes
    /\ job[p].at # "idle"
    /\ Exit(p)
    /\ crashes' = crashes + 1
    /\ UNCHANGED <<disk, current, manifests, recovery, faults>>

RequireRecovery(p) == FlagFiles(p) \/ FlagOperation(p) \/ FlagRecord(p)

Commit(p) ==
    \/ CreateManifest(p) \/ BeginCommit(p) \/ CommitFile(p) \/ UndoCommit(p)
    \/ MarkCommitted(p) \/ FinishCommit(p) \/ SaveRegistry(p)

RollBack(p) ==
    \/ RollBackFile(p) \/ MarkRolledBack(p) \/ FlagClient(p) \/ FlagFailed(p)
    \/ ReportRecovery(p) \/ SettleRollBack(p)

Restore(p) ==
    RestoreFile(p) \/ SettleFiles(p) \/ SettleOperation(p) \/ ClearRecord(p)

Gate(p) == GateRecorded(p) \/ GateIncomplete(p) \/ GateClear(p)

Step(p) ==
    \/ Gate(p) \/ RequireRecovery(p)
    \/ Refuse(p) \/ Prepare(p) \/ Commit(p) \/ RollBack(p)
    \/ RefuseRecover(p) \/ AcceptRecover(p) \/ Restore(p)

Next == \E p \in Procs : StartSwitch(p) \/ StartRecover(p) \/ Step(p) \/ Crash(p)

Spec == Init /\ [][Next]_vars

(* Every process that holds the lock goes on; recover is run again and     *)
(* again while an operation is owed (a user who is told that recovery is   *)
(* required), and one day it meets no running client.  Strong fairness:    *)
(* other commands may hold the lock, or the client may run, in between.    *)
Fairness ==
    \A p \in Procs :
        /\ WF_vars(Step(p))
        /\ SF_vars(Owed /\ StartRecover(p))
        /\ SF_vars(AcceptRecover(p))

FairSpec == Spec /\ Fairness

-----------------------------------------------------------------------------
(* Properties.                                                             *)

(* The type of every variable.                                             *)
TypeOK ==
    /\ disk \in Images
    /\ current \in [Clients -> Contents]
    /\ manifests \in Seq(Manifest)
    /\ recovery \in 0 .. Len(manifests)
    /\ lock \in Procs \cup {NoProc}
    /\ job \in [Procs -> Jobs]
    /\ faults \in Nat
    /\ crashes \in Nat

(* The operation lock (locking.py): two processes are never inside a       *)
(* locked command at once.                                                 *)
MutualExclusion ==
    \A p, q \in Procs : job[p].at # "idle" /\ job[q].at # "idle" => p = q

(* The gate keeps operations from piling up: only the newest operation can *)
(* be unfinished, so latest_incomplete never has a choice to make and no   *)
(* unfinished operation hides behind a later one.                          *)
OnlyNewestIncomplete == Incomplete(manifests) \subseteq {Len(manifests)}

(* No operation starts while an earlier one is still to be recovered       *)
(* (cli.py, _locked): a new manifest appears only when none is owed.       *)
NoStartWhileOwed == [][Len(manifests') > Len(manifests) => ~Owed]_vars

(* A client's files agree: they hold one Provider's configuration.         *)
Torn(c) == \E f, g \in FilesOf(c) : disk[f] # disk[g]

(* Whenever no command runs, a client whose files disagree is one that     *)
(* recovery will still repair: the code never leaves a half-written client *)
(* and reports that all is well.                                           *)
TornIsOwed == lock = NoProc /\ (\E c \in Clients : Torn(c)) => Owed

(* The durable state of an operation tells the truth at the moment it      *)
(* becomes final: COMMITTED is written only when every listed file holds   *)
(* the target, ROLLED_BACK (by compensation or by recover) only when every *)
(* listed file holds its backup.                                           *)
FinalStateIsTrue ==
    [][\A op \in 1 .. Len(manifests) :
         LET m == manifests'[op] IN
         ~Finalized(manifests[op]) /\ Finalized(m) =>
            \A f \in Listed(m) :
                disk'[f] = IF m.state = "COMMITTED" THEN m.target ELSE m.backup[f]]_vars

(* recover restores only files marked MODIFIED or RECOVERY_REQUIRED.  Once *)
(* recovery.json stands and no command runs, each file it would skip holds *)
(* its backup already: recovery never skips a file it ought to restore.    *)
RecoverSkipsNothing ==
    lock = NoProc /\ recovery # NoRecord =>
        \A f \in Listed(manifests[recovery]) :
            Recoverable(manifests[recovery], f) \/ disk[f] = manifests[recovery].backup[f]

(* With no command running and nothing owed, the registry names, for each  *)
(* client, the Provider its files hold ("the last successfully committed   *)
(* logical Provider", registry.py).                                        *)
RegistryAgrees ==
    lock = NoProc /\ ~Owed => \A f \in Files : disk[f] = current[f[1]]

(* An operation that was left unfinished is recovered in the end.          *)
RecoveryCompletes == Owed ~> ~Owed
-----------------------------------------------------------------------------
(* The abstract switch.                                                    *)

(* The operation in progress or owed, as the atomic switch sees it: the    *)
(* clients it names still show the configuration they had before it.       *)
OpenClients ==
    {c \in Clients : \E op \in Incomplete(manifests) : c \in ClientSet(manifests[op])}

VisibleConfig ==
    [c \in Clients |->
        IF c \in OpenClients THEN manifests[Len(manifests)].backup[<<c, 1>>]
                             ELSE disk[<<c, 1>>]]

LatestTarget ==
    IF manifests = <<>> THEN CHOOSE x \in Contents : TRUE
                        ELSE manifests[Len(manifests)].target

Atomic == INSTANCE AtomicSwitch WITH
            config <- VisibleConfig, open <- OpenClients, target <- LatestTarget

(* The transaction implements the atomic switch: seen through recovery, a  *)
(* switch takes effect at the write of its COMMITTED manifest or never.    *)
SwitchIsAtomic == Atomic!Spec
=============================================================================
