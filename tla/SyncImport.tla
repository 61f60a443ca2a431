------------------------------ MODULE SyncImport ------------------------------
(***************************************************************************)
(* Applying a synchronisation archive: apply_import (src/codelux/sync.py)  *)
(* over the transaction store `sync-transactions` (snapshots.py), as       *)
(* `sync import`, `sync pull` and the receiving end of `sync push` run it, *)
(* with the commands that forget baselines and the recovery of an import   *)
(* that was interrupted.                                                   *)
(*                                                                         *)
(* Every one of these commands holds the operation lock from its first     *)
(* read to its last write (ProviderTransaction, MutualExclusion), so one   *)
(* command runs at a time.  Users and clients change the files in between. *)
(* A step is one durable write: it may fail, and the process may die       *)
(* before the next.                                                        *)
(***************************************************************************)
EXTENDS Integers, Sequences

CONSTANTS
    NPaths,         \* files an archive may hold, numbered in archive order
    Database,       \* those that are a SQLite database (codex/state_5.sqlite)
    Merged,         \* those whose new content is merged from archive and target
    Scope,          \* Scope[p]: the overwrite permission path p falls under
    Approvals,      \* the sets of scopes a user may give permission for
    Sources,        \* whom archives come from: machine and selection
    Values,         \* the contents a file may have
    Absent,         \* no such file; no such entry in an archive or baseline
    TargetFaults,   \* how a write of a target may fail
    StoreFaults,    \* how a write of a manifest or recovery.json may fail
    CommitFaults,   \* how the write of the COMMITTED manifest may fail
    RemovalFaults,  \* how the removal of a transaction directory may fail
    MaxImports,     \* bound: transaction directories created
    MaxEdits,       \* bound: changes by users and clients, baseline resets
    MaxFailures     \* bound: failed writes and killed processes

Paths == 1 .. NPaths

(* The last file of every transaction: sync-state.json, the baselines.     *)
StateItem == NPaths + 1

Items == 1 .. StateItem

Faults == {"early", "late"}     \* before or after the write takes effect

NoRecord == 0                   \* recovery.json is absent

ASSUME PathsAssumption ==
    /\ NPaths \in Nat \ {0}
    /\ Database \subseteq Paths
    /\ Merged \subseteq Paths
    /\ DOMAIN Scope = Paths
    /\ Absent \notin Values

ASSUME FaultsAssumption ==
    TargetFaults \subseteq Faults /\ StoreFaults \subseteq Faults
        /\ CommitFaults \subseteq Faults /\ RemovalFaults \subseteq Faults

ASSUME BoundsAssumption ==
    MaxImports \in Nat /\ MaxEdits \in Nat /\ MaxFailures \in Nat

VARIABLES
    disk,       \* disk[i]: the file of item i; for StateItem, the baselines
    journal,    \* journal[p]: the content a write-ahead log gives database p
    store,      \* the transaction directories, in order of creation
    recovery,   \* the operation recovery.json names, or NoRecord
    job,        \* the command that runs
    edits, failures     \* used up so far

vars == <<disk, journal, store, recovery, job, edits, failures>>

Contents == Values \cup {Absent}

(* What an archive holds; what a baseline remembers of one.                *)
Archives == [Paths -> Contents]

Nothing == [p \in Paths |-> Absent]

Disks == {d \in [Items -> Contents \cup [Sources -> Archives]] :
             /\ \A p \in Paths : d[p] \in Contents
             /\ d[StateItem] \in [Sources -> Archives]}

NoBackup == [i \in Items |-> IF i = StateItem THEN [s \in Sources |-> Nothing] ELSE Absent]

OperationStates ==
    {"PREPARED", "COMMITTING", "COMMITTED", "ROLLED_BACK", "RECOVERY_REQUIRED"}

FileStates == {"UNLISTED", "STAGED", "MODIFIED", "ROLLED_BACK", "RECOVERY_REQUIRED"}

(* A transaction directory.  remains: its manifest can be read, the backups*)
(* are left without a manifest, or all of it is gone.                      *)
Transactions ==
    [source   : Sources,
     incoming : Archives,
     before   : Disks,
     files    : [Items -> FileStates],
     state    : OperationStates,
     remains  : {"manifest", "backups", "none"}]

Listed(m) == {i \in Items : m.files[i] # "UNLISTED"}

(* Mutant: the new baselines are those of this source alone.               *)
WrittenAlone(m, i) == IF i = StateItem THEN m.incoming ELSE m.incoming[i]

(* The content the transaction gives item i.  The baseline of the source   *)
(* becomes what this archive brought, and forgets what it did not mention. *)
Written(m, i) ==
    IF i = StateItem THEN [m.before[i] EXCEPT ![m.source] = m.incoming]
                     ELSE m.incoming[i]

UpdateFileState(m, i, state) == [m EXCEPT !.files[i] = state]

UpdateAllFileStates(m, state) ==
    [m EXCEPT !.files = [i \in Items |-> IF i \in Listed(m) THEN state ELSE @[i]]]

(* What is left of a transaction when its directory, or the manifest in    *)
(* it, is removed: the history of the import; nobody can read its backups. *)
LeftOf(m, remains) ==
    IF remains = "manifest" THEN m
    ELSE [m EXCEPT !.remains = remains,
                   !.before = NoBackup,
                   !.files = [i \in Items |-> "UNLISTED"]]

Finalized(m) == m.state \in {"COMMITTED", "ROLLED_BACK"}

(* latest_incomplete skips a directory whose manifest it cannot read.      *)
Incomplete ==
    {op \in 1 .. Len(store) : store[op].remains = "manifest" /\ ~Finalized(store[op])}

Owed == recovery # NoRecord \/ Incomplete # {}

(* The command that runs: its next step, the operation and its manifest as *)
(* the process knows it, the item in hand, the permissions the import      *)
(* makes use of, whether its compensation has failed, and what recover has *)
(* yet to restore.                                                         *)
Labels ==
    {"idle", "prune", "create", "begin", "intend", "write", "finish", "discard",
     "undo", "unmark", "settle", "flagFiles", "flagOperation", "flagRecord",
     "restore", "settleFiles", "settleOperation", "clear"}

IdleJob ==
    [at |-> "idle", op |-> 0, mem |-> Absent, item |-> 0, approved |-> {},
     failed |-> FALSE, todo |-> {}]

Idle == job.at = "idle"

Exit == job' = IdleJob

Goto(label) == job' = [job EXCEPT !.at = label]

(* The next step with manifest m in hand.                                  *)
With(m, label) == [job EXCEPT !.mem = m, !.at = label]

Init ==
    /\ \E files \in Archives :
          disk = [i \in Items |-> IF i = StateItem THEN [s \in Sources |-> Nothing]
                                                   ELSE files[i]]
    /\ journal = Nothing
    /\ store = <<>>
    /\ recovery = NoRecord
    /\ job = IdleJob
    /\ edits = 0 /\ failures = 0

-----------------------------------------------------------------------------
(* Writes.                                                                 *)

Outcomes(kinds) == {"ok"} \cup IF failures < MaxFailures THEN kinds ELSE {}

Takes(o) == o # "early"

Count(o) == failures' = IF o = "ok" THEN failures ELSE failures + 1

(* A SQLite database is replaced and then its journal is unlinked: when    *)
(* the replacement is reported failed, the journal is still there.         *)
WriteItem(i, content, o) ==
    /\ disk' = IF Takes(o) THEN [disk EXCEPT ![i] = content] ELSE disk
    /\ journal' = IF i \in Database /\ o = "ok" THEN [journal EXCEPT ![i] = Absent]
                                                ELSE journal

(* rmtree removes a directory, does not touch it, or stops with the        *)
(* manifest among the files already removed.                               *)
Remains(o) == CASE o = "ok" -> "none" [] o = "early" -> "manifest" [] o = "late" -> "backups"

(* The operation's manifest becomes m, or its write fails.                 *)
StoreThen(m, o, next, otherwise) ==
    /\ store' = IF Takes(o) THEN [store EXCEPT ![job.op] = m] ELSE store
    /\ job' = IF o = "ok" THEN next ELSE otherwise
    /\ Count(o)
    /\ UNCHANGED <<disk, journal, edits>>

-----------------------------------------------------------------------------
(* The preparation.                                                        *)

(* Mutant: a target without a baseline counts as unchanged.                *)
ConflictsIfKnown(source, archive) ==
    {p \in Paths \ Merged :
        /\ archive[p] # Absent
        /\ disk[StateItem][source][p] # Absent
        /\ disk[p] \notin {Absent, archive[p], disk[StateItem][source][p]}}

(* Conflicts: a target that exists and is neither what the archive brings  *)
(* nor what the last import from this source left.  Merged files settle    *)
(* their conflicts entry by entry.                                         *)
Conflicts(source, archive) ==
    {p \in Paths \ Merged :
        /\ archive[p] # Absent
        /\ disk[p] \notin {Absent, archive[p], disk[StateItem][source][p]}}

(* Mutant: the gate looks for unfinished operations only.                  *)
MayStartIfFinal == Incomplete = {}

(* _sync_locked: nothing is owed a recovery.                               *)
MayStart == recovery = NoRecord /\ Incomplete = {}

(* The archive is compared with the targets and every new content is       *)
(* computed before anything is written.  An import that changes nothing,   *)
(* or whose conflicts are not approved, ends here.  sync-state.json also   *)
(* names the transfer, so it may change although no baseline does.         *)
StartImport(source, archive, approved) ==
    /\ Idle
    /\ MayStart
    /\ Len(store) < MaxImports
    /\ archive # Nothing
    /\ \A p \in Conflicts(source, archive) : Scope[p] \in approved
    /\ \E incoming \in Archives, named \in SUBSET {StateItem} :
          /\ \A p \in Paths :
                IF p \in Merged /\ archive[p] # Absent THEN incoming[p] # Absent
                                                       ELSE incoming[p] = archive[p]
          /\ LET m == [source |-> source, incoming |-> incoming, before |-> disk,
                       files |-> [i \in Items |-> "UNLISTED"],
                       state |-> "PREPARED", remains |-> "manifest"]
                 changed == {i \in Items \ {p \in Paths : incoming[p] = Absent} :
                                disk[i] # Written(m, i)} \cup named IN
             /\ changed # {}
             /\ job' = [IdleJob EXCEPT
                          !.at = "prune",
                          !.approved = {Scope[p] : p \in Conflicts(source, archive)},
                          !.mem = [m EXCEPT !.files =
                                     [i \in Items |-> IF i \in changed THEN "STAGED"
                                                                       ELSE "UNLISTED"]]]
    /\ UNCHANGED <<disk, journal, store, recovery, edits, failures>>

(* prune_finalized removes what finished imports left behind; a directory  *)
(* it fails to remove is passed over, whole or with its manifest gone.     *)
Prune ==
    /\ job.at = "prune"
    /\ LET finished == {op \in 1 .. Len(store) :
                          store[op].remains = "manifest" /\ Finalized(store[op])} IN
       \E o \in Outcomes(RemovalFaults), stuck \in finished \cup {0} :
          /\ o = "ok" <=> stuck = 0
          /\ store' = [op \in 1 .. Len(store) |->
                         IF op \notin finished THEN store[op]
                         ELSE LeftOf(store[op], IF op # stuck THEN "none"
                                                ELSE Remains(o))]
          /\ Count(o)
    /\ Goto("create")
    /\ UNCHANGED <<disk, journal, recovery, edits>>

(* The backups, then the manifest: without it, nobody will find them.      *)
CreateManifest ==
    /\ job.at = "create"
    /\ \E o \in Outcomes(StoreFaults) :
          /\ store' = Append(store, LeftOf(job.mem, IF Takes(o) THEN "manifest" ELSE "backups"))
          /\ Count(o)
          /\ IF o = "ok" THEN job' = [job EXCEPT !.at = "begin", !.op = Len(store) + 1]
                         ELSE Exit
    /\ UNCHANGED <<disk, journal, recovery, edits>>

-----------------------------------------------------------------------------
(* The commit.  From here on every failure is compensated.                 *)

(* Mutant: the baselines are saved apart from the transaction.             *)
AdvanceOverBaselines(j, i) ==
    LET rest == {k \in Listed(j.mem) \ {StateItem} : k > i} IN
    IF rest = {} THEN [j EXCEPT !.at = "finish", !.item = StateItem]
    ELSE [j EXCEPT !.at = "intend",
                   !.item = CHOOSE k \in rest : \A l \in rest : k <= l]

(* The first listed item after i is next.                                  *)
Advance(j, i) ==
    LET rest == {k \in Listed(j.mem) : k > i} IN
    IF rest = {} THEN [j EXCEPT !.at = "finish"]
    ELSE [j EXCEPT !.at = "intend",
                   !.item = CHOOSE k \in rest : \A l \in rest : k <= l]

(* The last item before i that may have been modified is next.             *)
Retreat(j, i) ==
    LET rest == {k \in Listed(j.mem) : k < i} IN
    IF rest = {} THEN [j EXCEPT !.at = IF j.failed THEN "flagFiles" ELSE "unmark"]
    ELSE [j EXCEPT !.at = "undo",
                   !.item = CHOOSE k \in rest : \A l \in rest : k >= l]

BeginCommit ==
    /\ job.at = "begin"
    /\ LET m == [job.mem EXCEPT !.state = "COMMITTING"] IN
       \E o \in Outcomes(StoreFaults) :
          StoreThen(m, o, Advance(With(m, "intend"), 0), [job EXCEPT !.at = "unmark"])
    /\ UNCHANGED recovery

(* The recovery intent is on disk before the target is touched.            *)
Intend ==
    /\ job.at = "intend"
    /\ LET m == UpdateFileState(job.mem, job.item, "MODIFIED") IN
       \E o \in Outcomes(StoreFaults) :
          StoreThen(m, o, With(m, "write"), [job EXCEPT !.at = "undo"])
    /\ UNCHANGED recovery

(* Mutant: an item whose write failed is not among the modified ones.      *)
WriteTargetUncounted ==
    /\ job.at = "write"
    /\ \E o \in Outcomes(TargetFaults) :
          /\ WriteItem(job.item, Written(job.mem, job.item), o)
          /\ Count(o)
          /\ job' = IF o = "ok" THEN Advance(job, job.item) ELSE Retreat(job, job.item)
    /\ UNCHANGED <<store, recovery, edits>>

WriteTarget ==
    /\ job.at = "write"
    /\ \E o \in Outcomes(TargetFaults) :
          /\ WriteItem(job.item, Written(job.mem, job.item), o)
          /\ Count(o)
          /\ job' = IF o = "ok" THEN Advance(job, job.item) ELSE [job EXCEPT !.at = "undo"]
    /\ UNCHANGED <<store, recovery, edits>>

(* The COMMITTED manifest is written inside the try.                       *)
FinishCommit ==
    /\ job.at = "finish"
    /\ LET m == [job.mem EXCEPT !.state = "COMMITTED"] IN
       \E o \in Outcomes(CommitFaults) :
          StoreThen(m, o, With(m, "discard"), [job EXCEPT !.at = "undo"])
    /\ UNCHANGED recovery

(* A transaction that cannot be discarded is left to a later prune.        *)
Discard ==
    /\ job.at = "discard"
    /\ \E o \in Outcomes(RemovalFaults) :
          /\ store' = [store EXCEPT ![job.op] = LeftOf(job.mem, Remains(o))]
          /\ Count(o)
    /\ Exit
    /\ UNCHANGED <<disk, journal, recovery, edits>>

-----------------------------------------------------------------------------
(* The compensation: every item that may have been modified, last first.   *)

(* Mutant: the baselines are not part of what is restored.                 *)
UndoTargetOnly ==
    /\ job.at = "undo"
    /\ LET i == job.item IN
       \E o \in Outcomes(TargetFaults) :
          /\ job.mem.before[i] = Absent => o # "late"
          /\ IF i = StateItem THEN UNCHANGED <<disk, journal>>
                              ELSE WriteItem(i, job.mem.before[i], o)
          /\ Count(o)
          /\ job' = Retreat([job EXCEPT !.failed = @ \/ o # "ok"], i)
    /\ UNCHANGED <<store, recovery, edits>>

(* An unlink has no late failure.  A failure is remembered and the         *)
(* compensation goes on.                                                   *)
Undo ==
    /\ job.at = "undo"
    /\ LET i == job.item IN
       \E o \in Outcomes(TargetFaults) :
          /\ job.mem.before[i] = Absent => o # "late"
          /\ WriteItem(i, job.mem.before[i], o)
          /\ Count(o)
          /\ job' = Retreat([job EXCEPT !.failed = @ \/ o # "ok"], i)
    /\ UNCHANGED <<store, recovery, edits>>

Unmark ==
    /\ job.at = "unmark"
    /\ LET m == UpdateAllFileStates(job.mem, "ROLLED_BACK") IN
       \E o \in Outcomes(StoreFaults) : StoreThen(m, o, With(m, "settle"), IdleJob)
    /\ UNCHANGED recovery

Settle ==
    /\ job.at = "settle"
    /\ \E o \in Outcomes(StoreFaults) :
          StoreThen([job.mem EXCEPT !.state = "ROLLED_BACK"], o, IdleJob, IdleJob)
    /\ UNCHANGED recovery

-----------------------------------------------------------------------------
(* Recovery.  The gate of every command turns an unfinished operation into *)
(* a recorded one and ends; `recover` would go on, which is the same as    *)
(* running it once more.                                                   *)
GateIncomplete ==
    /\ Idle
    /\ recovery = NoRecord
    /\ \E op \in Incomplete :
          /\ \A other \in Incomplete : other <= op
          /\ job' = [IdleJob EXCEPT !.at = "flagFiles", !.op = op, !.mem = store[op]]
    /\ UNCHANGED <<disk, journal, store, recovery, edits, failures>>

FlagFiles ==
    /\ job.at = "flagFiles"
    /\ LET m == UpdateAllFileStates(job.mem, "RECOVERY_REQUIRED") IN
       \E o \in Outcomes(StoreFaults) : StoreThen(m, o, With(m, "flagOperation"), IdleJob)
    /\ UNCHANGED recovery

FlagOperation ==
    /\ job.at = "flagOperation"
    /\ LET m == [job.mem EXCEPT !.state = "RECOVERY_REQUIRED"] IN
       \E o \in Outcomes(StoreFaults) : StoreThen(m, o, With(m, "flagRecord"), IdleJob)
    /\ UNCHANGED recovery

FlagRecord ==
    /\ job.at = "flagRecord"
    /\ \E o \in Outcomes(StoreFaults) :
          /\ recovery' = IF Takes(o) THEN job.op ELSE recovery
          /\ Count(o)
    /\ Exit
    /\ UNCHANGED <<disk, journal, store, edits>>

(* SnapshotStore.recover: the manifest must be readable.                   *)
StartRecover ==
    /\ Idle
    /\ recovery # NoRecord
    /\ LET m == store[recovery]
           todo == {i \in Listed(m) : m.files[i] \in {"MODIFIED", "RECOVERY_REQUIRED"}} IN
       /\ m.remains = "manifest"
       /\ job' = [IdleJob EXCEPT !.at = IF todo = {} THEN "settleFiles" ELSE "restore",
                                 !.op = recovery, !.mem = m, !.todo = todo]
    /\ UNCHANGED <<disk, journal, store, recovery, edits, failures>>

(* Last listed first.  A database's journal is not looked at.              *)
Restore ==
    /\ job.at = "restore"
    /\ \E i \in job.todo, o \in Outcomes(TargetFaults) :
          /\ \A k \in job.todo : k <= i
          /\ job.mem.before[i] = Absent => o # "late"
          /\ disk' = IF Takes(o) THEN [disk EXCEPT ![i] = job.mem.before[i]] ELSE disk
          /\ Count(o)
          /\ IF o # "ok" THEN Exit
             ELSE job' = [job EXCEPT !.todo = @ \ {i},
                                     !.at = IF job.todo = {i} THEN "settleFiles" ELSE @]
    /\ UNCHANGED <<journal, store, recovery, edits>>

SettleFiles ==
    /\ job.at = "settleFiles"
    /\ LET m == UpdateAllFileStates(job.mem, "ROLLED_BACK") IN
       \E o \in Outcomes(StoreFaults) : StoreThen(m, o, With(m, "settleOperation"), IdleJob)
    /\ UNCHANGED recovery

SettleOperation ==
    /\ job.at = "settleOperation"
    /\ LET m == [job.mem EXCEPT !.state = "ROLLED_BACK"] IN
       \E o \in Outcomes(StoreFaults) : StoreThen(m, o, With(m, "clear"), IdleJob)
    /\ UNCHANGED recovery

ClearRecord ==
    /\ job.at = "clear"
    /\ recovery' = NoRecord
    /\ Exit
    /\ UNCHANGED <<disk, journal, store, edits, failures>>

-----------------------------------------------------------------------------
(* Between commands.  While a recovery is owed the user is assumed to      *)
(* leave the files alone: recover puts the old content over any change.    *)

(* A change after the last import of the bound would not be seen again.    *)
Untouched == Idle /\ ~Owed /\ edits < MaxEdits /\ Len(store) < MaxImports

(* A user or a client writes or removes a file.  A client that ends in     *)
(* good order leaves its database without a journal...                     *)
EditFile(p, content) ==
    /\ Untouched
    /\ disk[p] # content
    /\ disk' = [disk EXCEPT ![p] = content]
    /\ journal' = IF p \in Database THEN [journal EXCEPT ![p] = Absent] ELSE journal
    /\ edits' = edits + 1
    /\ UNCHANGED <<store, recovery, job, failures>>

(* ...and one that is killed leaves its last changes in the journal.       *)
EditJournal(p, content) ==
    /\ Untouched
    /\ disk[p] # Absent /\ disk[p] # content
    /\ journal' = [journal EXCEPT ![p] = content]
    /\ edits' = edits + 1
    /\ UNCHANGED <<disk, store, recovery, job, failures>>

(* `sync reset` forgets the baselines of one machine, `sync machine-id     *)
(* rotate` all of them.                                                    *)
ForgetBaselines(forgotten) ==
    /\ Untouched
    /\ disk' = [disk EXCEPT ![StateItem] =
                  [s \in Sources |-> IF s \in forgotten THEN Nothing ELSE @[s]]]
    /\ disk' # disk
    /\ edits' = edits + 1
    /\ UNCHANGED <<journal, store, recovery, job, failures>>

Crash ==
    /\ ~Idle
    /\ failures < MaxFailures
    /\ failures' = failures + 1
    /\ Exit
    /\ UNCHANGED <<disk, journal, store, recovery, edits>>

Environment ==
    \/ \E p \in Paths, content \in Contents : EditFile(p, content)
    \/ \E p \in Database, content \in Values : EditJournal(p, content)
    \/ \E forgotten \in SUBSET Sources : ForgetBaselines(forgotten)

Import ==
    \/ \E source \in Sources, archive \in Archives, approved \in Approvals :
          StartImport(source, archive, approved)
    \/ Prune \/ CreateManifest \/ BeginCommit \/ Intend \/ WriteTarget
    \/ FinishCommit \/ Discard \/ Undo \/ Unmark \/ Settle

Recover ==
    \/ GateIncomplete \/ FlagFiles \/ FlagOperation \/ FlagRecord
    \/ StartRecover \/ Restore \/ SettleFiles \/ SettleOperation \/ ClearRecord

Next == Import \/ Recover \/ Environment \/ Crash

Spec == Init /\ [][Next]_vars

-----------------------------------------------------------------------------
(* Properties.                                                             *)

(* The type of every variable.                                             *)
TypeOK ==
    /\ disk \in Disks
    /\ journal \in Archives
    /\ \A op \in 1 .. Len(store) :
          /\ store[op].source \in Sources
          /\ store[op].incoming \in Archives
          /\ store[op].before \in Disks
          /\ store[op].files \in [Items -> FileStates]
          /\ store[op].state \in OperationStates
          /\ store[op].remains \in {"manifest", "backups", "none"}
    /\ recovery \in 0 .. Len(store)
    /\ job.at \in Labels
    /\ job.op \in 0 .. Len(store)
    /\ job.item \in 0 .. StateItem
    /\ job.todo \subseteq Items

(* What the last committed import from source s brought.                   *)
LastImport(s) ==
    LET committed == {op \in 1 .. Len(store) :
                        store[op].source = s /\ store[op].state = "COMMITTED"} IN
    IF committed = {} THEN Nothing
    ELSE store[CHOOSE op \in committed : \A k \in committed : k <= op].incoming

(* With no command running and nothing owed, the baseline of a source is   *)
(* what its last committed import brought, or was forgotten on purpose:    *)
(* never that of an import that failed, was rolled back or was recovered.  *)
BaselineTruthful ==
    Idle /\ ~Owed =>
        \A s \in Sources : disk[StateItem][s] \in {Nothing, LastImport(s)}

(* The content of a file as its client sees it.                            *)
Effective(p) == IF journal[p] # Absent THEN journal[p] ELSE disk[p]

(* An import may replace a content that came from the same source, or that *)
(* it was given permission to overwrite.                                   *)
MayReplace(p, content) ==
    \/ content \in {Absent, job.mem.incoming[p], LastImport(job.mem.source)[p]}
    \/ Scope[p] \in job.approved
    \/ p \in Merged

(* An import about to write a file never overwrites a local change without *)
(* permission ("Explicit conflict handling", README): what is there is     *)
(* what the last committed import from this source left, whatever failed,  *)
(* crashed or was imported from elsewhere in between.                      *)
NoSilentOverwrite ==
    job.at = "write" /\ job.item \in Paths => MayReplace(job.item, disk[job.item])

(* The same of the data as its client sees it, journal included.           *)
NoSilentLoss ==
    job.at = "write" /\ job.item \in Paths => MayReplace(job.item, Effective(job.item))

(* recovery.json names an operation whose backups are still there: the     *)
(* pruning of finished imports never takes what recover will ask for.      *)
RecordHasPayload == recovery # NoRecord => store[recovery].remains = "manifest"

(* An operation becomes COMMITTED only when every file it lists has its    *)
(* new content, ROLLED_BACK only when every one has its old one.           *)
FinalStateIsTrue ==
    [][\A op \in 1 .. Len(store) :
         LET m == store'[op] IN
         ~Finalized(store[op]) /\ Finalized(m) =>
            \A i \in Listed(m) :
                disk'[i] = IF m.state = "COMMITTED" THEN Written(m, i) ELSE m.before[i]]_vars
-----------------------------------------------------------------------------
(* The abstract import.                                                    *)

(* The files as they are seen through recovery: an operation that is not   *)
(* final will be taken back, one that is final stands.                     *)
Visible ==
    [i \in Items |->
        IF \E op \in Incomplete : i \in Listed(store[op])
        THEN store[CHOOSE op \in Incomplete : i \in Listed(store[op])].before[i]
        ELSE disk[i]]

Atomic == INSTANCE AtomicImport WITH
            target <- [p \in Paths |-> Visible[p]],
            baseline <- Visible[StateItem],
            busy <- Incomplete # {}

(* An import takes effect, files and baseline together, at the write of    *)
(* its COMMITTED manifest or never.                                        *)
ImportIsAtomic == Atomic!Spec
==============================================================================
