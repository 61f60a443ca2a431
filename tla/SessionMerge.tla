----------------------------- MODULE SessionMerge -----------------------------
(***************************************************************************)
(* `codelux sessions merge` (src/codelux/sessions.py, cli.py): every       *)
(* thread of the Codex history is given the shared Provider id.  A thread  *)
(* is named twice, by the session_meta line of its .jsonl file and by its  *)
(* row of the database state_5.sqlite, and both are rewritten by one       *)
(* transaction over `sync-transactions`, the store of SyncImport, whose    *)
(* pruning, discarding and recovery it shares.                             *)
(*                                                                         *)
(* SQLite is modelled from the use sessions.py makes of it.  A database in *)
(* mode "wal" that a killed client left behind has its last changes in a   *)
(* log beside the main file.  Connection.backup copies what a reader sees, *)
(* and the header with it: in mode "wal" the UPDATE that follows goes into *)
(* the copy's own log, not into the bytes that are read back.              *)
(***************************************************************************)
EXTENDS Integers, Sequences

CONSTANTS
    NThreads,       \* threads of the history, in the order of their files
    Named,          \* Provider ids other than the shared one
    Shared,         \* SHARED_PROVIDER, "custom"
    Unset,          \* a thread that names no Provider
    Absent,         \* no row; no log
    Modes,          \* journal modes the database may be in
    KillModes,      \* the modes in which the process may be killed
    TargetFaults,   \* how a write of a history file may fail
    StoreFaults,    \* how a write of a manifest or recovery.json may fail
    CommitFaults,   \* how the write of the COMMITTED manifest may fail
    RemovalFaults,  \* how the removal of a transaction directory may fail
    MaxMerges,      \* bound: transactions created
    MaxUses,        \* bound: threads written by Codex
    MaxFailures     \* bound: failed writes and killed processes

Threads == 1 .. NThreads

(* The database is written after the session files.                        *)
Database == NThreads + 1

Ids == Named \cup {Shared, Unset}

Tables == [Threads -> Ids \cup {Absent}]

ASSUME ThreadsAssumption == NThreads \in Nat \ {0}

ASSUME IdsAssumption ==
    /\ Shared \notin Named /\ Unset \notin Named \cup {Shared}
    /\ Absent \notin Ids \cup Tables

ASSUME FaultsAssumption ==
    LET faults == {"early", "late"} IN      \* before or after the write takes effect
    TargetFaults \subseteq faults /\ StoreFaults \subseteq faults
        /\ CommitFaults \subseteq faults /\ RemovalFaults \subseteq faults

ASSUME ModesAssumption == Modes \subseteq {"delete", "wal"} /\ KillModes \subseteq Modes

VARIABLES
    mode,       \* the database's journal mode
    disk,       \* disk[t]: the id in thread t's file; disk[Database]: the table
    log,        \* the table as the log beside the database gives it, or Absent
    held,       \* the log held by connections the process has not closed yet
    store, recovery, job, failures,     \* as in SyncImport
    uses        \* used up so far

vars == <<mode, disk, log, held, store, recovery, job, failures, uses>>

(* The transaction store and its recovery.  The paths of SyncImport are    *)
(* the session files, and its last item is the database.                   *)
Store == INSTANCE SyncImport WITH
    NPaths <- NThreads, Database <- {}, Merged <- {}, Scope <- [t \in Threads |-> Shared],
    Approvals <- {}, Sources <- {}, Values <- Ids, MaxImports <- MaxMerges, MaxEdits <- MaxUses,
    journal <- [t \in Threads |-> Absent], edits <- uses

Items == Threads \cup {Database}

(* No process is left from an earlier command.                             *)
Quiet == Store!Idle /\ held = Absent

(* What a reader of the database sees; its process may yet restore a log.  *)
Table ==
    IF held # Absent THEN held ELSE IF log # Absent THEN log ELSE disk[Database]

(* Mutant: the line that names the Provider is dropped, not rewritten.      *)
RewrittenToNothing(id) == IF id \in Named THEN Absent ELSE id

Rewritten(id) == IF id \in Named THEN Shared ELSE id

(* Mutant: a row that names no Provider is updated like the others.        *)
UpdatedWithNull(table) ==
    [t \in Threads |-> IF table[t] = Absent THEN Absent ELSE Shared]

(* UPDATE threads SET model_provider: names are not null and not shared.   *)
Updated(table) ==
    [t \in Threads |-> IF table[t] = Absent THEN Absent ELSE Rewritten(table[t])]

(* The bytes of the updated copy.                                          *)
UpdatedCopy(table) == IF mode = "wal" THEN table ELSE Updated(table)

Init ==
    /\ mode \in Modes
    /\ \E names \in [Threads -> Ids], known \in SUBSET Threads :
          disk = [i \in Items |->
                    IF i = Database
                    THEN [t \in Threads |-> IF t \in known THEN names[t] ELSE Absent]
                    ELSE names[i]]
    /\ log = Absent /\ held = Absent
    /\ store = <<>>
    /\ recovery = Store!NoRecord
    /\ job = Store!IdleJob
    /\ failures = 0 /\ uses = 0

-----------------------------------------------------------------------------
(* prepare: both representations are read and rewritten in memory.  When   *)
(* nothing changes the command ends here.  The connections that read the   *)
(* database stay open until the interpreter collects them.                 *)
StartMerge ==
    /\ Quiet
    /\ Store!MayStart
    /\ Len(store) < MaxMerges
    /\ LET before == [disk EXCEPT ![Database] = Table]
           after == [i \in Items |-> IF i = Database THEN UpdatedCopy(Table)
                                                     ELSE Rewritten(disk[i])]
           changed == {i \in Items : after[i] # before[i]} IN
       /\ changed # {}
       /\ job' = [Store!IdleJob EXCEPT
                    !.at = "prune",
                    !.mem = [before |-> before, incoming |-> after, state |-> "PREPARED",
                             remains |-> "manifest",
                             files |-> [i \in Items |-> IF i \in changed THEN "STAGED"
                                                        ELSE "UNLISTED"]]]
    /\ held' = log
    /\ UNCHANGED <<mode, disk, log, store, recovery, failures, uses>>

(* The steps of the store that sessions merge takes over unchanged.        *)
PruneAndCreate ==
    /\ Store!Prune \/ Store!CreateManifest
    /\ UNCHANGED <<mode, log, held>>

Finish ==
    /\ Store!FinishCommit \/ Store!Discard
    /\ UNCHANGED <<mode, log, held>>

(* A failure from here on is compensated by putting every file back.       *)
BeginMerge ==
    /\ job.at = "begin"
    /\ LET m == [job.mem EXCEPT !.state = "COMMITTING"] IN
       \E o \in Store!Outcomes(StoreFaults) :
          Store!StoreThen(m, o, Store!With(m, "intend"), [job EXCEPT !.at = "undo"])
    /\ UNCHANGED <<mode, recovery, log, held>>

(* The recovery intent for all files, before the first is written.         *)
Intend ==
    /\ job.at = "intend"
    /\ LET m == Store!UpdateAllFileStates(job.mem, "MODIFIED") IN
       \E o \in Store!Outcomes(StoreFaults) :
          Store!StoreThen(m, o, Store!With(m, "unlink"), [job EXCEPT !.at = "undo"])
    /\ UNCHANGED <<mode, recovery, log, held>>

FirstAfter(i) ==
    CHOOSE k \in Store!Listed(job.mem) :
        k > i /\ \A l \in Store!Listed(job.mem) : l > i => k <= l

IsLast(i) == \A k \in Store!Listed(job.mem) : k <= i

(* _write, before any file: the logs beside the database are unlinked, of  *)
(* whatever the database itself is about to become.  The same loop opens   *)
(* the rollback, whose failure makes recovery required.                    *)
Unlink ==
    /\ job.at \in {"unlink", "undo"}
    /\ \E o \in Store!Outcomes(TargetFaults \cap {"early"}) :
          /\ o # "ok" => log # Absent
          /\ log' = IF Store!Takes(o) THEN Absent ELSE log
          /\ Store!Count(o)
          /\ job' = IF o = "ok"
                    THEN [job EXCEPT !.at = IF job.at = "unlink" THEN "write" ELSE "putBack",
                                     !.item = FirstAfter(0)]
                    ELSE [job EXCEPT !.at = IF job.at = "unlink" THEN "undo" ELSE "flagFiles"]
    /\ UNCHANGED <<mode, disk, held, store, recovery, uses>>

(* _write, file by file: the new contents, or the old ones.                *)
WriteFile(contents, o, next, otherwise) ==
    /\ disk' = IF Store!Takes(o) THEN [disk EXCEPT ![job.item] = contents[job.item]] ELSE disk
    /\ Store!Count(o)
    /\ job' = IF o # "ok" THEN [job EXCEPT !.at = otherwise]
              ELSE IF IsLast(job.item) THEN [job EXCEPT !.at = next]
              ELSE [job EXCEPT !.item = FirstAfter(job.item)]
    /\ UNCHANGED <<mode, log, held, store, recovery, uses>>

WriteHistory ==
    /\ job.at = "write"
    /\ \E o \in Store!Outcomes(TargetFaults) :
          WriteFile(job.mem.incoming, o, "finish", "undo")

(* Mutant: a file that cannot be put back is passed over.                  *)
PutBackAndGoOn ==
    /\ job.at = "putBack"
    /\ \E o \in Store!Outcomes(TargetFaults) :
          WriteFile(job.mem.before, o, "unmark", "unmark")

PutBack ==
    /\ job.at = "putBack"
    /\ \E o \in Store!Outcomes(TargetFaults) :
          WriteFile(job.mem.before, o, "unmark", "flagFiles")

Unmark ==
    /\ job.at = "unmark"
    /\ LET m == Store!UpdateAllFileStates(job.mem, "ROLLED_BACK") IN
       \E o \in Store!Outcomes(StoreFaults) :
          Store!StoreThen(m, o, Store!With(m, "settle"), [job EXCEPT !.at = "flagFiles"])
    /\ UNCHANGED <<mode, recovery, log, held>>

Settle ==
    /\ job.at = "settle"
    /\ LET m == [job.mem EXCEPT !.state = "ROLLED_BACK"] IN
       \E o \in Store!Outcomes(StoreFaults) :
          Store!StoreThen(m, o, Store!With(m, "discard"), [job EXCEPT !.at = "flagFiles"])
    /\ UNCHANGED <<mode, recovery, log, held>>

-----------------------------------------------------------------------------
(* SQLite checkpoints the log when the last connection is closed, at the   *)
(* end of the process or earlier, and removes it; a log that was unlinked  *)
(* is still open and is checkpointed all the same.                         *)
CloseDatabase ==
    /\ held # Absent
    /\ disk' = [disk EXCEPT ![Database] = held]
    /\ log' = Absent
    /\ held' = Absent
    /\ UNCHANGED <<mode, store, recovery, job, failures, uses>>

Kill ==
    /\ mode \in KillModes
    /\ Store!Crash
    /\ held' = Absent
    /\ UNCHANGED <<mode, log>>

Recover ==
    /\ Store!Idle => Quiet
    /\ Store!Recover
    /\ UNCHANGED <<mode, log, held>>

(* Codex names a Provider for a thread, in its file and in the database.   *)
(* Ending in good order it leaves no log.                                  *)
UseCodex(t, id, log_left) ==
    /\ Quiet
    /\ ~Store!Owed
    /\ uses < MaxUses /\ Len(store) < MaxMerges
    /\ log_left => mode = "wal"
    /\ LET table == [Table EXCEPT ![t] = id] IN
       /\ disk' = [disk EXCEPT ![t] = id,
                               ![Database] = IF log_left THEN @ ELSE table]
       /\ log' = IF log_left THEN table ELSE Absent
    /\ uses' = uses + 1
    /\ UNCHANGED <<mode, held, store, recovery, job, failures>>

Merge ==
    \/ StartMerge \/ PruneAndCreate \/ BeginMerge \/ Intend \/ Unlink \/ WriteHistory
    \/ Finish \/ PutBack \/ Unmark \/ Settle

Next ==
    \/ Merge \/ Recover \/ CloseDatabase \/ Kill
    \/ \E t \in Threads, id \in Ids, log_left \in BOOLEAN : UseCodex(t, id, log_left)

Spec == Init /\ [][Next]_vars

-----------------------------------------------------------------------------
(* Properties.                                                             *)

(* The type of every variable.                                             *)
TypeOK ==
    /\ mode \in Modes
    /\ \A t \in Threads : disk[t] \in Ids
    /\ disk[Database] \in Tables
    /\ log \in Tables \cup {Absent} /\ held \in Tables \cup {Absent}
    /\ mode = "delete" => log = Absent /\ held = Absent
    /\ \A op \in 1 .. Len(store) :
          /\ store[op].files \in [Items -> Store!FileStates]
          /\ store[op].state \in Store!OperationStates
          /\ store[op].remains \in {"manifest", "backups", "none"}
    /\ recovery \in 0 .. Len(store)
    /\ job.at \in Store!Labels \cup {"unlink", "putBack"}
    /\ job.item \in Items \cup {0}

(* With no command running and nothing owed, the two records of a thread   *)
(* name the same Provider, whatever failed or was killed while the merge   *)
(* rewrote the one after the other (databases in mode "delete"; for "wal"  *)
(* see MergedIsShared).                                                    *)
HistoryAgrees ==
    Quiet /\ ~Store!Owed /\ mode = "delete" =>
        \A t \in Threads : Table[t] \in {Absent, disk[t]}

(* A merge becomes COMMITTED only when every file it lists is rewritten,   *)
(* ROLLED_BACK only when every one is what it was.                         *)
FinalStateIsTrue ==
    [][\A op \in 1 .. Len(store) :
         LET m == store'[op] IN
         ~Store!Finalized(store[op]) /\ Store!Finalized(m) =>
            \A i \in Store!Listed(m) :
                disk'[i] = IF m.state = "COMMITTED" THEN m.incoming[i] ELSE m.before[i]]_vars

(* "The merge rewrites every historical non-custom Provider identifier to  *)
(* the shared custom alias" (README.md:107): when the merge is COMMITTED   *)
(* neither record of a thread names a Provider of its own.                 *)
MergedIsShared ==
    [][\A op \in 1 .. Len(store) :
         store[op].state # "COMMITTED" /\ store'[op].state = "COMMITTED" =>
            \A t \in Threads : disk'[t] \notin Named /\ Table'[t] \notin Named]_vars

-----------------------------------------------------------------------------
(* The abstract merge.                                                     *)

(* The history as it is seen through recovery, and as the process at work  *)
(* will leave the database when it ends.                                   *)
Visible ==
    [i \in Items |->
        IF \E op \in Store!Incomplete : i \in Store!Listed(store[op])
        THEN store[CHOOSE op \in Store!Incomplete : i \in Store!Listed(store[op])].before[i]
        ELSE IF i = Database THEN Table ELSE disk[i]]

Atomic == INSTANCE AtomicMerge WITH
            names <- [t \in Threads |-> Visible[t]],
            table <- Visible[Database],
            merging <- Store!Incomplete # {}

(* A merge takes effect, in all files at once, at the write of its         *)
(* COMMITTED manifest or never, and changes nothing but Provider ids.      *)
MergeIsAtomic == Atomic!Spec
===============================================================================
