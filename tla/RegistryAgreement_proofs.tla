----------------------- MODULE RegistryAgreement_proofs -----------------------
(***************************************************************************)
(* That providers.json names what the clients hold, proved with TLAPS.     *)
(*                                                                         *)
(* A switch commits the clients before it records the new Provider, so     *)
(* between the two writes nothing on disk says that they disagree.  Only   *)
(* the process knows, and only while it lives and can still write: the     *)
(* result is about writes that fail cleanly, no crash, and at most two     *)
(* failed writes.  A crash, a late failure and a third failed write each   *)
(* refute it: the first is the run switch_committed_unsaved, and for the   *)
(* others TLC finds the counterexample when the bounds of switch_registry  *)
(* allow them.                                                             *)
(***************************************************************************)
EXTENDS SwitchRecovery_proofs

EarlyWrites ==
    /\ ClientFaults \subseteq {"early"}
    /\ StoreFaults \subseteq {"early"}
    /\ RegistryFaults \subseteq {"early"}

(* Nothing happened so far that the compensation cannot make good: the     *)
(* registry write and one write of its compensation may have failed.       *)
Benign == crashes = 0 /\ (RegistryFaults = {} \/ faults <= 2)

-----------------------------------------------------------------------------
(* The invariant.  The registry names what the clients held before the     *)
(* newest operation as long as that one is open or the registry is still   *)
(* to be written, and otherwise what they hold.                            *)

RecordedIn(image) == \A f \in Files : image[f] = current[f[1]]

Unsettled ==
    \/ Open(Newest, recovery)
    \/ \E p \in Procs : job[p].at = "save" \/ job[p].saving

Recorded == RecordedIn(IF manifests # <<>> /\ Unsettled THEN Newest.backup ELSE disk)

(* While the clients are rolled back after a failed registry write         *)
(* RecoveryInv does not hold: until the first client is marked the         *)
(* operation is COMMITTED although its files no longer hold the target.    *)
(* The clients behind position i are put back, or failed and are flagged.  *)
SavingLabels == {"rollback", "markBack", "flagClient", "report", "settle"}

FlaggedClient(m, c) == \A f \in FilesOf(c) : Recoverable(m, f)

PutBackBehind(image, m, i, failed) ==
    \A k \in i + 1 .. Len(m.clients) :
        \/ Kept(image, m, m.clients[k])
        \/ m.clients[k] \in failed /\ FlaggedClient(m, m.clients[k])

SavingProgress(jb, image, m) ==
    /\ jb.saving /\ jb.at \in SavingLabels
    /\ SameOperation(jb.mem, m)
    /\ PutBackBehind(image, m, jb.i, jb.failed)
    /\ \/ jb.mem = m /\ ~Finalized(m)
       \/ Finalized(m) /\ jb.i = Len(m.clients)
    /\ jb.at = "report" => jb.i = 0
    /\ jb.at = "settle" => jb.i = 0 /\ jb.failed = {}
    /\ jb.at = "rollback" => KeptUpTo(image, m, m.clients[jb.i], jb.j)
    /\ jb.at = "markBack" => Kept(image, m, m.clients[jb.i])

(* The registry write failed, and so did a write for a client to flag.     *)
Saves(p) ==
    /\ SavingProgress(job[p], disk, Newest)
    /\ faults >= IF job[p].at = "flagClient" THEN 2 ELSE 1
    /\ \A q \in Procs : q # p => ~job[q].saving

SavingInv ==
    /\ RegistryFaults # {} /\ manifests # <<>> /\ recovery = NoRecord
    /\ Whole(Newest.backup) /\ Distinct(Newest.clients)
    /\ \A f \in Files \ Listed(Newest) : KeptFile(disk, Newest, f)
    /\ \E p \in Procs : Saves(p)

AgreementInv == Benign => Recorded /\ (RecoveryInv \/ SavingInv)

-----------------------------------------------------------------------------
(* Steps outside that compensation.                                        *)

LEMMA OthersIdle ==
    ASSUME TypeInv, SafeInv, RecoveryInv, NEW p \in Procs, job[p].at # "idle"
    PROVE  /\ ~job[p].saving
           /\ \A q \in Procs : q # p => job[q].at = "idle" /\ ~job[q].saving
BY DEF SafeInv, LockHeld, RecoveryInv, Progress

(* The process that holds the lock is the one that leaves the registry     *)
(* unwritten.                                                              *)
LEMMA HolderUnsettled ==
    ASSUME TypeInv, SafeInv, RecoveryInv, NEW p \in Procs, job[p].at # "idle"
    PROVE  Unsettled <=> Open(Newest, recovery) \/ job[p].at = "save"
BY OthersIdle DEF Unsettled

(* What becomes of the other jobs when p goes on or ends.                  *)
LEMMA JobsAfter ==
    ASSUME TypeInv, SafeInv, NEW p \in Procs, job[p].at # "idle"
    PROVE  /\ \A q \in Procs : q # p => job[q].at = "idle"
           /\ Exit(p) => /\ job'[p].at = "idle" /\ ~job'[p].saving
                         /\ \A q \in Procs : q # p => job'[q] = job[q]
           /\ \A next : Continue(p, next) => /\ job'[p] = next
                                             /\ \A q \in Procs : q # p => job'[q] = job[q]
BY DEF SafeInv, LockHeld, TypeInv, TypeOK, Exit, Continue, IdleJob

(* Before a process has an operation the registry names what is on disk,   *)
(* or an operation is owed; such a step changes neither.                   *)
LEMMA QuietRecorded ==
    ASSUME TypeInv, SafeInv, RecoveryInv, Recorded, NEW p \in Procs, job[p].at # "idle",
           job[p].at # "save", UNCHANGED <<disk, current, manifests, recovery>>,
           Exit(p) \/ \E next : Continue(p, next) /\ next.at # "save" /\ ~next.saving
    PROVE  Recorded'
<1>1. Unsettled <=> Open(Newest, recovery)
  BY HolderUnsettled
<1>2. \A q \in Procs : job'[q].at # "save" /\ ~job'[q].saving
  BY OthersIdle, JobsAfter
<1>3. Newest' = Newest
  BY DEF Newest
<1>4. Unsettled' <=> Open(Newest, recovery)
  BY <1>2, <1>3 DEF Unsettled
<1>5. QED
  BY <1>1, <1>3, <1>4 DEF Recorded, RecordedIn

(* What is known of a process that works on an open operation.             *)
LEMMA RecordedBackup ==
    ASSUME Recorded, manifests # <<>>, Unsettled
    PROVE  RecordedIn(Newest.backup)
BY DEF Recorded

(* Both images agree with the registry, so it does not matter whether the  *)
(* operation is settled by the step.                                       *)
LEMMA BothRecorded ==
    ASSUME RecordedIn(disk)', RecordedIn(Newest.backup)'
    PROVE  Recorded'
BY DEF Recorded

(* A step on an operation that was open and is open afterwards, or whose   *)
(* registry write is still to come.                                        *)
LEMMA OpenRecorded ==
    ASSUME TypeInv, SafeInv, RecoveryInv, Recorded, NEW p \in Procs, Works(p), Outcome(p),
           UNCHANGED current, Open(Newest, recovery), Unsettled'
    PROVE  Recorded'
<1>1. manifests # <<>> /\ RecordedIn(Newest.backup)
  BY AtWork, RecordedBackup DEF Works, Unsettled
<1>2. manifests' # <<>>
  BY <1>1, AtWork DEF Works, WriteManifest
<1>3. Newest'.backup = Newest.backup
  BY DEF Outcome, Effect, SameOperation
<1>4. QED
  BY <1>1, <1>2, <1>3 DEF Recorded, RecordedIn

(* A step on an open operation whose files are all as it found them.       *)
LEMMA KeptRecorded ==
    ASSUME Recorded, manifests # <<>>, Unsettled, AllKept(disk, Newest),
           \A f \in Files \ Listed(Newest) : KeptFile(disk, Newest, f),
           UNCHANGED <<disk, current>>, Newest'.backup = Newest.backup
    PROVE  Recorded'
<1>1. RecordedIn(Newest.backup)
  BY RecordedBackup
<1>2. RecordedIn(disk)' /\ RecordedIn(Newest.backup)'
  BY <1>1 DEF RecordedIn, AllKept, KeptFile
<1>3. QED
  BY <1>2, BothRecorded

LEMMA StartRecorded ==
    ASSUME TypeInv, SafeInv, RecoveryInv, Recorded, NEW p \in Procs, NEW cmd, Start(p, cmd)
    PROVE  Recorded'
<1>1. \A q \in Procs : job[q].at = "idle" /\ ~job[q].saving
  BY ProcsAssumption DEF SafeInv, LockHeld, Start, RecoveryInv, Progress
<1>2. \A q \in Procs : job'[q].at # "save" /\ ~job'[q].saving
  BY <1>1 DEF Start, TypeInv, TypeOK, Jobs
<1>3. UNCHANGED <<disk, current, manifests, recovery>> /\ Newest' = Newest
  BY DEF Start, Newest
<1>4. (Unsettled <=> Open(Newest, recovery)) /\ (Unsettled' <=> Open(Newest, recovery))
  BY <1>1, <1>2, <1>3 DEF Unsettled
<1>5. QED
  BY <1>3, <1>4 DEF Recorded, RecordedIn

LEMMA GateRecordedIn ==
    ASSUME TypeInv, SafeInv, RecoveryInv, Recorded, NEW p \in Procs,
           Gate(p) \/ Refuse(p) \/ Prepare(p)
    PROVE  Recorded'
<1>1. /\ UNCHANGED <<disk, current, manifests, recovery>>
      /\ job[p].at \in {"gate", "prepare"} /\ job[p] \in Jobs /\ ~job[p].saving
  BY JobFacts DEF Gate, GateRecorded, GateIncomplete, GateClear, Refuse, Prepare, At,
                  RecoveryInv, Progress
<1>2. Exit(p) \/ \E next : Continue(p, next) /\ next.at # "save" /\ ~next.saving
  <2>1. CASE GateRecorded(p)
    <3> DEFINE next == [job[p] EXCEPT !.at = "check", !.op = recovery,
                                      !.mem = manifests[recovery]]
    <3>1. next.at = "check" /\ ~next.saving
      BY <1>1 DEF Jobs
    <3>2. QED
      BY <2>1, <3>1 DEF GateRecorded
  <2>2. CASE GateIncomplete(p)
    <3>1. PICK op \in 1 .. Len(manifests) :
             Continue(p, [job[p] EXCEPT !.at = "flagFiles", !.op = op, !.mem = manifests[op]])
      BY <2>2 DEF GateIncomplete
    <3> DEFINE next == [job[p] EXCEPT !.at = "flagFiles", !.op = op, !.mem = manifests[op]]
    <3>2. next.at = "flagFiles" /\ ~next.saving
      BY <1>1 DEF Jobs
    <3>3. QED
      BY <3>1, <3>2
  <2>3. CASE GateClear(p)
    <3> DEFINE next == [job[p] EXCEPT !.at = "prepare"]
    <3>1. next.at = "prepare" /\ ~next.saving
      BY <1>1 DEF Jobs
    <3>2. QED
      BY <2>3, <3>1 DEF GateClear, Goto
  <2>4. CASE Refuse(p)
    BY <2>4 DEF Refuse
  <2>5. CASE Prepare(p)
    <3>1. PICK clients \in ChangeLists, target \in Contents :
             Continue(p, [job[p] EXCEPT !.at = "create",
                                        !.mem = NewManifest(clients, target, disk)])
      BY <2>5 DEF Prepare
    <3> DEFINE next == [job[p] EXCEPT !.at = "create",
                                      !.mem = NewManifest(clients, target, disk)]
    <3>2. next.at = "create" /\ ~next.saving
      BY <1>1 DEF Jobs
    <3>3. QED
      BY <3>1, <3>2
  <2>6. QED
    BY <2>1, <2>2, <2>3, <2>4, <2>5 DEF Gate
<1>3. QED
  BY <1>1, <1>2, QuietRecorded

(* A new operation starts from files that the registry names.              *)
LEMMA CreateRecorded ==
    ASSUME TypeInv, SafeInv, RecoveryInv, Recorded, NEW p \in Procs, CreateManifest(p)
    PROVE  Recorded'
<1> DEFINE next == [job[p] EXCEPT !.at = "begin", !.op = Len(manifests) + 1]
<1>1. /\ UNCHANGED <<disk, recovery>> /\ recovery = NoRecord
      /\ Incomplete(manifests) = {} /\ job[p].mem.backup = disk
      /\ manifests' = manifests \/ Newest' = job[p].mem
  BY CreateFacts
<1>2. UNCHANGED current /\ job[p].at = "create" /\ job[p] \in Jobs /\ ~job[p].saving
  BY JobFacts DEF CreateManifest, At, RecoveryInv, Progress
<1>3. Exit(p) \/ Continue(p, next)
  BY DEF CreateManifest
<1>4. next.at = "begin" /\ ~next.saving
  BY <1>2 DEF Jobs
<1> HIDE DEF next
<1>5. CASE manifests' = manifests
  BY <1>1, <1>2, <1>3, <1>4, <1>5, QuietRecorded
<1>6. CASE Newest' = job[p].mem
  <2>1. manifests # <<>> => ~Open(Newest, recovery)
    <3>1. manifests # <<>> => Len(manifests) \in 1 .. Len(manifests)
      BY DEF TypeInv, TypeOK
    <3>2. QED
      BY <1>1, <3>1 DEF Incomplete, Newest, Open
  <2>2. RecordedIn(disk)
    BY <1>2, <2>1, HolderUnsettled DEF Recorded
  <2>3. RecordedIn(disk)' /\ RecordedIn(Newest.backup)'
    BY <1>1, <1>2, <1>6, <2>2 DEF RecordedIn
  <2>4. QED
    BY <2>3, BothRecorded
<1>7. QED
  BY <1>1, <1>5, <1>6

LEMMA WrittenOpen ==
    ASSUME TypeInv, SafeInv, RecoveryInv, NEW p \in Procs, job[p].at \notin BeforeOperation,
           NEW m \in Manifest, NEW o, WriteManifest(job[p].op, m, o),
           ~Finalized(Newest), ~Finalized(m)
    PROVE  ~Finalized(Newest')
<1>1. Newest' = IF Takes(o) THEN m ELSE Newest
  BY AtWork, WrittenNewest
<1>2. QED
  BY <1>1

(* A manifest write that goes on with a state that is not final.           *)
LEMMA FlagsStayOpen ==
    ASSUME TypeInv, SafeInv, RecoveryInv, NEW p \in Procs,
           RequireRecovery(p) \/ ReportRecovery(p)
    PROVE  UNCHANGED current /\ ~Finalized(Newest) /\ ~Finalized(Newest')
<1>1. /\ UNCHANGED current
      /\ job[p].at \in {"flagFiles", "flagOperation", "flagRecord", "report"}
      /\ job[p].at \in FlagLabels /\ job[p].at \notin BeforeOperation
  BY DEF RequireRecovery, FlagFiles, FlagOperation, FlagRecord, ReportRecovery, At,
         FlagLabels, BeforeOperation
<1>2. ~Finalized(Newest) /\ job[p].mem = Newest /\ Newest \in Manifest
  BY <1>1, AtWork DEF Progress
<1>3. CASE FlagFiles(p)
  <2> DEFINE m == UpdateAllFileStates(job[p].mem, "RECOVERY_REQUIRED")
  <2>1. \E o : WriteManifest(job[p].op, m, o)
    BY <1>3 DEF FlagFiles, StoreThen
  <2>2. m \in Manifest /\ ~Finalized(m)
    BY <1>2, UpdateAllFileStatesType, UpdatesState DEF FileStates, Finalized
  <2> HIDE DEF m
  <2>3. QED
    BY <1>1, <1>2, <2>1, <2>2, WrittenOpen
<1>4. CASE FlagOperation(p)
  <2> DEFINE m == SetOperationState(job[p].mem, "RECOVERY_REQUIRED")
  <2>1. \E o : WriteManifest(job[p].op, m, o)
    BY <1>4 DEF FlagOperation, StoreThen
  <2>2. m \in Manifest /\ ~Finalized(m)
    BY <1>2, SetOperationStateType, UpdatesState DEF OperationStates, Finalized
  <2> HIDE DEF m
  <2>3. QED
    BY <1>1, <1>2, <2>1, <2>2, WrittenOpen
<1>5. CASE FlagRecord(p) \/ ReportRecovery(p)
  BY <1>1, <1>2, <1>5 DEF FlagRecord, ReportRecovery, Newest
<1>6. QED
  BY <1>3, <1>4, <1>5 DEF RequireRecovery

LEMMA CommitStaysOpen ==
    ASSUME TypeInv, SafeInv, RecoveryInv, NEW p \in Procs,
           BeginCommit(p) \/ CommitFile(p) \/ UndoCommit(p) \/ MarkCommitted(p)
    PROVE  UNCHANGED current /\ ~Finalized(Newest) /\ ~Finalized(Newest')
<1>1. /\ UNCHANGED current /\ job[p].at \in {"begin", "commit", "undo", "mark"}
      /\ job[p].at \in CommitLabels /\ job[p].at \notin BeforeOperation
  BY DEF BeginCommit, CommitFile, UndoCommit, MarkCommitted, At, CommitLabels, BeforeOperation
<1>2. ~Finalized(Newest) /\ job[p].mem = Newest /\ Newest \in Manifest
  BY <1>1, AtWork DEF Progress
<1>3. CASE BeginCommit(p)
  <2> DEFINE m == SetOperationState(job[p].mem, "COMMITTING")
  <2>1. \E o : WriteManifest(job[p].op, m, o)
    BY <1>3 DEF BeginCommit, StoreThen
  <2>2. m \in Manifest /\ ~Finalized(m)
    BY <1>2, SetOperationStateType, UpdatesState DEF OperationStates, Finalized
  <2> HIDE DEF m
  <2>3. QED
    BY <1>1, <1>2, <2>1, <2>2, WrittenOpen
<1>4. CASE MarkCommitted(p)
  <2> DEFINE m == UpdateClientState(job[p].mem, Client(p), "MODIFIED", "COMMITTING")
  <2>1. \E o : WriteManifest(job[p].op, m, o)
    BY <1>4 DEF MarkCommitted, StoreThen
  <2>2. m \in Manifest /\ ~Finalized(m)
    BY <1>2, UpdateClientStateType, UpdatesState DEF OperationStates, FileStates, Finalized
  <2> HIDE DEF m
  <2>3. QED
    BY <1>1, <1>2, <2>1, <2>2, WrittenOpen
<1>5. CASE CommitFile(p) \/ UndoCommit(p)
  BY <1>1, <1>2, <1>5 DEF CommitFile, UndoCommit, Newest
<1>6. QED
  BY <1>3, <1>4, <1>5

LEMMA RollBackStaysOpen ==
    ASSUME TypeInv, SafeInv, RecoveryInv, NEW p \in Procs,
           RollBackFile(p) \/ MarkRolledBack(p) \/ FlagFailed(p)
    PROVE  UNCHANGED current /\ ~Finalized(Newest) /\ ~Finalized(Newest')
<1>1. /\ UNCHANGED current /\ job[p].at \in {"rollback", "markBack", "flagFailed"}
      /\ job[p].at \in RollBackLabels /\ job[p].at \notin BeforeOperation
  BY DEF RollBackFile, MarkRolledBack, FlagFailed, At, RollBackLabels, BeforeOperation
<1>2. ~Finalized(Newest) /\ job[p].mem \in Manifest
  BY <1>1, AtWork DEF Progress
<1>3. ASSUME NEW c, NEW state \in FileStates, NEW o,
             NEW opState \in {"ROLLING_BACK", "RECOVERY_REQUIRED"},
             WriteManifest(job[p].op, UpdateClientState(job[p].mem, c, state, opState), o)
      PROVE  ~Finalized(Newest')
  <2> DEFINE m == UpdateClientState(job[p].mem, c, state, opState)
  <2>1. m \in Manifest /\ ~Finalized(m)
    BY <1>2, UpdateClientStateType, UpdatesState DEF OperationStates, Finalized
  <2>2. WriteManifest(job[p].op, m, o)
    BY <1>3
  <2> HIDE DEF m
  <2>3. QED
    BY <1>1, <1>2, <2>1, <2>2, WrittenOpen
<1>4. CASE MarkRolledBack(p)
  BY <1>1, <1>2, <1>3, <1>4 DEF MarkRolledBack, StoreThen, FileStates
<1>5. CASE FlagFailed(p)
  BY <1>1, <1>2, <1>3, <1>5 DEF FlagFailed, StoreThen, FileStates
<1>6. CASE RollBackFile(p)
  BY <1>1, <1>2, <1>6 DEF RollBackFile, Newest
<1>7. QED
  BY <1>4, <1>5, <1>6

(* Until it removes recovery.json, recover leaves it alone.                *)
LEMMA RecoverStaysOpen ==
    ASSUME TypeInv, SafeInv, RecoveryInv, NEW p \in Procs,
           \/ RefuseRecover(p) \/ AcceptRecover(p) \/ RestoreFile(p)
           \/ SettleFiles(p) \/ SettleOperation(p)
    PROVE  UNCHANGED <<current, recovery>> /\ recovery # NoRecord
<1>1. /\ UNCHANGED <<current, recovery>> /\ job[p].at \notin BeforeOperation
      /\ job[p].at \in {"check", "restore"} \cup SettleLabels
  BY DEF RefuseRecover, AcceptRecover, RestoreFile, SettleFiles, SettleOperation, At,
         SettleLabels, BeforeOperation
<1>2. QED
  BY <1>1, AtWork DEF Progress

(* Steps that work on an operation which stays open.                       *)
LEMMA StaysOpenRecorded ==
    ASSUME TypeInv, SafeInv, RecoveryInv, Recorded, NEW p \in Procs, Works(p), Outcome(p),
           \/ RequireRecovery(p) \/ RefuseRecover(p) \/ AcceptRecover(p)
           \/ (Commit(p) /\ ~CreateManifest(p) /\ ~FinishCommit(p) /\ ~SaveRegistry(p))
           \/ (RollBack(p) /\ ~FlagClient(p) /\ ~SettleRollBack(p))
           \/ (Restore(p) /\ ~ClearRecord(p))
    PROVE  Recorded'
<1>1. UNCHANGED current /\ Open(Newest, recovery) /\ Open(Newest', recovery')
  BY FlagsStayOpen, CommitStaysOpen, RollBackStaysOpen, RecoverStaysOpen
  DEF Commit, RollBack, Restore, Open
<1>2. QED
  BY <1>1, OpenRecorded DEF Unsettled

(* COMMITTED is written: the registry is the next to be written.           *)
LEMMA FinishRecorded ==
    ASSUME EarlyWrites, TypeInv, SafeInv, RecoveryInv, Recorded, NEW p \in Procs,
           Works(p), Outcome(p), FinishCommit(p)
    PROVE  Recorded'
<1> DEFINE m == SetOperationState(job[p].mem, "COMMITTED")
           next == [job[p] EXCEPT !.at = "save"]
           new == [next EXCEPT !.mem = m]
<1>1. PICK o \in Outcomes(StoreFaults) : StoreThen(p, m, o, next, Exit(p))
  BY DEF FinishCommit
<1>2. /\ UNCHANGED <<current, recovery>>
      /\ job[p].at = "finish" /\ job[p].at \in CommitLabels /\ job[p].at \notin BeforeOperation
  BY DEF FinishCommit, At, BeforeOperation, CommitLabels
<1>3. ~Finalized(Newest) /\ job[p] \in Jobs
  BY <1>2, AtWork DEF Progress
<1>4. CASE o = "ok"
  <2>1. Continue(p, new)
    BY <1>1, <1>4 DEF StoreThen
  <2>2. new.at = "save"
    BY <1>3 DEF Jobs
  <2> HIDE DEF new
  <2>3. Unsettled'
    BY <1>2, <2>1, <2>2, JobsAfter DEF Unsettled
  <2>4. QED
    BY <1>2, <1>3, <2>3, OpenRecorded DEF Open
<1>5. CASE o # "ok"
  <2>1. manifests' = manifests
    BY <1>1, <1>5 DEF StoreThen, WriteManifest, Takes, Outcomes, EarlyWrites
  <2>2. Newest' = Newest
    BY <2>1 DEF Newest
  <2>3. QED
    BY <1>2, <1>3, <2>2, OpenRecorded DEF Unsettled, Open
<1>6. QED
  BY <1>4, <1>5

LEMMA SettleRecorded ==
    ASSUME TypeInv, SafeInv, RecoveryInv, Recorded, NEW p \in Procs, Outcome(p),
           SettleRollBack(p) \/ ClearRecord(p)
    PROVE  Recorded'
<1>1. /\ UNCHANGED <<disk, current>> /\ job[p].at \in {"settle", "clear"}
      /\ job[p].at \in RollBackLabels \cup SettleLabels /\ job[p].at \notin BeforeOperation
  BY DEF SettleRollBack, ClearRecord, At, BeforeOperation, RollBackLabels, SettleLabels
<1>2. /\ manifests # <<>> /\ Open(Newest, recovery) /\ AllKept(disk, Newest)
      /\ Durable(disk, Newest, recovery)
  <2>1. CASE job[p].at = "settle"
    BY <1>1, <2>1, AtWork DEF Progress, Open, RollBackLabels
  <2>2. CASE job[p].at = "clear"
    BY <1>1, <2>2, AtWork DEF Progress, Open, SettleLabels
  <2>3. QED
    BY <1>1, <2>1, <2>2
<1>3. Newest'.backup = Newest.backup
  BY DEF Outcome, Effect, SameOperation
<1>4. QED
  BY <1>1, <1>2, <1>3, KeptRecorded DEF Durable, Unsettled

-----------------------------------------------------------------------------
(* The registry write.                                                     *)

(* The compensation that a failed write starts.                            *)
Compensation(p) ==
    LET m == job[p].mem IN
    RollBackFrom([job[p] EXCEPT !.mem = NewManifest(m.clients, m.target, m.backup),
                                !.saving = TRUE],
                 Len(m.clients))

NowRecorded(m) == [c \in Clients |-> IF c \in ClientSet(m) THEN m.target ELSE current[c]]

LEMMA SaveRegistryCases ==
    ASSUME EarlyWrites, TypeInv, SafeInv, NEW p \in Procs, SaveRegistry(p)
    PROVE  \/ Exit(p) /\ current' = NowRecorded(job[p].mem)
           \/ /\ ~Exit(p) /\ Continue(p, Compensation(p)) /\ current' = current
              /\ RegistryFaults # {} /\ faults' = faults + 1
<1> DEFINE next == Compensation(p)
<1>1. PICK o \in Outcomes(RegistryFaults) :
         /\ current' = IF Takes(o) THEN NowRecorded(job[p].mem) ELSE current
         /\ Count(o)
         /\ IF o = "ok" THEN Exit(p) ELSE Continue(p, next)
  BY DEF SaveRegistry, NowRecorded, Compensation
<1>2. CASE o = "ok"
  BY <1>1, <1>2 DEF Takes
<1>3. CASE o # "ok"
  <2>1. o = "early" /\ RegistryFaults # {} /\ current' = current /\ faults' = faults + 1
    BY <1>1, <1>3 DEF Outcomes, EarlyWrites, Takes, Count
  <2>2. Continue(p, next)
    BY <1>1, <1>3
  <2>3. next.at # "idle"
    <3> DEFINE m == job[p].mem
               created == NewManifest(m.clients, m.target, m.backup)
               started == [job[p] EXCEPT !.mem = created, !.saving = TRUE]
    <3>1. job[p] \in Jobs /\ m \in Manifest
      BY JobFacts DEF SaveRegistry, At
    <3>2. created \in Manifest
      BY <3>1, NewManifestType DEF Manifest
    <3> HIDE DEF created
    <3>3. started \in Jobs /\ started.op = job[p].op
      BY <3>1, <3>2 DEF Jobs
    <3>4. next = RollBackFrom(started, Len(m.clients))
      BY DEF Compensation, created
    <3> HIDE DEF started, m, next
    <3>5. KeepsOperation(next, p)
      BY <3>3, <3>4, RollBackKeeps
    <3>6. QED
      BY <3>5 DEF KeepsOperation, BeforeOperation
  <2> HIDE DEF next
  <2>4. ~Exit(p)
    BY <2>2, <2>3, JobsAfter DEF SaveRegistry, At
  <2>5. QED
    BY <2>1, <2>2, <2>4 DEF next
<1>4. QED
  BY <1>2, <1>3

(* The clients hold the target, and now the registry says so.              *)
LEMMA SaveRecorded ==
    ASSUME EarlyWrites, TypeInv, SafeInv, RecoveryInv, Recorded, NEW p \in Procs,
           SaveRegistry(p), Exit(p)
    PROVE  Recorded'
<1>1. /\ job[p].at = "save" /\ job[p].at \notin BeforeOperation
      /\ UNCHANGED <<disk, manifests, recovery>>
  BY DEF SaveRegistry, At, BeforeOperation
<1>2. /\ manifests # <<>> /\ job[p].mem = Newest /\ recovery = NoRecord /\ Finalized(Newest)
      /\ AllGiven(disk, Newest) /\ \A f \in Files \ Listed(Newest) : KeptFile(disk, Newest, f)
  BY <1>1, AtWork DEF Progress
<1>3. RecordedIn(Newest.backup)
  BY <1>1, <1>2, RecordedBackup DEF Unsettled
<1>4. current' = NowRecorded(Newest)
  BY <1>2, SaveRegistryCases
<1>5. \A f \in Files : f[1] \in Clients
  BY DEF Files
<1>6. RecordedIn(disk)'
  BY <1>1, <1>2, <1>3, <1>4, <1>5 DEF RecordedIn, NowRecorded, AllGiven, KeptFile, Listed
<1>7. Newest' = Newest
  BY <1>1 DEF Newest
<1>8. \A q \in Procs : job'[q].at # "save" /\ ~job'[q].saving
  BY <1>1, OthersIdle, JobsAfter
<1>9. ~Unsettled'
  BY <1>1, <1>2, <1>7, <1>8 DEF Unsettled, Open
<1>10. QED
  BY <1>6, <1>9 DEF Recorded

-----------------------------------------------------------------------------
(* The compensation of a failed registry write.                            *)

LEMMA SavingAtWork ==
    ASSUME TypeInv, SafeInv, SavingInv, NEW p \in Procs, Saves(p)
    PROVE  /\ job[p] \in Jobs /\ job[p].mem \in Manifest /\ job[p].saving
           /\ job[p].at \in SavingLabels /\ job[p].at \notin BeforeOperation
           /\ job[p].at # "idle" /\ Unsettled
           /\ manifests # <<>> /\ manifests \in Seq(Manifest)
           /\ job[p].op = Len(manifests) /\ Len(manifests) \in 1 .. Len(manifests)
           /\ Newest \in Manifest /\ disk \in Images
           /\ SavingProgress(job[p], disk, Newest)
           /\ Len(Newest.clients) \in Nat
<1>1. job[p].at \in SavingLabels /\ job[p].at \notin BeforeOperation /\ job[p].saving
  BY DEF Saves, SavingProgress, SavingLabels, BeforeOperation
<1>2. /\ job[p] \in Jobs /\ job[p].mem \in Manifest
      /\ job[p].op \in 1 .. Len(manifests) /\ job[p].op = Len(manifests)
  BY <1>1, JobFacts DEF SafeInv, OnNewest
<1>3. manifests \in Seq(Manifest) /\ disk \in Images
  BY DEF TypeInv, TypeOK
<1>4. Newest \in Manifest /\ Len(Newest.clients) \in Nat
  <2>1. Newest \in Manifest
    BY <1>2, <1>3 DEF Newest
  <2>2. QED
    BY <2>1 DEF Manifest
<1>5. QED
  BY <1>1, <1>2, <1>3, <1>4 DEF SavingInv, Saves, Unsettled, BeforeOperation

LEMMA SavingClient ==
    ASSUME TypeInv, SafeInv, SavingInv, NEW p \in Procs, Saves(p),
           job[p].at \in {"rollback", "markBack", "flagClient"}
    PROVE  /\ job[p].i \in 1 .. Len(Newest.clients)
           /\ job[p].i - 1 \in 0 .. Len(Newest.clients)
           /\ Client(p) = Newest.clients[job[p].i] /\ Client(p) \in Clients
           /\ \A f \in FilesOf(Client(p)) : f \in Listed(Newest)
<1>1. SameOperation(job[p].mem, Newest) /\ job[p].at \in ClientLabels
  BY SavingAtWork DEF SavingProgress, ClientLabels
<1>2. /\ job[p].i \in 1 .. Len(Newest.clients) /\ Client(p) = Newest.clients[job[p].i]
      /\ Client(p) \in Clients /\ job[p].i \in Nat
  BY <1>1, JobFacts DEF SameOperation, Client
<1>3. QED
  BY <1>1, <1>2, SavingAtWork, ListedFiles

(* The loop over the clients to roll back starts or goes on at k.          *)
LEMMA SavingRollBack ==
    ASSUME NEW m \in Manifest, NEW image, NEW next \in Jobs, next.saving,
           SameOperation(next.mem, m), NEW k \in 0 .. Len(m.clients),
           PutBackBehind(image, m, k, next.failed),
           \/ next.mem = m /\ ~Finalized(m)
           \/ Finalized(m) /\ k = Len(m.clients)
    PROVE  /\ SavingProgress(RollBackFrom(next, k), image, m)
           /\ RollBackFrom(next, k).at # "flagClient"
<1> DEFINE result == RollBackFrom(next, k)
<1>1. Len(m.clients) \in Nat
  BY DEF Manifest
<1>2. CASE k > 0
  <2>1. result = [next EXCEPT !.at = "rollback", !.i = k, !.j = 1]
    BY <1>2 DEF RollBackFrom
  <2> HIDE DEF result
  <2>2. /\ result.at = "rollback" /\ result.i = k /\ result.j = 1
        /\ result.mem = next.mem /\ result.failed = next.failed /\ result.saving
    BY <2>1 DEF Jobs
  <2>3. KeptUpTo(image, m, m.clients[k], 1)
    <3>1. m.clients[k] \in Clients
      BY <1>1, <1>2, ListedFiles
    <3>2. QED
      BY <3>1, FilesOfClient DEF KeptUpTo, Files
  <2>4. QED
    BY <2>2, <2>3 DEF result, SavingProgress, SavingLabels
<1>3. CASE k = 0
  <2> DEFINE label == IF next.failed = {} THEN "settle" ELSE "report"
  <2>1. result = [next EXCEPT !.i = 0, !.j = 0, !.at = label]
    BY <1>3 DEF RollBackFrom
  <2> HIDE DEF result
  <2>2. /\ result.at = label /\ result.i = 0 /\ result.mem = next.mem
        /\ result.failed = next.failed /\ result.saving
    BY <2>1 DEF Jobs
  <2>3. QED
    BY <1>3, <2>2 DEF result, SavingProgress, SavingLabels
<1>4. QED
  BY <1>2, <1>3

(* The compensation goes on.                                               *)
LEMMA SavingGoesOn ==
    ASSUME TypeInv, SafeInv, SavingInv, Recorded, NEW p \in Procs, Saves(p),
           UNCHANGED <<current, recovery>>, manifests' # <<>>,
           SameOperation(Newest', Newest),
           \A f \in Files \ Listed(Newest) : disk'[f] = disk[f],
           NEW next, Continue(p, next), SavingProgress(next, disk', Newest'),
           faults' >= IF next.at = "flagClient" THEN 2 ELSE 1
    PROVE  SavingInv' /\ Recorded'
<1>1. RecordedIn(Newest.backup) /\ job[p].at # "idle"
  BY SavingAtWork, RecordedBackup
<1>2. job'[p] = next /\ \A q \in Procs : q # p => job'[q] = job[q]
  BY <1>1, JobsAfter
<1>3. Saves(p)'
  BY <1>2 DEF Saves
<1>4. Listed(Newest') = Listed(Newest) /\ Newest'.backup = Newest.backup
      /\ Newest'.clients = Newest.clients
  BY SameListed DEF SameOperation
<1>5. \A f \in Files \ Listed(Newest') : KeptFile(disk', Newest', f)
  BY <1>4 DEF SavingInv, KeptFile
<1>6. SavingInv'
  BY <1>3, <1>4, <1>5 DEF SavingInv
<1>7. Unsettled'
  BY <1>3 DEF Saves, SavingProgress, Unsettled
<1>8. Recorded'
  BY <1>1, <1>4, <1>7 DEF Recorded, RecordedIn
<1>9. QED
  BY <1>6, <1>8

(* The compensation ends.                                                  *)
LEMMA SavingEnds ==
    ASSUME TypeInv, SafeInv, SavingInv, Recorded, NEW p \in Procs, Saves(p), Exit(p),
           UNCHANGED <<disk, current>>, manifests' # <<>>, Newest'.backup = Newest.backup,
           Durable(disk, Newest', recovery'),
           Open(Newest', recovery') \/ AllKept(disk, Newest)
    PROVE  RecoveryInv' /\ Recorded'
<1>1. RecordedIn(Newest.backup) /\ job[p].at # "idle" /\ manifests # <<>> /\ Unsettled
  BY SavingAtWork, RecordedBackup
<1>2. \A q \in Procs : job'[q].at = "idle" /\ ~job'[q].saving
  BY <1>1, JobsAfter DEF Saves
<1>3. \A q \in Procs : Progress(job'[q], disk', Newest', recovery')
  BY <1>2, IdleProgress
<1>4. RecoveryInv'
  BY <1>3 DEF RecoveryInv
<1>5. CASE Open(Newest', recovery')
  BY <1>1, <1>4, <1>5 DEF Recorded, RecordedIn, Unsettled
<1>6. CASE AllKept(disk, Newest)
  BY <1>1, <1>4, <1>6, KeptRecorded DEF SavingInv
<1>7. QED
  BY <1>4, <1>5, <1>6

(* A write that fails leaves everything as it is but the job.              *)
LEMMA SavingFails ==
    ASSUME TypeInv, SafeInv, SavingInv, Recorded, NEW p \in Procs, Saves(p),
           job[p].at \in {"rollback", "markBack"}, RollBackFailed(p),
           UNCHANGED <<disk, current, manifests, recovery>>, faults' = faults + 1
    PROVE  SavingInv' /\ Recorded'
<1> DEFINE next == [job[p] EXCEPT !.at = "flagClient"]
<1>1. job[p] \in Jobs /\ job[p].saving /\ SavingProgress(job[p], disk, Newest)
  BY SavingAtWork
<1>2. Continue(p, next)
  BY <1>1 DEF RollBackFailed, Goto
<1>3. /\ next.at = "flagClient" /\ next.mem = job[p].mem /\ next.i = job[p].i
      /\ next.failed = job[p].failed /\ next.saving
  BY <1>1 DEF Jobs
<1> HIDE DEF next
<1>4. Newest' = Newest /\ manifests' # <<>>
  BY SavingAtWork DEF Newest
<1>5. SavingProgress(next, disk', Newest')
  BY <1>1, <1>3, <1>4 DEF SavingProgress, SavingLabels
<1>6. faults >= 1 /\ faults \in Nat
  BY DEF Saves, TypeInv, TypeOK
<1>7. faults' >= 2
  BY <1>6
<1>8. QED
  BY <1>2, <1>3, <1>4, <1>5, <1>7, SavingGoesOn DEF SameOperation

LEMMA SavingRollBackFile ==
    ASSUME EarlyWrites, TypeInv, SafeInv, SavingInv, Recorded, NEW p \in Procs, Saves(p),
           RollBackFile(p)
    PROVE  SavingInv' /\ Recorded'
<1> DEFINE M == Newest
           i == job[p].i
           j == job[p].j
           c == Client(p)
           nextFile == [job[p] EXCEPT !.j = @ + 1]
           marking == [job[p] EXCEPT !.at = "markBack"]
<1>1. job[p].at = "rollback" /\ UNCHANGED <<current, manifests, recovery>>
  BY DEF RollBackFile, At
<1>2. /\ job[p] \in Jobs /\ j \in Nat /\ job[p].saving
      /\ SavingProgress(job[p], disk, M) /\ SameOperation(job[p].mem, M)
      /\ i \in 1 .. Len(M.clients) /\ Len(M.clients) \in Nat
      /\ c = M.clients[i] /\ c \in Clients /\ M \in Manifest
      /\ \A f \in FilesOf(c) : f \in Listed(M)
      /\ manifests # <<>> /\ faults >= 1 /\ faults \in Nat
  BY <1>1, SavingAtWork, SavingClient DEF SavingProgress, Jobs, Saves, TypeInv, TypeOK
<1>3. PutBackBehind(disk, M, i, job[p].failed) /\ KeptUpTo(disk, M, c, j)
  BY <1>1, <1>2 DEF SavingProgress
<1>4. PICK o \in Outcomes(ClientFaults) :
         /\ WriteFile(<<c, j>>, job[p].mem.backup[<<c, j>>], o)
         /\ Count(o)
         /\ IF o # "ok" THEN RollBackFailed(p)
            ELSE IF j < NFiles[c] THEN Continue(p, nextFile) ELSE Continue(p, marking)
  BY DEF RollBackFile, Goto
<1>5. WriteFile(<<c, j>>, M.backup[<<c, j>>], o) /\ CleanFiles
  BY <1>2, <1>4 DEF SameOperation, CleanFiles, EarlyWrites
<1>6. /\ nextFile.at = "rollback" /\ nextFile.mem = job[p].mem
      /\ nextFile.saving /\ nextFile.i = i /\ nextFile.j = j + 1
      /\ nextFile.failed = job[p].failed
      /\ marking.at = "markBack" /\ marking.mem = job[p].mem
      /\ marking.saving /\ marking.i = i /\ marking.failed = job[p].failed
  BY <1>1, <1>2 DEF Jobs
<1> HIDE DEF nextFile, marking
<1>7. Newest' = M /\ manifests' # <<>> /\ SameOperation(M, M)
  BY <1>1, <1>2 DEF Newest, SameOperation
<1>8. CASE o = "ok"
  <2>1. \A g \in Files : disk'[g] = IF g = <<c, j>> THEN M.backup[<<c, j>>] ELSE disk[g]
    BY <1>5, <1>8, FileWritten
  <2>2. \A f \in Files \ Listed(M) : disk'[f] = disk[f]
    <3>1. SUFFICES ASSUME NEW f \in Files, f = <<c, j>> PROVE f \in Listed(M)
      BY <2>1
    <3>2. f[1] = c
      BY <3>1
    <3>3. QED
      BY <1>2, <3>1, <3>2, FilesOfClient
  <2>3. \A f \in Files : KeptFile(disk, M, f) => KeptFile(disk', M, f)
    BY <2>1 DEF KeptFile
  <2>4. PutBackBehind(disk', M, i, job[p].failed)
    <3>1. \A k \in 1 .. Len(M.clients) : FilesOf(M.clients[k]) \subseteq Files
      BY <1>2, ListedFiles DEF Listed
    <3>2. QED
      BY <1>2, <1>3, <2>3, <3>1 DEF PutBackBehind, Kept
  <2>5. KeptUpTo(disk', M, c, j + 1)
    <3>1. SUFFICES ASSUME NEW f \in FilesOf(c), f[2] < j + 1 PROVE KeptFile(disk', M, f)
      BY DEF KeptUpTo
    <3>2. f \in Files /\ f[2] \in Nat /\ f = <<c, f[2]>>
      BY <1>2, FileOfClient
    <3>3. CASE f[2] = j
      BY <2>1, <3>2, <3>3 DEF KeptFile
    <3>4. CASE f[2] # j
      BY <1>2, <1>3, <2>3, <3>1, <3>2, <3>4 DEF KeptUpTo
    <3>5. QED
      BY <3>3, <3>4
  <2>6. faults' >= 1
    BY <1>2, <1>4, <1>8 DEF Count
  <2>7. CASE j < NFiles[c]
    <3>1. SavingProgress(nextFile, disk', M)
      BY <1>2, <1>6, <2>4, <2>5 DEF SavingProgress, SavingLabels
    <3>2. Continue(p, nextFile)
      BY <1>4, <1>8, <2>7
    <3>3. QED
      BY <1>1, <1>6, <1>7, <2>2, <2>6, <3>1, <3>2, SavingGoesOn
  <2>8. CASE ~(j < NFiles[c])
    <3>1. Kept(disk', M, c)
      BY <1>2, <2>5, <2>8, FilesOfClient DEF KeptUpTo, Kept
    <3>2. SavingProgress(marking, disk', M)
      BY <1>2, <1>6, <2>4, <3>1 DEF SavingProgress, SavingLabels
    <3>3. Continue(p, marking)
      BY <1>4, <1>8, <2>8
    <3>4. QED
      BY <1>1, <1>6, <1>7, <2>2, <2>6, <3>2, <3>3, SavingGoesOn
  <2>9. QED
    BY <2>7, <2>8
<1>9. CASE o # "ok"
  <2>1. disk' = disk
    BY <1>5, <1>9, FileWritten
  <2>2. RollBackFailed(p) /\ faults' = faults + 1
    BY <1>4, <1>9 DEF Count
  <2>3. QED
    BY <1>1, <2>1, <2>2, SavingFails
<1>10. QED
  BY <1>8, <1>9

(* The manifest in which the client at position i is marked as put back,   *)
(* or as failed.                                                           *)
LEMMA MarkedBehind ==
    ASSUME TypeInv, SafeInv, SavingInv, NEW p \in Procs, Saves(p),
           job[p].at \in {"markBack", "flagClient"},
           NEW state \in FileStates, NEW opState \in {"ROLLING_BACK", "RECOVERY_REQUIRED"},
           NEW failed,
           \/ Kept(disk, Newest, Client(p)) /\ failed = job[p].failed
           \/ state = "RECOVERY_REQUIRED" /\ failed = job[p].failed \cup {Client(p)},
           NEW m, m = UpdateClientState(job[p].mem, Client(p), state, opState)
    PROVE  /\ m \in Manifest /\ SameOperation(m, Newest) /\ ~Finalized(m)
           /\ PutBackBehind(disk, m, job[p].i - 1, failed)
<1> DEFINE M == Newest
           i == job[p].i
           c == Client(p)
<1>1. /\ job[p].mem \in Manifest /\ SameOperation(job[p].mem, M)
      /\ i \in 1 .. Len(M.clients) /\ Len(M.clients) \in Nat
      /\ c = M.clients[i] /\ c \in Clients /\ M \in Manifest /\ Distinct(M.clients)
      /\ PutBackBehind(disk, M, i, job[p].failed)
      /\ (job[p].mem = M /\ ~Finalized(M)) \/ (Finalized(M) /\ i = Len(M.clients))
  BY SavingAtWork, SavingClient DEF SavingProgress, SavingInv
<1>2. /\ m \in Manifest /\ SameOperation(m, M) /\ m.state = opState
      /\ \A f \in Files : m.files[f] = IF f \in FilesOf(c) THEN state ELSE job[p].mem.files[f]
  <2>1. opState \in OperationStates
    BY DEF OperationStates
  <2>2. m \in Manifest
    BY <1>1, <2>1, UpdateClientStateType
  <2>3. SameOperation(m, job[p].mem)
    BY <1>1, UpdatesKeepOperation
  <2>4. /\ m.state = opState
        /\ \A f \in Files : m.files[f] = IF f \in FilesOf(c) THEN state
                                         ELSE job[p].mem.files[f]
    BY <1>1, UpdatesState
  <2>5. QED
    BY <1>1, <2>2, <2>3, <2>4 DEF SameOperation
<1>3. ~Finalized(m)
  BY <1>2 DEF Finalized
<1>4. m.clients = M.clients /\ m.backup = M.backup
  BY <1>2 DEF SameOperation
<1>5. ASSUME NEW k \in (i - 1) + 1 .. Len(M.clients)
      PROVE  \/ Kept(disk, m, M.clients[k])
             \/ M.clients[k] \in failed /\ FlaggedClient(m, M.clients[k])
  <2>1. k \in 1 .. Len(M.clients) /\ (k = i \/ k \in i + 1 .. Len(M.clients))
    BY <1>1, <1>5
  <2>2. M.clients[k] \in Clients /\ FilesOf(M.clients[k]) \subseteq Files
    BY <1>1, <2>1, ListedFiles DEF Listed
  <2>3. Kept(disk, M, M.clients[k]) => Kept(disk, m, M.clients[k])
    BY <1>4 DEF Kept, KeptFile
  <2>4. CASE k = i
    <3>1. state = "RECOVERY_REQUIRED" => FlaggedClient(m, c)
      BY <1>1, <1>2, <2>2, <2>4 DEF FlaggedClient, Recoverable
    <3>2. QED
      BY <1>1, <2>3, <2>4, <3>1
  <2>5. CASE k # i
    <3>1. k \in i + 1 .. Len(M.clients)
      BY <2>1, <2>5
    <3>2. ~(i = Len(M.clients))
      BY <1>1, <3>1
    <3>3. job[p].mem = M
      BY <1>1, <3>2
    <3>4. \/ Kept(disk, M, M.clients[k])
          \/ M.clients[k] \in job[p].failed /\ FlaggedClient(M, M.clients[k])
      BY <1>1, <3>1 DEF PutBackBehind
    <3>5. \A f \in FilesOf(M.clients[k]) : f \notin FilesOf(c)
      <4>1. M.clients[k] # c
        BY <1>1, <2>1, <2>5 DEF Distinct
      <4>2. QED
        BY <1>1, <2>2, <4>1, FilesOfClient
    <3>6. FlaggedClient(M, M.clients[k]) => FlaggedClient(m, M.clients[k])
      BY <1>2, <2>2, <3>3, <3>5 DEF FlaggedClient, Recoverable
    <3>7. job[p].failed \subseteq failed
      OBVIOUS
    <3>8. QED
      BY <2>3, <3>4, <3>6, <3>7
  <2>6. QED
    BY <2>4, <2>5
<1>6. PutBackBehind(disk, m, i - 1, failed)
  BY <1>4, <1>5 DEF PutBackBehind
<1>7. QED
  BY <1>2, <1>3, <1>6

(* With that manifest stored the loop goes on with the client before.      *)
LEMMA SavingMarks ==
    ASSUME TypeInv, SafeInv, SavingInv, Recorded, NEW p \in Procs, Saves(p),
           job[p].at \in {"markBack", "flagClient"},
           NEW m \in Manifest, SameOperation(m, Newest), ~Finalized(m),
           NEW next \in Jobs, next.mem = job[p].mem, next.saving,
           PutBackBehind(disk, m, job[p].i - 1, next.failed),
           WriteManifest(job[p].op, m, "ok"),
           Continue(p, [RollBackFrom(next, job[p].i - 1) EXCEPT !.mem = m]),
           UNCHANGED <<disk, current, recovery, faults>>
    PROVE  SavingInv' /\ Recorded'
<1> DEFINE started == [next EXCEPT !.mem = m]
           new == [RollBackFrom(next, job[p].i - 1) EXCEPT !.mem = m]
<1>1. /\ manifests # <<>> /\ manifests \in Seq(Manifest)
      /\ job[p].i - 1 \in 0 .. Len(Newest.clients) /\ Newest' = m
      /\ faults >= 1 /\ faults \in Nat
  BY SavingAtWork, SavingClient, WrittenNewest DEF Takes, Saves, TypeInv, TypeOK
<1>2. new = RollBackFrom(started, job[p].i - 1)
  BY RollBackFromMem
<1>3. started \in Jobs /\ started.mem = m /\ started.saving /\ started.failed = next.failed
  BY DEF Jobs
<1> HIDE DEF started, new
<1>4. job[p].i - 1 \in 0 .. Len(m.clients) /\ SameOperation(m, m)
  BY <1>1 DEF SameOperation
<1>5. SavingProgress(new, disk, m) /\ new.at # "flagClient"
  BY <1>2, <1>3, <1>4, SavingRollBack
<1>6. manifests' # <<>>
  BY <1>1 DEF WriteManifest
<1>7. QED
  BY <1>1, <1>5, <1>6, SavingGoesOn DEF new

LEMMA SavingMarkRolledBack ==
    ASSUME EarlyWrites, TypeInv, SafeInv, SavingInv, Recorded, NEW p \in Procs, Saves(p),
           MarkRolledBack(p)
    PROVE  SavingInv' /\ Recorded'
<1> DEFINE m == UpdateClientState(job[p].mem, Client(p), "ROLLED_BACK", "ROLLING_BACK")
<1>1. PICK o \in Outcomes(StoreFaults) :
         StoreThen(p, m, o, RollBackFrom(job[p], job[p].i - 1), RollBackFailed(p))
  BY DEF MarkRolledBack
<1>2. job[p].at = "markBack" /\ UNCHANGED <<disk, current, recovery>>
  BY DEF MarkRolledBack, At
<1>3. job[p] \in Jobs /\ job[p].saving /\ Kept(disk, Newest, Client(p))
  BY <1>2, SavingAtWork, SavingClient DEF SavingProgress
<1>4. /\ m \in Manifest /\ SameOperation(m, Newest) /\ ~Finalized(m)
      /\ PutBackBehind(disk, m, job[p].i - 1, job[p].failed)
  BY <1>2, <1>3, MarkedBehind DEF FileStates
<1> HIDE DEF m
<1>5. CASE o = "ok"
  BY <1>1, <1>2, <1>3, <1>4, <1>5, SavingMarks DEF StoreThen, Count
<1>6. CASE o # "ok"
  <2>1. manifests' = manifests /\ RollBackFailed(p) /\ faults' = faults + 1
    BY <1>1, <1>6 DEF StoreThen, WriteManifest, Takes, Outcomes, EarlyWrites, Count
  <2>2. QED
    BY <1>2, <2>1, SavingFails
<1>7. QED
  BY <1>5, <1>6

(* The write that flags a client is the third that would have to fail.     *)
LEMMA SavingFlagClient ==
    ASSUME TypeInv, SafeInv, SavingInv, Recorded, NEW p \in Procs, Saves(p),
           FlagClient(p), faults' <= 2
    PROVE  SavingInv' /\ Recorded'
<1> DEFINE c == Client(p)
           m == UpdateClientState(job[p].mem, c, "RECOVERY_REQUIRED", "RECOVERY_REQUIRED")
           flagged == [job[p] EXCEPT !.failed = @ \cup {c}]
<1>1. PICK o \in Outcomes(StoreFaults) :
         StoreThen(p, m, o, RollBackFrom(flagged, job[p].i - 1), Exit(p))
  BY DEF FlagClient
<1>2. job[p].at = "flagClient" /\ UNCHANGED <<disk, current, recovery>>
  BY DEF FlagClient, At
<1>3. job[p] \in Jobs /\ job[p].saving /\ c \in Clients
  BY <1>2, SavingAtWork, SavingClient
<1>4. /\ flagged \in Jobs /\ flagged.failed = job[p].failed \cup {c}
      /\ flagged.mem = job[p].mem /\ flagged.saving
  BY <1>3 DEF Jobs
<1>5. faults >= 2 /\ faults \in Nat
  BY <1>2 DEF Saves, TypeInv, TypeOK
<1>6. o = "ok"
  BY <1>1, <1>5 DEF StoreThen, Count
<1>7. /\ m \in Manifest /\ SameOperation(m, Newest) /\ ~Finalized(m)
      /\ PutBackBehind(disk, m, job[p].i - 1, flagged.failed)
  BY <1>2, <1>4, MarkedBehind DEF FileStates
<1> HIDE DEF m, flagged
<1>8. QED
  BY <1>1, <1>2, <1>4, <1>6, <1>7, SavingMarks DEF StoreThen, Count

(* Every client is put back, or failed and is flagged.                     *)
LEMMA SavingReport ==
    ASSUME TypeInv, SafeInv, SavingInv, Recorded, NEW p \in Procs, Saves(p),
           ReportRecovery(p)
    PROVE  RecoveryInv' /\ Recorded'
<1>1. /\ job[p].at = "report" /\ UNCHANGED <<disk, current, manifests>> /\ Exit(p)
      /\ recovery = NoRecord
  BY DEF ReportRecovery, At, SavingInv
<1>2. /\ Newest \in Manifest /\ Len(Newest.clients) \in Nat /\ manifests # <<>>
      /\ PutBackBehind(disk, Newest, 0, job[p].failed)
      /\ ~Finalized(Newest) \/ Len(Newest.clients) = 0
  BY <1>1, SavingAtWork DEF SavingProgress
<1>3. Newest' = Newest
  BY <1>1 DEF Newest
<1>4. CASE ~Finalized(Newest)
  <2>1. \A f \in Listed(Newest) : Recoverable(Newest, f) \/ KeptFile(disk, Newest, f)
    <3>1. SUFFICES ASSUME NEW f \in Listed(Newest)
                   PROVE  Recoverable(Newest, f) \/ KeptFile(disk, Newest, f)
      OBVIOUS
    <3>2. PICK k \in 1 .. Len(Newest.clients) : f \in FilesOf(Newest.clients[k])
      BY <1>2, ListedFiles
    <3>3. k \in 0 + 1 .. Len(Newest.clients)
      BY <1>2, <3>2
    <3>4. QED
      BY <1>2, <3>2, <3>3 DEF PutBackBehind, FlaggedClient, Kept
  <2>2. Durable(disk, Newest, NoRecord)
    BY <1>1, <1>4 DEF SavingInv, Durable, Open
  <2>3. Durable(disk, Newest, recovery')
    BY <1>4, <2>1, <2>2, DurableRecord
  <2>4. Open(Newest', recovery')
    BY <1>3, <1>4 DEF Open
  <2>5. QED
    BY <1>1, <1>2, <1>3, <2>3, <2>4, SavingEnds
<1>5. CASE Len(Newest.clients) = 0
  <2>1. Listed(Newest) = {}
    BY <1>2, <1>5, ListedFiles
  <2>2. AllKept(disk, Newest)
    BY <2>1 DEF AllKept
  <2>3. Whole(disk)
    BY <1>2, <2>2, SettledIsWhole DEF SavingInv
  <2>4. Durable(disk, Newest, recovery')
    BY <2>1, <2>3 DEF Durable, SavingInv
  <2>5. QED
    BY <1>1, <1>2, <1>3, <2>2, <2>4, SavingEnds
<1>6. QED
  BY <1>2, <1>4, <1>5

LEMMA SavingSettles ==
    ASSUME TypeInv, SafeInv, SavingInv, Recorded, NEW p \in Procs, Saves(p),
           SettleRollBack(p)
    PROVE  RecoveryInv' /\ Recorded'
<1> DEFINE m == SetOperationState(job[p].mem, "ROLLED_BACK")
<1>1. PICK o \in Outcomes(StoreFaults) : WriteManifest(job[p].op, m, o) /\ Exit(p)
  BY DEF SettleRollBack
<1>2. /\ job[p].at = "settle" /\ UNCHANGED <<disk, current, recovery>>
      /\ recovery = NoRecord
  BY DEF SettleRollBack, At, SavingInv
<1>3. /\ Newest \in Manifest /\ Len(Newest.clients) \in Nat /\ manifests # <<>>
      /\ manifests \in Seq(Manifest) /\ job[p].mem \in Manifest
      /\ SameOperation(job[p].mem, Newest)
      /\ PutBackBehind(disk, Newest, 0, {})
  BY <1>2, SavingAtWork DEF SavingProgress
<1>4. AllKept(disk, Newest)
  <2>1. SUFFICES ASSUME NEW f \in Listed(Newest) PROVE KeptFile(disk, Newest, f)
    BY DEF AllKept
  <2>2. PICK k \in 1 .. Len(Newest.clients) : f \in FilesOf(Newest.clients[k])
    BY <1>3, ListedFiles
  <2>3. k \in 0 + 1 .. Len(Newest.clients)
    BY <1>3, <2>2
  <2>4. QED
    BY <1>3, <2>2, <2>3 DEF PutBackBehind, Kept
<1>5. m \in Manifest /\ SameOperation(m, Newest)
  BY <1>3, SetOperationStateType, UpdatesKeepOperation DEF OperationStates, SameOperation
<1> HIDE DEF m
<1>6. Newest' = IF Takes(o) THEN m ELSE Newest
  BY <1>1, <1>5, SavingAtWork, WrittenNewest
<1>7. SameOperation(Newest', Newest) /\ manifests' # <<>>
  BY <1>1, <1>3, <1>5, <1>6 DEF SameOperation, WriteManifest
<1>8. Listed(Newest') = Listed(Newest) /\ Newest'.backup = Newest.backup
      /\ Newest'.clients = Newest.clients
  BY <1>7, SameListed DEF SameOperation
<1>9. Whole(disk)
  BY <1>3, <1>4, SettledIsWhole DEF SavingInv
<1>10. Durable(disk, Newest', recovery')
  BY <1>2, <1>8, <1>9 DEF Durable, SavingInv, KeptFile
<1>11. QED
  BY <1>1, <1>2, <1>4, <1>7, <1>8, <1>10, SavingEnds

(* The registry write fails: the clients are rolled back, last one first.  *)
LEMMA SavingStarts ==
    ASSUME EarlyWrites, TypeInv, SafeInv, RecoveryInv, Recorded, NEW p \in Procs,
           SaveRegistry(p), ~Exit(p)
    PROVE  SavingInv' /\ Recorded'
<1> DEFINE m == job[p].mem
           created == NewManifest(m.clients, m.target, m.backup)
           started == [job[p] EXCEPT !.mem = created, !.saving = TRUE]
           next == RollBackFrom(started, Len(m.clients))
<1>1. /\ job[p].at = "save" /\ job[p].at \notin BeforeOperation
      /\ UNCHANGED <<disk, manifests, recovery>>
  BY DEF SaveRegistry, At, BeforeOperation
<1>2. /\ manifests # <<>> /\ m = Newest /\ recovery = NoRecord /\ Finalized(Newest)
      /\ \A f \in Files \ Listed(Newest) : KeptFile(disk, Newest, f)
      /\ Newest \in Manifest /\ Len(Newest.clients) \in Nat
      /\ Durable(disk, Newest, recovery) /\ job[p] \in Jobs
  BY <1>1, AtWork DEF Progress, Manifest
<1>3. Continue(p, next) /\ current' = current /\ RegistryFaults # {} /\ faults' = faults + 1
  BY SaveRegistryCases DEF Compensation
<1>4. created \in Manifest /\ SameOperation(created, Newest)
  BY <1>2, NewManifestType DEF NewManifest, SameOperation, Manifest
<1> HIDE DEF created
<1>5. started \in Jobs /\ started.mem = created /\ started.saving
  BY <1>2, <1>4 DEF Jobs
<1> HIDE DEF started
<1>6. /\ PutBackBehind(disk, Newest, Len(m.clients), started.failed)
      /\ Len(m.clients) \in 0 .. Len(Newest.clients) /\ Len(m.clients) = Len(Newest.clients)
  BY <1>2 DEF PutBackBehind
<1>7. SavingProgress(next, disk, Newest) /\ next.at # "flagClient"
  <2> HIDE DEF m
  <2>1. QED
    BY <1>2, <1>4, <1>5, <1>6, SavingRollBack
<1> HIDE DEF next, m
<1>8. Newest' = Newest
  BY <1>1 DEF Newest
<1>9. job'[p] = next /\ \A q \in Procs : q # p => ~job'[q].saving
  BY <1>1, <1>3, OthersIdle, JobsAfter
<1>10. faults' >= 1
  BY <1>3 DEF TypeInv, TypeOK
<1>11. Saves(p)'
  BY <1>1, <1>7, <1>8, <1>9, <1>10 DEF Saves
<1>12. SavingInv'
  BY <1>1, <1>2, <1>3, <1>8, <1>11 DEF SavingInv, Durable
<1>13. Unsettled'
  BY <1>11 DEF Saves, SavingProgress, Unsettled
<1>14. RecordedIn(Newest.backup)
  BY <1>1, <1>2, RecordedBackup DEF Unsettled
<1>15. Recorded'
  BY <1>1, <1>2, <1>3, <1>8, <1>13, <1>14 DEF Recorded, RecordedIn
<1>16. QED
  BY <1>12, <1>15

-----------------------------------------------------------------------------
(* The invariant is inductive.                                             *)

(* While the registry write is being compensated no other process moves.   *)
LEMMA SavingSteps ==
    ASSUME EarlyWrites, TypeInv, SafeInv, SavingInv, Recorded, [Next]_vars, Benign'
    PROVE  Recorded' /\ (RecoveryInv' \/ SavingInv')
<1>1. PICK p \in Procs : Saves(p)
  BY DEF SavingInv
<1>2. /\ job[p].at \in SavingLabels /\ job[p].at # "idle" /\ lock = p /\ lock # NoProc
      /\ \A q \in Procs : q # p => job[q].at = "idle"
  BY <1>1, SavingAtWork, ProcsAssumption DEF SafeInv, LockHeld
<1>3. CASE UNCHANGED vars
  BY <1>3 DEF vars, SavingInv, Saves, Recorded, RecordedIn, Unsettled, Newest
<1>4. ASSUME NEW q \in Procs, StartSwitch(q) \/ StartRecover(q) \/ Step(q) \/ Crash(q)
      PROVE  /\ q = p
             /\ \/ RollBackFile(p) \/ MarkRolledBack(p) \/ FlagClient(p)
                \/ ReportRecovery(p) \/ SettleRollBack(p)
  <2>1. ~StartSwitch(q) /\ ~StartRecover(q)
    BY <1>2 DEF StartSwitch, StartRecover, Start
  <2>2. ~Crash(q)
    BY DEF Crash, Benign, TypeInv, TypeOK
  <2>3. job[q].at # "idle"
    BY <1>4, <2>1, <2>2
    DEF Step, Gate, GateRecorded, GateIncomplete, GateClear, RequireRecovery, FlagFiles,
        FlagOperation, FlagRecord, Refuse, Prepare, Commit, CreateManifest, BeginCommit,
        CommitFile, UndoCommit, MarkCommitted, FinishCommit, SaveRegistry, RollBack,
        RollBackFile, MarkRolledBack, FlagClient, FlagFailed, ReportRecovery, SettleRollBack,
        RefuseRecover, AcceptRecover, Restore, RestoreFile, SettleFiles, SettleOperation,
        ClearRecord, At
  <2>4. q = p
    BY <1>2, <2>3
  <2>5. QED
    BY <1>2, <1>4, <2>1, <2>2, <2>4
    DEF Step, Gate, GateRecorded, GateIncomplete, GateClear, RequireRecovery, FlagFiles,
        FlagOperation, FlagRecord, Refuse, Prepare, Commit, CreateManifest, BeginCommit,
        CommitFile, UndoCommit, MarkCommitted, FinishCommit, SaveRegistry, RollBack,
        FlagFailed, RefuseRecover, AcceptRecover, Restore, RestoreFile, SettleFiles,
        SettleOperation, ClearRecord, At, SavingLabels
<1>5. ASSUME RollBackFile(p) \/ MarkRolledBack(p) \/ FlagClient(p)
                \/ ReportRecovery(p) \/ SettleRollBack(p)
      PROVE  Recorded' /\ (RecoveryInv' \/ SavingInv')
  <2>1. faults' <= 2
    BY DEF Benign, SavingInv
  <2>2. QED
    BY <1>1, <1>5, <2>1, SavingRollBackFile, SavingMarkRolledBack, SavingFlagClient,
       SavingReport, SavingSettles
<1>6. QED
  BY <1>3, <1>4, <1>5 DEF Next

(* Otherwise the registry write may fail; every other step keeps           *)
(* RecoveryInv.                                                            *)
LEMMA RecordedSteps ==
    ASSUME EarlyWrites, TypeInv, SafeInv, RecoveryInv, Recorded, [Next]_vars, Benign'
    PROVE  Recorded' /\ (RecoveryInv' \/ SavingInv')
<1>1. CASE \E p \in Procs : SaveRegistry(p) /\ ~Exit(p)
  BY <1>1, SavingStarts
<1>2. CASE \A p \in Procs : SaveRegistry(p) => Exit(p)
  <2>1. RecoveryInv'
    BY <1>2, RecoverySteps DEF EarlyWrites, CleanFiles
  <2>2. CASE UNCHANGED vars
    BY <2>1, <2>2 DEF vars, Recorded, RecordedIn, Unsettled, Newest
  <2>3. ASSUME NEW p \in Procs, StartSwitch(p) \/ StartRecover(p) \/ Step(p) \/ Crash(p)
        PROVE  Recorded'
    <3>1. CASE StartSwitch(p) \/ StartRecover(p)
      BY <3>1, StartRecorded DEF StartSwitch, StartRecover
    <3>2. CASE Gate(p) \/ Refuse(p) \/ Prepare(p)
      BY <3>2, GateRecordedIn
    <3>3. CASE CreateManifest(p)
      BY <3>3, CreateRecorded
    <3>4. CASE SaveRegistry(p)
      BY <1>2, <3>4, SaveRecorded
    <3>5. CASE \/ RequireRecovery(p) \/ RollBack(p) \/ RefuseRecover(p) \/ AcceptRecover(p)
               \/ Restore(p) \/ (Commit(p) /\ ~CreateManifest(p) /\ ~SaveRegistry(p))
      <4>1. Outcome(p)
        BY <1>2, <3>5, WorkOutcome DEF EarlyWrites, CleanFiles
      <4>2. Works(p)
        BY <3>5, RequireRecoveryWorks, RollBackWorks, RestoreWorks, CommitWorks DEF Commit
      <4>3. ~FlagClient(p)
        <5>1. FlagClient(p) => job[p].at = "flagClient" /\ job[p].at \notin BeforeOperation
          BY DEF FlagClient, At, BeforeOperation
        <5>2. QED
          BY <5>1, AtWork DEF Progress
      <4>4. CASE FinishCommit(p)
        BY <4>1, <4>2, <4>4, FinishRecorded
      <4>5. CASE SettleRollBack(p) \/ ClearRecord(p)
        BY <4>1, <4>5, SettleRecorded
      <4>6. CASE ~FinishCommit(p) /\ ~SettleRollBack(p) /\ ~ClearRecord(p)
        BY <3>5, <4>1, <4>2, <4>3, <4>6, StaysOpenRecorded
      <4>7. QED
        BY <4>4, <4>5, <4>6
    <3>6. ~Crash(p)
      BY DEF Crash, Benign, TypeInv, TypeOK
    <3>7. QED
      BY <2>3, <3>1, <3>2, <3>3, <3>4, <3>5, <3>6 DEF Step, Commit
  <2>4. QED
    BY <2>1, <2>2, <2>3 DEF Next
<1>3. QED
  BY <1>1, <1>2

(* A step counts at most one failure, which is within the bound, and none  *)
(* of them is a crash.                                                     *)
Counts == \E o : Count(o) /\ (o # "ok" => faults < MaxFaults)

LEMMA Counted ==
    ASSUME NEW p \in Procs, StartSwitch(p) \/ StartRecover(p) \/ Step(p)
    PROVE  (UNCHANGED faults \/ Counts) /\ UNCHANGED crashes
<1>1. CASE StartSwitch(p) \/ StartRecover(p)
  BY <1>1 DEF StartSwitch, StartRecover, Start
<1>2. CASE Gate(p) \/ Refuse(p) \/ Prepare(p)
  BY <1>2 DEF Gate, GateRecorded, GateIncomplete, GateClear, Refuse, Prepare
<1>3. CASE RequireRecovery(p)
  BY <1>3 DEF RequireRecovery, FlagFiles, FlagOperation, FlagRecord, StoreThen, Counts, Outcomes
<1>4. CASE RefuseRecover(p) \/ AcceptRecover(p) \/ Restore(p)
  BY <1>4 DEF RefuseRecover, AcceptRecover, Restore, RestoreFile, SettleFiles,
              SettleOperation, ClearRecord, StoreThen, Counts, Outcomes
<1>5. CASE Commit(p)
  BY <1>5 DEF Commit, CreateManifest, BeginCommit, CommitFile, UndoCommit, MarkCommitted,
              FinishCommit, SaveRegistry, StoreThen, Counts, Outcomes
<1>6. CASE RollBackFile(p) \/ MarkRolledBack(p)
  BY <1>6 DEF RollBackFile, MarkRolledBack, StoreThen, Counts, Outcomes
<1>7. CASE FlagClient(p) \/ FlagFailed(p)
  BY <1>7 DEF FlagClient, FlagFailed, StoreThen, Counts, Outcomes
<1>8. CASE ReportRecovery(p) \/ SettleRollBack(p)
  BY <1>8 DEF ReportRecovery, SettleRollBack, Counts, Outcomes
<1>9. QED
  BY <1>1, <1>2, <1>3, <1>4, <1>5, <1>6, <1>7, <1>8 DEF Step, RollBack

(* Failures and crashes are never forgotten.                               *)
LEMMA CountsGrow ==
    ASSUME TypeInv, [Next]_vars
    PROVE  faults <= faults' /\ crashes <= crashes'
<1>1. faults \in Nat /\ crashes \in Nat
  BY DEF TypeInv, TypeOK
<1>2. \/ (UNCHANGED faults \/ \E o : Count(o)) /\ UNCHANGED crashes
      \/ UNCHANGED faults /\ crashes' = crashes + 1
  BY Counted DEF Counts, Next, Crash, vars
<1>3. \A o : Count(o) => faults <= faults'
  BY <1>1 DEF Count
<1>4. QED
  BY <1>1, <1>2, <1>3

LEMMA BenignBefore ==
    ASSUME TypeInv, TypeInv', [Next]_vars, Benign'
    PROVE  Benign
<1>1. /\ faults \in Nat /\ crashes \in Nat /\ faults' \in Nat /\ crashes' \in Nat
      /\ faults <= faults' /\ crashes <= crashes'
  BY CountsGrow DEF TypeInv, TypeOK
<1>2. QED
  BY <1>1 DEF Benign

LEMMA InitRecorded == Init => Recorded
<1> SUFFICES ASSUME Init PROVE Recorded
  OBVIOUS
<1>1. PICK x \in Contents : disk = [f \in Files |-> x] /\ current = [c \in Clients |-> x]
  BY DEF Init
<1>2. manifests = <<>> /\ \A f \in Files : f[1] \in Clients
  BY DEF Init, Files
<1>3. QED
  BY <1>1, <1>2 DEF Recorded, RecordedIn

(* While nothing worse happened, the registry names what the clients held  *)
(* before the newest operation, or what they hold.                         *)
THEOREM AgreementInvariant ==
    ASSUME EarlyWrites
    PROVE  Spec => [](TypeInv /\ SafeInv /\ AgreementInv)
<1>1. Init => AgreementInv
  BY InitRecovers, InitRecorded DEF AgreementInv
<1>2. TypeInv /\ SafeInv /\ TypeInv' /\ AgreementInv /\ [Next]_vars => AgreementInv'
  <2> SUFFICES ASSUME TypeInv, SafeInv, TypeInv', AgreementInv, [Next]_vars, Benign'
               PROVE  Recorded' /\ (RecoveryInv' \/ SavingInv')
    BY DEF AgreementInv
  <2>1. Recorded /\ (RecoveryInv \/ SavingInv)
    BY BenignBefore DEF AgreementInv
  <2>2. QED
    BY <2>1, SavingSteps, RecordedSteps
<1>3. QED
  BY <1>1, <1>2, SafeInvariant, PTL DEF Spec

(* With no command running there is no compensation under way.             *)
LEMMA RestRecovered ==
    ASSUME TypeInv, SafeInv, AgreementInv, Benign, lock = NoProc
    PROVE  RecoveryInv /\ Recorded /\ \A p \in Procs : job[p].at = "idle" /\ ~job[p].saving
<1>1. \A p \in Procs : job[p].at = "idle"
  BY ProcsAssumption DEF SafeInv, LockHeld
<1>2. ~SavingInv
  BY <1>1 DEF SavingInv, Saves, SavingProgress, SavingLabels
<1>3. QED
  BY <1>1, <1>2 DEF AgreementInv, RecoveryInv, Progress

LEMMA NothingOpen ==
    ASSUME TypeInv, ~Owed, manifests # <<>>
    PROVE  ~Open(Newest, recovery)
<1>1. Len(manifests) \in 1 .. Len(manifests)
  BY DEF TypeInv, TypeOK
<1>2. QED
  BY <1>1 DEF Owed, Incomplete, Newest, Open

(* providers.json names, for every client, the Provider its files hold,    *)
(* whenever no command runs and nothing is owed: also after a registry     *)
(* write that failed and a failed write of its compensation.               *)
THEOREM RegistryAgreesHolds ==
    ASSUME EarlyWrites
    PROVE  Spec => [](Benign => RegistryAgrees)
<1>1. TypeInv /\ SafeInv /\ AgreementInv => (Benign => RegistryAgrees)
  <2> SUFFICES ASSUME TypeInv, SafeInv, AgreementInv, Benign, lock = NoProc, ~Owed
               PROVE  RecordedIn(disk)
    BY DEF RegistryAgrees, RecordedIn
  <2>1. Recorded /\ \A p \in Procs : job[p].at # "save" /\ ~job[p].saving
    BY RestRecovered
  <2>2. ~(manifests # <<>> /\ Unsettled)
    BY <2>1, NothingOpen DEF Unsettled
  <2>3. QED
    BY <2>1, <2>2 DEF Recorded
<1>2. QED
  BY <1>1, AgreementInvariant, PTL

(* TLC's bounds are bounds of the specification.                           *)
Within == faults <= MaxFaults /\ crashes <= MaxCrashes

LEMMA WithinBounds == Spec => []Within
<1>1. Init => Within
  BY BoundsAssumption DEF Init, Within
<1>2. TypeInv /\ Within /\ [Next]_vars => Within'
  <2> SUFFICES ASSUME TypeInv, faults <= MaxFaults, crashes <= MaxCrashes, [Next]_vars
               PROVE  faults' <= MaxFaults /\ crashes' <= MaxCrashes
    BY DEF Within
  <2>1. faults \in Nat /\ crashes \in Nat /\ MaxFaults \in Nat /\ MaxCrashes \in Nat
    BY BoundsAssumption DEF TypeInv, TypeOK
  <2>2. \/ (UNCHANGED faults \/ Counts) /\ UNCHANGED crashes
        \/ UNCHANGED faults /\ crashes' = crashes + 1 /\ crashes < MaxCrashes
    BY Counted DEF Next, Crash, vars
  <2>3. Counts => faults' <= MaxFaults
    BY <2>1 DEF Counts, Count
  <2>4. QED
    BY <2>1, <2>2, <2>3
<1>3. QED
  BY <1>1, <1>2, TypeInvariant, PTL DEF Spec

(* The same for every instance that is bounded so: however often the       *)
(* client and manifest writes fail where providers.json can be written,    *)
(* and for two failures where it cannot (the run switch_registry).         *)
THEOREM RegistryAgreesBounded ==
    ASSUME EarlyWrites, MaxCrashes = 0, RegistryFaults = {} \/ MaxFaults <= 2
    PROVE  Spec => []RegistryAgrees
<1>1. TypeInv /\ Within => Benign
  BY BoundsAssumption DEF TypeInv, TypeOK, Benign, Within
<1>2. QED
  BY <1>1, RegistryAgreesHolds, WithinBounds, TypeInvariant, PTL

(* Nor does such a failure leave a torn client behind that recovery would  *)
(* not repair.                                                             *)
THEOREM TornIsOwedWhenBenign ==
    ASSUME EarlyWrites
    PROVE  Spec => [](Benign => TornIsOwed)
<1>1. TypeInv /\ SafeInv /\ AgreementInv => (Benign => TornIsOwed)
  <2> SUFFICES ASSUME TypeInv, SafeInv, AgreementInv, Benign, lock = NoProc,
                      NEW c \in Clients, Torn(c), ~Owed
               PROVE  FALSE
    BY DEF TornIsOwed
  <2>1. RecoveryInv
    BY RestRecovered
  <2>2. ~Whole(disk)
    BY DEF Torn, Whole
  <2>3. manifests # <<>>
    BY <2>1, <2>2 DEF RecoveryInv
  <2>4. QED
    BY <2>1, <2>2, <2>3, NothingOpen DEF RecoveryInv, Durable
<1>2. QED
  BY <1>1, AgreementInvariant, PTL
===============================================================================
