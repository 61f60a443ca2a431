------------------------- MODULE SwitchRecovery_proofs -------------------------
(***************************************************************************)
(* What a switch that fails or is killed leaves on disk, proved with       *)
(* TLAPS: the operation it leaves behind tells the truth about the files,  *)
(* and seen through recovery a switch is atomic.                           *)
(*                                                                         *)
(* All of it needs two things the code takes for granted: a client file    *)
(* that could not be written is unchanged, and the registry write does not *)
(* fail after the operation is COMMITTED.  Without either the results are  *)
(* false, as the runs switch_late_fault and switch_committed_unsaved and   *)
(* the README show.                                                        *)
(***************************************************************************)
EXTENDS ProviderTransaction_proofs

CleanFiles == ClientFaults \subseteq {"early"}

CleanWrites == CleanFiles /\ RegistryFaults = {}

-----------------------------------------------------------------------------
(* The invariant.  It relates an image of the disk, the manifest m of the  *)
(* newest operation and recovery.json.                                     *)

Newest == manifests[Len(manifests)]

(* Recovery is still possible: the operation is not final, or recorded.    *)
Open(m, rec) == rec # NoRecord \/ ~Finalized(m)

(* The files of every client agree.                                        *)
Whole(image) == \A c \in Clients : \A f, g \in FilesOf(c) : image[f] = image[g]

Distinct(list) == \A i, k \in 1 .. Len(list) : list[i] = list[k] => i = k

KeptFile(image, m, f) == image[f] = m.backup[f]

Kept(image, m, c) == \A f \in FilesOf(c) : KeptFile(image, m, f)

Given(image, m, c) == \A f \in FilesOf(c) : image[f] = m.target

AllKept(image, m) == \A f \in Listed(m) : KeptFile(image, m, f)

AllGiven(image, m) == \A f \in Listed(m) : image[f] = m.target

(* What holds whether or not a process is at work, so also after a crash.  *)
(* While the operation is open the files it does not list are as it found  *)
(* them; once it is not, no client is torn.  When recovery.json stands,    *)
(* recover restores every file or need not.                                *)
Durable(image, m, rec) ==
    /\ Whole(m.backup)
    /\ Distinct(m.clients)
    /\ Open(m, rec) => \A f \in Files \ Listed(m) : KeptFile(image, m, f)
    /\ ~Open(m, rec) => Whole(image)
    /\ rec # NoRecord =>
          \A f \in Listed(m) : (Recoverable(m, f) /\ ~Finalized(m)) \/ KeptFile(image, m, f)

(* The clients behind position i were not touched, or put back, or are     *)
(* going to be flagged.                                                    *)
KeptBehind(image, m, i) == \A k \in i + 1 .. Len(m.clients) : Kept(image, m, m.clients[k])

KeptOrFailed(image, m, i, failed) ==
    \A k \in i + 1 .. Len(m.clients) :
        Kept(image, m, m.clients[k]) \/ m.clients[k] \in failed

(* The client's files up to the j-th.                                      *)
GivenUpTo(image, m, c, j) ==
    \A f \in FilesOf(c) : IF f[2] < j THEN image[f] = m.target ELSE KeptFile(image, m, f)

KeptUpTo(image, m, c, j) == \A f \in FilesOf(c) : f[2] < j => KeptFile(image, m, f)

(* The labels between the creation of an operation and its end, of those   *)
(* that commit and those that compensate.                                  *)
CommitLabels == {"begin", "commit", "undo", "mark", "finish"}

RollBackLabels == {"rollback", "markBack", "flagFailed", "settle"}

FlagLabels == {"flagFiles", "flagOperation", "flagRecord", "report"}

SettleLabels == {"settleFiles", "settleOperation", "clear"}

(* How far a process with the job jb has come.                             *)
Progress(jb, image, m, rec) ==
    /\ jb.at # "flagClient" /\ ~jb.saving
    /\ jb.at \in CommitLabels \cup RollBackLabels \cup FlagLabels =>
          rec = NoRecord /\ ~Finalized(m)
    /\ jb.at \in {"check", "restore"} \cup SettleLabels => rec # NoRecord
    /\ jb.at \in CommitLabels \cup FlagLabels \cup SettleLabels \cup {"check", "restore", "save"} =>
          jb.mem = m
    /\ jb.at \in RollBackLabels => SameOperation(jb.mem, m)
    /\ jb.at = "begin" => AllKept(image, m)
    /\ jb.at \in {"commit", "undo", "mark"} =>
          /\ \A k \in 1 .. jb.i - 1 : Given(image, m, m.clients[k])
          /\ KeptBehind(image, m, jb.i)
    /\ jb.at = "commit" =>
          /\ jb.j \in 1 .. NFiles[m.clients[jb.i]]
          /\ GivenUpTo(image, m, m.clients[jb.i], jb.j)
    /\ jb.at = "undo" =>
          \A f \in FilesOf(m.clients[jb.i]) : f[2] # 1 => KeptFile(image, m, f)
    /\ jb.at = "mark" => Given(image, m, m.clients[jb.i])
    /\ jb.at = "finish" => AllGiven(image, m)
    /\ jb.at = "save" =>
          /\ rec = NoRecord /\ Finalized(m) /\ AllGiven(image, m)
          /\ \A f \in Files \ Listed(m) : KeptFile(image, m, f)
    /\ jb.at = "rollback" =>
          /\ KeptOrFailed(image, m, jb.i, jb.failed)
          /\ KeptUpTo(image, m, m.clients[jb.i], jb.j)
    /\ jb.at = "markBack" =>
          KeptOrFailed(image, m, jb.i, jb.failed) /\ Kept(image, m, m.clients[jb.i])
    /\ jb.at = "settle" => AllKept(image, m)
    /\ jb.at = "flagFailed" =>
          \A f \in Listed(m) : \/ KeptFile(image, m, f)
                               \/ f[1] \in jb.failed
                               \/ jb.mem.files[f] = "RECOVERY_REQUIRED"
    /\ jb.at \in {"flagOperation", "flagRecord"} => \A f \in Listed(m) : Recoverable(m, f)
    /\ jb.at = "report" => \A f \in Listed(m) : Recoverable(m, f) \/ KeptFile(image, m, f)
    /\ jb.at = "restore" =>
          /\ jb.todo \subseteq Listed(m)
          /\ \A f \in Listed(m) : f \in jb.todo \/ KeptFile(image, m, f)
    /\ jb.at \in SettleLabels => AllKept(image, m)
    /\ jb.at = "create" =>
          /\ jb.mem.backup = image
          /\ Distinct(jb.mem.clients)
          /\ ~Finalized(jb.mem)

RecoveryInv ==
    /\ manifests = <<>> => Whole(disk)
    /\ manifests # <<>> => Durable(disk, Newest, recovery)
    /\ \A p \in Procs : Progress(job[p], disk, Newest, recovery)

-----------------------------------------------------------------------------
(* Files, images and manifests.                                            *)

LEMMA FilesOfClient ==
    ASSUME NEW c \in Clients
    PROVE  /\ NFiles[c] \in {1, 2}
           /\ \A f \in FilesOf(c) : f \in Files /\ f[1] = c /\ f[2] \in 1 .. NFiles[c]
           /\ \A f \in Files : f[1] = c => f \in FilesOf(c)
           /\ \A j \in 1 .. NFiles[c] : <<c, j>> \in FilesOf(c)
<1>1. NFiles[c] \in {1, 2}
  BY ClientFilesAssumption
<1>2. QED
  BY <1>1 DEF FilesOf, Files

LEMMA FirstFile ==
    ASSUME NEW c \in Clients
    PROVE  <<c, 1>> \in Files
<1>1. NFiles[c] \in {1, 2} /\ 1 \in 1 .. NFiles[c]
  BY ClientFilesAssumption
<1>2. QED
  BY <1>1 DEF Files

LEMMA FileOfClient ==
    ASSUME NEW c \in Clients, NEW f \in FilesOf(c)
    PROVE  f \in Files /\ f[2] \in Nat /\ f = <<c, f[2]>>
<1>1. f \in Files /\ f[1] = c /\ f[2] \in 1 .. NFiles[c] /\ NFiles[c] \in {1, 2}
  BY FilesOfClient
<1>2. f = <<f[1], f[2]>>
  BY DEF FilesOf
<1>3. f[2] \in Nat
  BY <1>1
<1>4. QED
  BY <1>1, <1>2, <1>3

LEMMA ListedFiles ==
    ASSUME NEW m \in Manifest
    PROVE  /\ \A k \in 1 .. Len(m.clients) : m.clients[k] \in Clients
           /\ \A k \in 1 .. Len(m.clients) : FilesOf(m.clients[k]) \subseteq Listed(m)
           /\ \A f \in Listed(m) : \E k \in 1 .. Len(m.clients) : f \in FilesOf(m.clients[k])
<1>1. m.clients \in Seq(Clients)
  BY DEF Manifest
<1>2. \A k \in 1 .. Len(m.clients) : m.clients[k] \in Clients
  BY <1>1
<1>3. QED
  BY <1>2, FilesOfClient DEF Listed, ClientSet, Files

(* An operation that was carried out or undone leaves no client torn.      *)
LEMMA SettledIsWhole ==
    ASSUME NEW m \in Manifest, NEW image, Whole(m.backup),
           \A f \in Files \ Listed(m) : KeptFile(image, m, f),
           AllKept(image, m) \/ AllGiven(image, m)
    PROVE  Whole(image)
<1>1. SUFFICES ASSUME NEW c \in Clients, NEW f \in FilesOf(c), NEW g \in FilesOf(c)
               PROVE  image[f] = image[g]
  BY DEF Whole
<1>2. /\ f \in Files /\ g \in Files /\ (f \in Listed(m) <=> g \in Listed(m))
      /\ m.backup[f] = m.backup[g]
  BY <1>1, FilesOfClient DEF Listed, Whole
<1>3. QED
  BY <1>2 DEF AllKept, AllGiven, KeptFile

LEMMA SameListed ==
    ASSUME NEW m, NEW n, SameOperation(m, n)
    PROVE  Listed(m) = Listed(n)
BY DEF SameOperation, Listed, ClientSet

(* What the updates of a manifest do to its state.                         *)
LEMMA UpdatesState ==
    ASSUME NEW m \in Manifest
    PROVE  /\ \A state : SetOperationState(m, state).state = state
           /\ \A state : SetOperationState(m, state).files = m.files
           /\ \A state : UpdateAllFileStates(m, state).state = m.state
           /\ \A state : \A f \in Listed(m) : UpdateAllFileStates(m, state).files[f] = state
           /\ \A c, state, opState : UpdateClientState(m, c, state, opState).state = opState
           /\ \A c, state, opState : \A f \in Files :
                 UpdateClientState(m, c, state, opState).files[f] =
                    IF f \in FilesOf(c) THEN state ELSE m.files[f]
BY DEF SetOperationState, UpdateAllFileStates, UpdateClientState, UpdateFileStates, Manifest,
       Listed

(* A manifest of an open operation may be replaced by another of it.       *)
LEMMA DurableUpdate ==
    ASSUME NEW image, NEW m, NEW n, Durable(image, m, NoRecord), ~Finalized(m),
           SameOperation(n, m), ~Finalized(n)
    PROVE  Durable(image, n, NoRecord)
BY SameListed DEF Durable, Open, SameOperation, KeptFile

(* A listed file may be written while the operation is open.               *)
LEMMA DurableWrite ==
    ASSUME NEW image, NEW m, NEW image2, Durable(image, m, NoRecord), ~Finalized(m),
           \A f \in Files \ Listed(m) : image2[f] = image[f]
    PROVE  Durable(image2, m, NoRecord)
BY DEF Durable, Open, KeptFile

(* The loop over the clients to roll back starts or goes on at k.          *)
LEMMA RollBackProgress ==
    ASSUME NEW m \in Manifest, NEW image, NEW next \in Jobs, SameOperation(next.mem, m),
           ~next.saving, ~Finalized(m), NEW k \in 0 .. Len(m.clients),
           KeptOrFailed(image, m, k, next.failed)
    PROVE  Progress(RollBackFrom(next, k), image, m, NoRecord)
<1> DEFINE result == RollBackFrom(next, k)
<1>1. Len(m.clients) \in Nat
  BY DEF Manifest
<1>2. CASE k > 0
  <2>1. result = [next EXCEPT !.at = "rollback", !.i = k, !.j = 1]
    BY <1>2 DEF RollBackFrom
  <2> HIDE DEF result
  <2>2. /\ result.at = "rollback" /\ result.i = k /\ result.j = 1
        /\ result.mem = next.mem /\ result.failed = next.failed /\ ~result.saving
    BY <2>1 DEF Jobs
  <2>3. KeptUpTo(image, m, m.clients[k], 1)
    <3>1. m.clients[k] \in Clients
      BY <1>1, <1>2, ListedFiles
    <3>2. QED
      BY <3>1, FilesOfClient DEF KeptUpTo, Files
  <2>4. QED
    BY <2>2, <2>3
    DEF result, Progress, CommitLabels, RollBackLabels, FlagLabels, SettleLabels
<1>3. CASE k = 0
  <2> DEFINE label == IF next.failed = {} THEN "settle" ELSE "flagFailed"
  <2>1. result = [next EXCEPT !.i = 0, !.j = 0, !.at = label]
    BY <1>3 DEF RollBackFrom
  <2> HIDE DEF result, label
  <2>2. /\ result.at = label /\ result.mem = next.mem /\ result.failed = next.failed
        /\ ~result.saving
    BY <2>1 DEF Jobs
  <2>3. \A f \in Listed(m) : KeptFile(image, m, f) \/ f[1] \in next.failed
    <3>1. SUFFICES ASSUME NEW f \in Listed(m)
                   PROVE  KeptFile(image, m, f) \/ f[1] \in next.failed
      OBVIOUS
    <3>2. PICK i \in 1 .. Len(m.clients) : f \in FilesOf(m.clients[i])
      BY ListedFiles
    <3>3. f[1] = m.clients[i]
      BY <3>2, FilesOfClient, ListedFiles
    <3>4. QED
      BY <1>1, <1>3, <3>2, <3>3 DEF KeptOrFailed, Kept
  <2>4. CASE next.failed = {}
    BY <2>2, <2>3, <2>4
    DEF label, AllKept, result, Progress, CommitLabels, RollBackLabels, FlagLabels, SettleLabels
  <2>5. CASE next.failed # {}
    BY <2>2, <2>3, <2>5
    DEF label, result, Progress, CommitLabels, RollBackLabels, FlagLabels, SettleLabels
  <2>6. QED
    BY <2>4, <2>5
<1>4. QED
  BY <1>2, <1>3

-----------------------------------------------------------------------------
(* What one step of a process that works on the newest operation does.     *)

(* The files and the manifest change together only as the atomic switch    *)
(* allows: a final state is written when it is true of the files, and an   *)
(* operation that is final is left alone.                                  *)
Effect(image, m, image2, m2) ==
    /\ SameOperation(m2, m)
    /\ \A f \in Files \ Listed(m) : image2[f] = image[f]
    /\ \/ ~Finalized(m) /\ ~Finalized(m2)
       \/ Finalized(m) /\ Finalized(m2) /\ image2 = image
       \/ /\ ~Finalized(m) /\ image2 = image
          /\ \/ m2.state = "COMMITTED" /\ AllGiven(image, m)
             \/ m2.state = "ROLLED_BACK" /\ AllKept(image, m)

Outcome(p) ==
    /\ Durable(disk', Newest', recovery')
    /\ Effect(disk, Newest, disk', Newest')
    /\ \/ Exit(p)
       \/ \E next \in Jobs : Continue(p, next) /\ Progress(next, disk', Newest', recovery')

(* What is known of a process at work.                                     *)
LEMMA AtWork ==
    ASSUME TypeInv, SafeInv, RecoveryInv, NEW p \in Procs, job[p].at \notin BeforeOperation
    PROVE  /\ job[p] \in Jobs /\ job[p].mem \in Manifest
           /\ manifests # <<>> /\ manifests \in Seq(Manifest)
           /\ job[p].op = Len(manifests) /\ Len(manifests) \in 1 .. Len(manifests)
           /\ Newest \in Manifest /\ disk \in Images
           /\ Durable(disk, Newest, recovery)
           /\ Progress(job[p], disk, Newest, recovery)
<1>1. /\ job[p] \in Jobs /\ job[p].mem \in Manifest
      /\ job[p].op \in 1 .. Len(manifests) /\ job[p].op = Len(manifests)
  BY JobFacts DEF SafeInv, OnNewest
<1>2. manifests \in Seq(Manifest) /\ disk \in Images
  BY DEF TypeInv, TypeOK
<1>3. manifests # <<>> /\ Newest \in Manifest
  BY <1>1, <1>2 DEF Newest
<1>4. QED
  BY <1>1, <1>2, <1>3 DEF RecoveryInv

LEMMA WrittenNewest ==
    ASSUME manifests \in Seq(Manifest), NEW op, op = Len(manifests),
           op \in 1 .. Len(manifests), NEW m \in Manifest, NEW o, WriteManifest(op, m, o)
    PROVE  Newest' = IF Takes(o) THEN m ELSE Newest
<1>1. CASE Takes(o)
  <2>1. manifests' = [manifests EXCEPT ![op] = m]
    BY <1>1 DEF WriteManifest
  <2>2. Len(manifests') = Len(manifests) /\ manifests'[op] = m
    BY <2>1
  <2>3. QED
    BY <1>1, <2>2 DEF Newest
<1>2. CASE ~Takes(o)
  BY <1>2 DEF WriteManifest, Newest
<1>3. QED
  BY <1>1, <1>2

(* An operation that is left as it was.                                    *)
LEMMA NoEffect ==
    ASSUME NEW image, NEW m
    PROVE  Effect(image, m, image, m)
BY DEF Effect, SameOperation

(* A write of the manifest, which fails as the action says.                *)
LEMMA StoreOutcome ==
    ASSUME TypeInv, SafeInv, RecoveryInv, NEW p \in Procs, job[p].at \notin BeforeOperation,
           NEW m \in Manifest, NEW o, NEW next \in Jobs,
           WriteManifest(job[p].op, m, o), UNCHANGED <<disk, recovery>>,
           Durable(disk, m, recovery), Effect(disk, Newest, disk, m),
           o = "ok" => Continue(p, [next EXCEPT !.mem = m]),
           o # "ok" => \/ Exit(p)
                       \/ \E jb \in Jobs : /\ Continue(p, jb)
                                          /\ Progress(jb, disk, m, recovery)
                                          /\ Progress(jb, disk, Newest, recovery),
           Progress([next EXCEPT !.mem = m], disk, m, recovery)
    PROVE  Outcome(p)
<1>1. Newest' = IF Takes(o) THEN m ELSE Newest
  BY AtWork, WrittenNewest
<1>2. disk' = disk /\ recovery' = recovery
  OBVIOUS
<1>3. Durable(disk', Newest', recovery') /\ Effect(disk, Newest, disk', Newest')
  BY <1>1, <1>2, AtWork, NoEffect
<1>4. CASE o = "ok"
  <2>1. [next EXCEPT !.mem = m] \in Jobs
    BY DEF Jobs
  <2>2. Newest' = m
    BY <1>1, <1>4 DEF Takes
  <2>3. QED
    BY <1>2, <1>3, <1>4, <2>1, <2>2 DEF Outcome
<1>5. CASE o # "ok"
  BY <1>1, <1>2, <1>3, <1>5 DEF Outcome
<1>6. QED
  BY <1>4, <1>5

(* A step that writes no manifest and goes on or ends.                     *)
LEMMA QuietOutcome ==
    ASSUME TypeInv, SafeInv, RecoveryInv, NEW p \in Procs, job[p].at \notin BeforeOperation,
           UNCHANGED <<disk, manifests>>, Durable(disk, Newest, recovery'),
           \/ Exit(p)
           \/ \E jb \in Jobs : Continue(p, jb) /\ Progress(jb, disk, Newest, recovery')
    PROVE  Outcome(p)
<1>1. Newest' = Newest /\ disk' = disk
  BY DEF Newest
<1>2. QED
  BY <1>1, NoEffect DEF Outcome

-----------------------------------------------------------------------------
(* require_recovery.                                                       *)

LEMMA FlagFilesOutcome ==
    ASSUME TypeInv, SafeInv, RecoveryInv, NEW p \in Procs, FlagFiles(p)
    PROVE  Outcome(p)
<1> DEFINE m == UpdateAllFileStates(job[p].mem, "RECOVERY_REQUIRED")
           next == [job[p] EXCEPT !.at = "flagOperation"]
           new == [next EXCEPT !.mem = m]
<1>1. PICK o \in Outcomes(StoreFaults) : StoreThen(p, m, o, next, Exit(p))
  BY DEF FlagFiles
<1>2. job[p].at = "flagFiles" /\ job[p].at \notin BeforeOperation
  BY DEF FlagFiles, At, BeforeOperation
<1>3. /\ job[p].mem = Newest /\ recovery = NoRecord /\ ~Finalized(Newest) /\ ~job[p].saving
  BY <1>2, AtWork DEF Progress, FlagLabels
<1>4. m \in Manifest /\ SameOperation(m, Newest) /\ m.state = Newest.state
  BY <1>2, <1>3, AtWork, UpdateAllFileStatesType, UpdatesKeepOperation, UpdatesState
  DEF FileStates
<1>5. \A f \in Listed(Newest) : m.files[f] = "RECOVERY_REQUIRED"
  BY <1>2, <1>3, AtWork, UpdatesState
<1>6. next \in Jobs
  BY GotoType DEF Labels
<1>7. new.at = "flagOperation" /\ new.mem = m /\ ~new.saving
  BY <1>2, <1>3, AtWork DEF Jobs
<1> HIDE DEF m, next, new
<1>8. ~Finalized(m) /\ Listed(m) = Listed(Newest)
  BY <1>3, <1>4, SameListed DEF Finalized
<1>9. Durable(disk, m, recovery) /\ Effect(disk, Newest, disk, m)
  BY <1>2, <1>3, <1>4, <1>8, AtWork, DurableUpdate DEF Effect
<1>10. Progress(new, disk, m, recovery)
  BY <1>3, <1>5, <1>7, <1>8
  DEF Progress, CommitLabels, RollBackLabels, FlagLabels, SettleLabels, Recoverable
<1>11. QED
  BY <1>1, <1>2, <1>4, <1>6, <1>9, <1>10, StoreOutcome DEF FlagFiles, StoreThen, new

LEMMA FlagOperationOutcome ==
    ASSUME TypeInv, SafeInv, RecoveryInv, NEW p \in Procs, FlagOperation(p)
    PROVE  Outcome(p)
<1> DEFINE m == SetOperationState(job[p].mem, "RECOVERY_REQUIRED")
           next == [job[p] EXCEPT !.at = "flagRecord"]
           new == [next EXCEPT !.mem = m]
<1>1. PICK o \in Outcomes(StoreFaults) : StoreThen(p, m, o, next, Exit(p))
  BY DEF FlagOperation
<1>2. job[p].at = "flagOperation" /\ job[p].at \notin BeforeOperation
  BY DEF FlagOperation, At, BeforeOperation
<1>3. /\ job[p].mem = Newest /\ recovery = NoRecord /\ ~Finalized(Newest) /\ ~job[p].saving
      /\ \A f \in Listed(Newest) : Recoverable(Newest, f)
  BY <1>2, AtWork DEF Progress, FlagLabels
<1>4. /\ m \in Manifest /\ SameOperation(m, Newest)
      /\ m.state = "RECOVERY_REQUIRED" /\ m.files = Newest.files
  BY <1>2, <1>3, AtWork, SetOperationStateType, UpdatesKeepOperation, UpdatesState
  DEF OperationStates
<1>5. next \in Jobs
  BY GotoType DEF Labels
<1>6. new.at = "flagRecord" /\ new.mem = m /\ ~new.saving
  BY <1>2, <1>3, AtWork DEF Jobs
<1> HIDE DEF m, next, new
<1>7. ~Finalized(m) /\ Listed(m) = Listed(Newest)
  BY <1>4, SameListed DEF Finalized
<1>8. Durable(disk, m, recovery) /\ Effect(disk, Newest, disk, m)
  BY <1>2, <1>3, <1>4, <1>7, AtWork, DurableUpdate DEF Effect
<1>9. Progress(new, disk, m, recovery)
  BY <1>3, <1>4, <1>6, <1>7
  DEF Progress, CommitLabels, RollBackLabels, FlagLabels, SettleLabels, Recoverable
<1>10. QED
  BY <1>1, <1>2, <1>4, <1>5, <1>8, <1>9, StoreOutcome DEF FlagOperation, StoreThen, new

(* The record of an open operation all of whose files are flagged, or kept *)
(* as they were found.                                                     *)
LEMMA DurableRecord ==
    ASSUME NEW image, NEW m, NEW rec, Durable(image, m, NoRecord), ~Finalized(m),
           \A f \in Listed(m) : Recoverable(m, f) \/ KeptFile(image, m, f)
    PROVE  Durable(image, m, rec)
BY DEF Durable, Open

LEMMA FlagRecordOutcome ==
    ASSUME TypeInv, SafeInv, RecoveryInv, NEW p \in Procs, FlagRecord(p)
    PROVE  Outcome(p)
<1> DEFINE next == [job[p] EXCEPT !.at = "check"]
<1>1. PICK o \in Outcomes(StoreFaults) :
         /\ recovery' = IF Takes(o) THEN job[p].op ELSE recovery
         /\ IF o = "ok" /\ job[p].cmd = "recover" THEN Goto(p, "check") ELSE Exit(p)
  BY DEF FlagRecord
<1>2. job[p].at = "flagRecord" /\ job[p].at \notin BeforeOperation
  BY DEF FlagRecord, At, BeforeOperation
<1>3. /\ job[p].mem = Newest /\ recovery = NoRecord /\ ~Finalized(Newest) /\ ~job[p].saving
      /\ \A f \in Listed(Newest) : Recoverable(Newest, f)
  BY <1>2, AtWork DEF Progress, FlagLabels
<1>4. Durable(disk, Newest, recovery')
  BY <1>2, <1>3, AtWork, DurableRecord
<1>5. next \in Jobs
  BY GotoType DEF Labels
<1>6. next.at = "check" /\ next.mem = Newest /\ ~next.saving
  BY <1>2, <1>3, AtWork DEF Jobs
<1> HIDE DEF next
<1>7. CASE Exit(p)
  BY <1>2, <1>4, <1>7, QuietOutcome DEF FlagRecord
<1>8. CASE o = "ok" /\ Continue(p, next)
  <2>1. recovery' # NoRecord
    BY <1>1, <1>2, <1>8, AtWork DEF Takes, NoRecord
  <2>2. Progress(next, disk, Newest, recovery')
    BY <1>6, <2>1 DEF Progress, CommitLabels, RollBackLabels, FlagLabels, SettleLabels
  <2>3. QED
    BY <1>2, <1>4, <1>5, <1>8, <2>2, QuietOutcome DEF FlagRecord
<1>9. QED
  BY <1>1, <1>7, <1>8 DEF Goto, next

-----------------------------------------------------------------------------
(* commit_all.                                                             *)

LEMMA BeginCommitOutcome ==
    ASSUME TypeInv, SafeInv, RecoveryInv, NEW p \in Procs, BeginCommit(p)
    PROVE  Outcome(p)
<1> DEFINE m == SetOperationState(job[p].mem, "COMMITTING")
           next == [job[p] EXCEPT !.at = "commit", !.i = 1, !.j = 1]
           new == [next EXCEPT !.mem = m]
<1>1. PICK o \in Outcomes(StoreFaults) : StoreThen(p, m, o, next, Exit(p))
  BY DEF BeginCommit
<1>2. job[p].at = "begin" /\ job[p].at \notin BeforeOperation
  BY DEF BeginCommit, At, BeforeOperation
<1>3. /\ job[p].mem = Newest /\ recovery = NoRecord /\ ~Finalized(Newest) /\ ~job[p].saving
      /\ AllKept(disk, Newest)
  BY <1>2, AtWork DEF Progress, CommitLabels
<1>4. m \in Manifest /\ SameOperation(m, Newest) /\ m.state = "COMMITTING"
  BY <1>2, <1>3, AtWork, SetOperationStateType, UpdatesKeepOperation, UpdatesState
  DEF OperationStates
<1>5. "commit" \in Labels
  BY DEF Labels
<1>6. /\ next \in Jobs /\ new.at = "commit" /\ new.mem = m /\ ~new.saving
      /\ new.i = 1 /\ new.j = 1
  BY <1>2, <1>3, <1>5, AtWork DEF Jobs
<1>7. 1 \in 1 .. Len(Newest.clients)
  BY <1>2, <1>3 DEF TypeInv, InRange, ListLabels
<1> HIDE DEF m, next, new
<1>8. ~Finalized(m) /\ Listed(m) = Listed(Newest)
  BY <1>4, SameListed DEF Finalized
<1>9. Durable(disk, m, recovery) /\ Effect(disk, Newest, disk, m)
  BY <1>2, <1>3, <1>4, <1>8, AtWork, DurableUpdate DEF Effect
<1>10. /\ \A k \in 1 .. Len(m.clients) : Kept(disk, m, m.clients[k])
       /\ m.clients[1] \in Clients
  BY <1>2, <1>3, <1>4, <1>7, AtWork, ListedFiles DEF AllKept, Kept, KeptFile, SameOperation
<1>11. GivenUpTo(disk, m, m.clients[1], 1) /\ 1 \in 1 .. NFiles[m.clients[1]]
  BY <1>4, <1>7, <1>10, FilesOfClient DEF GivenUpTo, Kept, SameOperation
<1>12. KeptBehind(disk, m, 1)
  BY <1>10 DEF KeptBehind
<1>13. Progress(new, disk, m, recovery)
  BY <1>3, <1>6, <1>8, <1>11, <1>12
  DEF Progress, CommitLabels, RollBackLabels, FlagLabels, SettleLabels
<1>14. QED
  BY <1>1, <1>2, <1>4, <1>6, <1>9, <1>13, StoreOutcome DEF BeginCommit, StoreThen, new

(* A client file that could not be written is as it was.                   *)
LEMMA FileWritten ==
    ASSUME CleanFiles, TypeInv, NEW f, NEW x, NEW o \in Outcomes(ClientFaults),
           WriteFile(f, x, o)
    PROVE  /\ o = "ok" => \A g \in Files : disk'[g] = IF g = f THEN x ELSE disk[g]
           /\ o # "ok" => disk' = disk
<1>1. Takes(o) <=> o = "ok"
  BY DEF Takes, Outcomes, CleanFiles
<1>2. disk \in [Files -> Contents]
  BY DEF TypeInv, TypeOK, Images
<1>3. QED
  BY <1>1, <1>2 DEF WriteFile

LEMMA FileOutcome ==
    ASSUME TypeInv, SafeInv, RecoveryInv, NEW p \in Procs, job[p].at \notin BeforeOperation,
           UNCHANGED <<manifests, recovery>>,
           recovery = NoRecord, ~Finalized(Newest),
           \A f \in Files \ Listed(Newest) : disk'[f] = disk[f],
           \/ Exit(p)
           \/ \E jb \in Jobs : Continue(p, jb) /\ Progress(jb, disk', Newest, NoRecord)
    PROVE  Outcome(p)
<1>1. Newest' = Newest /\ recovery' = NoRecord
  BY DEF Newest
<1>2. Durable(disk', Newest, NoRecord) /\ Effect(disk, Newest, disk', Newest)
  BY AtWork, DurableWrite DEF Effect, SameOperation
<1>3. QED
  BY <1>1, <1>2 DEF Outcome

(* The client a process works on while it commits or compensates.          *)
LEMMA ClientAtWork ==
    ASSUME TypeInv, SafeInv, RecoveryInv, NEW p \in Procs,
           job[p].at \in {"commit", "undo", "mark", "rollback", "markBack"}
    PROVE  /\ job[p].at \notin BeforeOperation /\ job[p].at \in ClientLabels
           /\ recovery = NoRecord /\ ~Finalized(Newest) /\ ~job[p].saving
           /\ SameOperation(job[p].mem, Newest)
           /\ job[p].i \in 1 .. Len(Newest.clients) /\ Len(Newest.clients) \in Nat
           /\ job[p].i - 1 \in 0 .. Len(Newest.clients)
           /\ Client(p) = Newest.clients[job[p].i] /\ Client(p) \in Clients
           /\ \A f \in FilesOf(Client(p)) : f \in Listed(Newest)
<1>1. job[p].at \notin BeforeOperation /\ job[p].at \in ClientLabels
  BY DEF BeforeOperation, ClientLabels
<1>2. /\ recovery = NoRecord /\ ~Finalized(Newest) /\ ~job[p].saving
      /\ SameOperation(job[p].mem, Newest)
  BY <1>1, AtWork DEF Progress, CommitLabels, RollBackLabels, SameOperation
<1>3. Newest \in Manifest /\ Len(Newest.clients) \in Nat
  BY <1>1, AtWork DEF Manifest
<1>4. /\ job[p].i \in 1 .. Len(Newest.clients) /\ Client(p) = Newest.clients[job[p].i]
      /\ Client(p) \in Clients /\ job[p].i \in Nat
  BY <1>1, <1>2, JobFacts DEF SameOperation, Client
<1>5. QED
  BY <1>1, <1>2, <1>3, <1>4, ListedFiles

(* Compensation starts, or goes on with the next client.                   *)
LEMMA RollBackGoesOn ==
    ASSUME TypeInv, SafeInv, RecoveryInv, NEW p \in Procs,
           job[p].at \in {"commit", "undo", "mark", "rollback", "markBack"},
           NEW next \in Jobs, next.mem = job[p].mem, next.op = job[p].op, ~next.saving,
           NEW k \in {job[p].i - 1, job[p].i},
           NEW image, KeptOrFailed(image, Newest, k, next.failed)
    PROVE  /\ RollBackFrom(next, k) \in Jobs
           /\ Progress(RollBackFrom(next, k), image, Newest, NoRecord)
<1>1. job[p].at \notin BeforeOperation /\ job[p].at \in ClientLabels
  BY ClientAtWork
<1>2. /\ Newest \in Manifest /\ ~Finalized(Newest) /\ SameOperation(next.mem, Newest)
      /\ k \in 0 .. Len(Newest.clients)
  BY <1>1, ClientAtWork, AtWork
<1>3. QED
  BY <1>1, <1>2, RollBackStarts, RollBackProgress

LEMMA CommitFileOutcome ==
    ASSUME CleanFiles, TypeInv, SafeInv, RecoveryInv, NEW p \in Procs, CommitFile(p)
    PROVE  Outcome(p)
<1> DEFINE M == Newest
           i == job[p].i
           j == job[p].j
           c == Client(p)
           nextFile == [job[p] EXCEPT !.j = @ + 1]
           mark == [job[p] EXCEPT !.at = "mark"]
           undo == [job[p] EXCEPT !.at = "undo"]
<1>1. job[p].at = "commit"
  BY DEF CommitFile, At
<1>2. /\ job[p].at \notin BeforeOperation /\ job[p] \in Jobs
      /\ recovery = NoRecord /\ ~Finalized(M) /\ ~job[p].saving
      /\ i \in 1 .. Len(M.clients) /\ Len(M.clients) \in Nat
      /\ c = M.clients[i] /\ c \in Clients
      /\ M \in Manifest /\ Distinct(M.clients)
  BY <1>1, ClientAtWork, AtWork DEF Durable
<1>3. /\ job[p].mem = M /\ \A k \in 1 .. i - 1 : Given(disk, M, M.clients[k])
      /\ KeptBehind(disk, M, i) /\ j \in 1 .. NFiles[c] /\ GivenUpTo(disk, M, c, j)
  BY <1>1, <1>2, AtWork DEF Progress, CommitLabels
<1>4. PICK o \in Outcomes(ClientFaults) :
         /\ WriteFile(<<c, j>>, M.target, o)
         /\ IF o # "ok"
            THEN IF j = 1 THEN Continue(p, RollBackFrom(job[p], i - 1)) ELSE Continue(p, undo)
            ELSE IF j < NFiles[c] THEN Continue(p, nextFile) ELSE Continue(p, mark)
  BY <1>3 DEF CommitFile, Goto
<1>5. nextFile \in Jobs /\ mark \in Jobs /\ undo \in Jobs
  <2>1. mark \in Jobs /\ undo \in Jobs
    BY GotoType DEF Labels
  <2>2. nextFile \in Jobs
    BY <1>2 DEF Jobs
  <2>3. QED
    BY <2>1, <2>2
<1>6. /\ nextFile.at = "commit" /\ nextFile.mem = M /\ ~nextFile.saving
      /\ nextFile.i = i /\ nextFile.j = j + 1
      /\ mark.at = "mark" /\ mark.mem = M /\ ~mark.saving /\ mark.i = i
      /\ undo.at = "undo" /\ undo.mem = M /\ ~undo.saving /\ undo.i = i
  BY <1>1, <1>2, <1>3 DEF Jobs
<1> HIDE DEF nextFile, mark, undo
<1>7. \A k \in 1 .. Len(M.clients) : k # i => <<c, j>> \notin FilesOf(M.clients[k])
  <2>1. SUFFICES ASSUME NEW k \in 1 .. Len(M.clients), k # i,
                        <<c, j>> \in FilesOf(M.clients[k])
                 PROVE  FALSE
    OBVIOUS
  <2>2. M.clients[k] \in Clients
    BY <1>2, ListedFiles
  <2>3. c = M.clients[k]
    BY <2>1, <2>2, FilesOfClient
  <2>4. QED
    BY <1>2, <2>1, <2>3 DEF Distinct
<1>8. \A k \in 1 .. Len(M.clients) : FilesOf(M.clients[k]) \subseteq Files
  BY <1>2, ListedFiles DEF Listed
<1>9. CASE o = "ok"
  <2>1. \A g \in Files : disk'[g] = IF g = <<c, j>> THEN M.target ELSE disk[g]
    BY <1>4, <1>9, FileWritten
  <2>2. \A f \in Files \ Listed(M) : disk'[f] = disk[f]
    BY <1>2, <1>3, <2>1, FilesOfClient, ListedFiles
  <2>3. \A k \in 1 .. i - 1 : Given(disk', M, M.clients[k])
    BY <1>2, <1>3, <1>7, <1>8, <2>1 DEF Given
  <2>4. KeptBehind(disk', M, i)
    <3>1. SUFFICES ASSUME NEW k \in i + 1 .. Len(M.clients), NEW f \in FilesOf(M.clients[k])
                   PROVE  KeptFile(disk', M, f)
      BY DEF KeptBehind, Kept
    <3>2. k \in 1 .. Len(M.clients) /\ k # i
      BY <1>2
    <3>3. f \in Files /\ f # <<c, j>>
      BY <1>7, <1>8, <3>2
    <3>4. KeptFile(disk, M, f)
      BY <1>3 DEF KeptBehind, Kept
    <3>5. QED
      BY <2>1, <3>3, <3>4 DEF KeptFile
  <2>5. GivenUpTo(disk', M, c, j + 1)
    <3>1. SUFFICES ASSUME NEW f \in FilesOf(c)
                   PROVE  IF f[2] < j + 1 THEN disk'[f] = M.target ELSE KeptFile(disk', M, f)
      BY DEF GivenUpTo
    <3>2. f \in Files /\ f[2] \in Nat /\ j \in Nat /\ (f = <<c, j>> <=> f[2] = j)
      <4>1. j \in Nat
        BY <1>2, <1>3, FilesOfClient
      <4>2. f \in Files /\ f[2] \in Nat /\ f = <<c, f[2]>>
        BY <1>2, FileOfClient
      <4>3. QED
        BY <4>1, <4>2
    <3>3. IF f[2] < j THEN disk[f] = M.target ELSE KeptFile(disk, M, f)
      BY <1>3 DEF GivenUpTo
    <3>4. QED
      BY <2>1, <3>2, <3>3 DEF KeptFile
  <2>6. CASE j < NFiles[c]
    <3>1. j + 1 \in 1 .. NFiles[c]
      BY <1>2, <1>3, <2>6, FilesOfClient
    <3>2. Progress(nextFile, disk', M, NoRecord)
      BY <1>2, <1>6, <2>3, <2>4, <2>5, <3>1
      DEF Progress, CommitLabels, RollBackLabels, FlagLabels, SettleLabels
    <3>3. QED
      BY <1>2, <1>4, <1>5, <1>9, <2>2, <2>6, <3>2, FileOutcome DEF CommitFile
  <2>7. CASE ~(j < NFiles[c])
    <3>1. Given(disk', M, c)
      <4>1. c \in Clients /\ j \in 1 .. NFiles[c]
        BY <1>2, <1>3, FilesOfClient
      <4>2. \A f \in FilesOf(c) : f[2] < j + 1
        BY <2>7, <4>1, FilesOfClient
      <4>3. QED
        BY <2>5, <4>2 DEF GivenUpTo, Given
    <3>2. Progress(mark, disk', M, NoRecord)
      BY <1>2, <1>6, <2>3, <2>4, <3>1
      DEF Progress, CommitLabels, RollBackLabels, FlagLabels, SettleLabels
    <3>3. QED
      BY <1>2, <1>4, <1>5, <1>9, <2>2, <2>7, <3>2, FileOutcome DEF CommitFile
  <2>8. QED
    BY <2>6, <2>7
<1>10. CASE o # "ok"
  <2>1. disk' = disk
    BY <1>4, <1>10, FileWritten
  <2>2. CASE j = 1
    <3>1. Kept(disk, M, c)
      BY <1>2, <1>3, <2>2, FilesOfClient DEF GivenUpTo, Kept
    <3>2. KeptOrFailed(disk, M, i - 1, job[p].failed)
      BY <1>2, <1>3, <3>1 DEF KeptOrFailed, KeptBehind
    <3>3. /\ RollBackFrom(job[p], i - 1) \in Jobs
          /\ Progress(RollBackFrom(job[p], i - 1), disk, M, NoRecord)
      BY <1>1, <1>2, <3>2, RollBackGoesOn
    <3>4. QED
      BY <1>2, <1>4, <1>10, <2>1, <2>2, <3>3, FileOutcome DEF CommitFile
  <2>3. CASE j # 1
    <3>1. \A f \in FilesOf(c) : f[2] # 1 => KeptFile(disk, M, f)
      BY <1>2, <1>3, <2>3, FilesOfClient DEF GivenUpTo
    <3>2. Progress(undo, disk, M, NoRecord)
      BY <1>2, <1>3, <1>6, <3>1
      DEF Progress, CommitLabels, RollBackLabels, FlagLabels, SettleLabels
    <3>3. QED
      BY <1>2, <1>4, <1>5, <1>10, <2>1, <2>3, <3>2, FileOutcome DEF CommitFile
  <2>4. QED
    BY <2>2, <2>3
<1>11. QED
  BY <1>9, <1>10

LEMMA UndoCommitOutcome ==
    ASSUME CleanFiles, TypeInv, SafeInv, RecoveryInv, NEW p \in Procs, UndoCommit(p)
    PROVE  Outcome(p)
<1> DEFINE M == Newest
           i == job[p].i
           c == Client(p)
           flagged == [job[p] EXCEPT !.failed = {Client(p)}]
           next(o) == IF o = "ok" THEN job[p] ELSE flagged
<1>1. job[p].at = "undo"
  BY DEF UndoCommit, At
<1>2. /\ job[p].at \notin BeforeOperation /\ job[p] \in Jobs
      /\ recovery = NoRecord /\ ~Finalized(M) /\ ~job[p].saving
      /\ i \in 1 .. Len(M.clients) /\ Len(M.clients) \in Nat
      /\ c = M.clients[i] /\ c \in Clients /\ M \in Manifest
  BY <1>1, ClientAtWork, AtWork
<1>3. /\ job[p].mem = M /\ KeptBehind(disk, M, i)
      /\ \A f \in FilesOf(c) : f[2] # 1 => KeptFile(disk, M, f)
  BY <1>1, <1>2, AtWork DEF Progress, CommitLabels
<1>4. PICK o \in Outcomes(ClientFaults) :
         /\ WriteFile(<<c, 1>>, M.backup[<<c, 1>>], o)
         /\ Continue(p, RollBackFrom(next(o), i - 1))
  BY <1>3 DEF UndoCommit
<1>5. /\ flagged \in Jobs /\ flagged.failed = {c} /\ flagged.mem = job[p].mem
      /\ flagged.op = job[p].op /\ ~flagged.saving
  BY <1>2 DEF Jobs
<1> HIDE DEF flagged
<1>6. \A f \in Files \ Listed(M) : disk'[f] = disk[f]
  BY <1>2, <1>4, FilesOfClient, ListedFiles, FileWritten
<1>7. \A f \in Files : KeptFile(disk, M, f) => KeptFile(disk', M, f)
  BY <1>4, FileWritten DEF KeptFile
<1>8. \A k \in 1 .. Len(M.clients) : FilesOf(M.clients[k]) \subseteq Files
  BY <1>2, ListedFiles DEF Listed
<1>9. KeptBehind(disk', M, i)
  BY <1>2, <1>3, <1>7, <1>8 DEF KeptBehind, Kept
<1>10. o = "ok" => Kept(disk', M, c)
  <2>1. SUFFICES ASSUME o = "ok", NEW f \in FilesOf(c) PROVE KeptFile(disk', M, f)
    BY DEF Kept
  <2>2. f \in Files /\ f = <<c, f[2]>>
    BY <1>2, FileOfClient
  <2>3. CASE f[2] = 1
    BY <1>4, <2>1, <2>2, <2>3, FileWritten DEF KeptFile
  <2>4. CASE f[2] # 1
    BY <1>3, <1>7, <2>2, <2>4
  <2>5. QED
    BY <2>3, <2>4
<1>11. KeptOrFailed(disk', M, i - 1, next(o).failed)
  <2>1. o # "ok" => c \in next(o).failed
    BY <1>5
  <2>2. QED
    BY <1>2, <1>9, <1>10, <2>1 DEF KeptOrFailed, KeptBehind
<1>12. /\ next(o) \in Jobs /\ next(o).mem = job[p].mem /\ next(o).op = job[p].op
       /\ ~next(o).saving
  BY <1>2, <1>5
<1> HIDE DEF next
<1>13. /\ RollBackFrom(next(o), i - 1) \in Jobs
       /\ Progress(RollBackFrom(next(o), i - 1), disk', M, NoRecord)
  BY <1>1, <1>11, <1>12, RollBackGoesOn
<1>14. QED
  BY <1>2, <1>4, <1>6, <1>13, FileOutcome DEF UndoCommit

(* The manifest written while a transaction goes on is one of an operation *)
(* that stays open.                                                        *)
LEMMA OpenUpdate ==
    ASSUME TypeInv, SafeInv, RecoveryInv, NEW p \in Procs, job[p].at \notin BeforeOperation,
           recovery = NoRecord, ~Finalized(Newest), NEW m,
           SameOperation(m, Newest), ~Finalized(m)
    PROVE  /\ Durable(disk, m, recovery)
           /\ Effect(disk, Newest, disk, m)
BY AtWork, DurableUpdate DEF Effect

LEMMA MarkCommittedOutcome ==
    ASSUME TypeInv, SafeInv, RecoveryInv, NEW p \in Procs, MarkCommitted(p)
    PROVE  Outcome(p)
<1> DEFINE M == Newest
           i == job[p].i
           c == Client(p)
           m == UpdateClientState(job[p].mem, c, "MODIFIED", "COMMITTING")
           more == [job[p] EXCEPT !.at = "commit", !.i = @ + 1, !.j = 1]
           done == [job[p] EXCEPT !.at = "finish", !.i = 0, !.j = 0]
           next == IF i < Len(job[p].mem.clients) THEN more ELSE done
           new == [next EXCEPT !.mem = m]
           failed == RollBackFrom(job[p], i)
<1>1. PICK o \in Outcomes(StoreFaults) : StoreThen(p, m, o, next, Continue(p, failed))
  BY DEF MarkCommitted
<1>2. job[p].at = "mark"
  BY DEF MarkCommitted, At
<1>3. /\ job[p].at \notin BeforeOperation /\ job[p] \in Jobs
      /\ recovery = NoRecord /\ ~Finalized(M) /\ ~job[p].saving
      /\ i \in 1 .. Len(M.clients) /\ Len(M.clients) \in Nat
      /\ c = M.clients[i] /\ c \in Clients /\ M \in Manifest
  BY <1>2, ClientAtWork, AtWork
<1>4. /\ job[p].mem = M /\ KeptBehind(disk, M, i) /\ Given(disk, M, c)
      /\ \A k \in 1 .. i - 1 : Given(disk, M, M.clients[k])
  BY <1>2, <1>3, AtWork DEF Progress, CommitLabels
<1>5. m \in Manifest /\ SameOperation(m, M) /\ m.state = "COMMITTING"
  BY <1>3, <1>4, UpdateClientStateType, UpdatesKeepOperation, UpdatesState
  DEF OperationStates, FileStates
<1>6. more \in Jobs /\ done \in Jobs
  <2> DEFINE k == i + 1
  <2>1. k \in Nat /\ "commit" \in Labels /\ "finish" \in Labels
    BY <1>3 DEF Labels
  <2>2. more = [job[p] EXCEPT !.at = "commit", !.i = k, !.j = 1]
    BY <1>3 DEF Jobs
  <2> HIDE DEF k, more
  <2>3. QED
    BY <1>3, <2>1, <2>2 DEF Jobs
<1>7. /\ i < Len(M.clients) => new.at = "commit" /\ new.i = i + 1 /\ new.j = 1
      /\ ~(i < Len(M.clients)) => new.at = "finish"
      /\ new.mem = m /\ ~new.saving
  BY <1>2, <1>3, <1>4 DEF Jobs
<1>8. next \in Jobs
  BY <1>6
<1> HIDE DEF m, more, done, next, new, failed
<1>9. ~Finalized(m) /\ Listed(m) = Listed(M)
  BY <1>5, SameListed DEF Finalized
<1>10. Durable(disk, m, recovery) /\ Effect(disk, M, disk, m)
  BY <1>3, <1>5, <1>9, OpenUpdate
<1>11. /\ \A k \in 1 .. i : Given(disk, m, m.clients[k])
       /\ KeptBehind(disk, m, i) /\ m.clients = M.clients
  BY <1>3, <1>4, <1>5 DEF SameOperation, Given, KeptBehind, Kept, KeptFile
<1>12. Progress(new, disk, m, recovery)
  <2>1. CASE i < Len(M.clients)
    <3>1. M.clients[i + 1] \in Clients
      BY <1>3, <2>1, ListedFiles
    <3>2. Kept(disk, m, m.clients[i + 1]) /\ KeptBehind(disk, m, i + 1)
      <4>1. i + 1 \in i + 1 .. Len(m.clients) /\ i \in Nat
        BY <1>3, <1>11, <2>1
      <4>2. \A k \in (i + 1) + 1 .. Len(m.clients) : k \in i + 1 .. Len(m.clients)
        BY <1>3, <1>11, <4>1
      <4>3. QED
        BY <1>11, <4>1, <4>2 DEF KeptBehind
    <3>3. GivenUpTo(disk, m, m.clients[i + 1], 1) /\ 1 \in 1 .. NFiles[m.clients[i + 1]]
      BY <1>11, <3>1, <3>2, FilesOfClient DEF GivenUpTo, Kept
    <3>4. \A k \in 1 .. (i + 1) - 1 : Given(disk, m, m.clients[k])
      BY <1>3, <1>11
    <3>5. QED
      BY <1>3, <1>7, <1>9, <2>1, <3>2, <3>3, <3>4
      DEF Progress, CommitLabels, RollBackLabels, FlagLabels, SettleLabels
  <2>2. CASE ~(i < Len(M.clients))
    <3>1. AllGiven(disk, m)
      <4>1. SUFFICES ASSUME NEW f \in Listed(m) PROVE disk[f] = m.target
        BY DEF AllGiven
      <4>2. PICK k \in 1 .. Len(m.clients) : f \in FilesOf(m.clients[k])
        BY <1>5, ListedFiles
      <4>3. QED
        BY <1>3, <1>11, <2>2, <4>2 DEF Given
    <3>2. QED
      BY <1>3, <1>7, <1>9, <2>2, <3>1
      DEF Progress, CommitLabels, RollBackLabels, FlagLabels, SettleLabels
  <2>3. QED
    BY <2>1, <2>2
<1>13. /\ failed \in Jobs
       /\ Progress(failed, disk, M, recovery) /\ Progress(failed, disk, m, recovery)
  <2>1. KeptOrFailed(disk, M, i, job[p].failed)
    BY <1>4 DEF KeptOrFailed, KeptBehind
  <2>2. failed \in Jobs /\ Progress(failed, disk, M, NoRecord)
    BY <1>2, <1>3, <2>1, RollBackGoesOn DEF failed
  <2>3. KeptOrFailed(disk, m, i, job[p].failed)
    BY <1>11 DEF KeptOrFailed, KeptBehind
  <2>4. /\ SameOperation(job[p].mem, m) /\ i \in 0 .. Len(m.clients)
    BY <1>3, <1>4, <1>5, <1>11 DEF SameOperation
  <2>5. Progress(failed, disk, m, NoRecord)
    BY <1>3, <1>5, <1>9, <2>3, <2>4, RollBackProgress DEF failed
  <2>6. QED
    BY <1>3, <2>2, <2>5
<1>14. QED
  BY <1>1, <1>3, <1>5, <1>8, <1>10, <1>12, <1>13, StoreOutcome
  DEF MarkCommitted, StoreThen, new

(* The operation ends: no client is torn.                                  *)
LEMMA DurableFinal ==
    ASSUME NEW image, NEW m \in Manifest, NEW n, Durable(image, m, NoRecord), ~Finalized(m),
           SameOperation(n, m), Finalized(n), AllKept(image, m) \/ AllGiven(image, m)
    PROVE  Durable(image, n, NoRecord)
<1>1. Whole(image)
  BY SettledIsWhole DEF Durable, Open
<1>2. QED
  BY <1>1 DEF Durable, Open, SameOperation

LEMMA FinishCommitOutcome ==
    ASSUME TypeInv, SafeInv, RecoveryInv, NEW p \in Procs, FinishCommit(p)
    PROVE  Outcome(p)
<1> DEFINE m == SetOperationState(job[p].mem, "COMMITTED")
           next == [job[p] EXCEPT !.at = "save"]
           new == [next EXCEPT !.mem = m]
<1>1. PICK o \in Outcomes(StoreFaults) : StoreThen(p, m, o, next, Exit(p))
  BY DEF FinishCommit
<1>2. job[p].at = "finish" /\ job[p].at \notin BeforeOperation
  BY DEF FinishCommit, At, BeforeOperation
<1>3. /\ job[p].mem = Newest /\ recovery = NoRecord /\ ~Finalized(Newest) /\ ~job[p].saving
      /\ AllGiven(disk, Newest)
  BY <1>2, AtWork DEF Progress, CommitLabels
<1>4. m \in Manifest /\ SameOperation(m, Newest) /\ m.state = "COMMITTED"
  BY <1>2, <1>3, AtWork, SetOperationStateType, UpdatesKeepOperation, UpdatesState
  DEF OperationStates
<1>5. next \in Jobs
  BY GotoType DEF Labels
<1>6. new.at = "save" /\ new.mem = m /\ ~new.saving
  BY <1>2, <1>3, AtWork DEF Jobs
<1> HIDE DEF m, next, new
<1>7. Finalized(m)
  BY <1>4 DEF Finalized
<1>8. Durable(disk, m, recovery) /\ Effect(disk, Newest, disk, m)
  BY <1>2, <1>3, <1>4, <1>7, AtWork, DurableFinal DEF Effect
<1>9. AllGiven(disk, m) /\ \A f \in Files \ Listed(m) : KeptFile(disk, m, f)
  <2>1. Durable(disk, Newest, recovery) /\ Open(Newest, recovery)
    BY <1>2, <1>3, AtWork DEF Open
  <2>2. Listed(m) = Listed(Newest)
    BY <1>4, SameListed
  <2>3. QED
    BY <1>3, <1>4, <2>1, <2>2 DEF Durable, AllGiven, KeptFile, SameOperation
<1>10. Progress(new, disk, m, recovery)
  BY <1>3, <1>6, <1>7, <1>9
  DEF Progress, CommitLabels, RollBackLabels, FlagLabels, SettleLabels
<1>11. QED
  BY <1>1, <1>2, <1>4, <1>5, <1>8, <1>10, StoreOutcome DEF FinishCommit, StoreThen, new

(* The registry write that succeeds ends the command.                      *)
LEMMA SaveRegistryOutcome ==
    ASSUME TypeInv, SafeInv, RecoveryInv, NEW p \in Procs, SaveRegistry(p), Exit(p)
    PROVE  Outcome(p)
<1>1. job[p].at \notin BeforeOperation
  BY DEF SaveRegistry, At, BeforeOperation
<1>2. QED
  BY <1>1, AtWork, QuietOutcome DEF SaveRegistry

LEMMA RegistryWritten ==
    ASSUME RegistryFaults = {}, NEW p \in Procs, SaveRegistry(p)
    PROVE  Exit(p)
<1>1. \A o \in Outcomes(RegistryFaults) : o = "ok"
  BY DEF Outcomes
<1>2. QED
  BY <1>1 DEF SaveRegistry

-----------------------------------------------------------------------------
(* The compensation.                                                       *)

(* A client that could not be rolled back is to be flagged.                *)
LEMMA RollBackFailedGoesOnWith ==
    ASSUME TypeInv, SafeInv, RecoveryInv, NEW p \in Procs,
           job[p].at \in {"rollback", "markBack"}, RollBackFailed(p), NEW m \in Manifest,
           SameOperation(m, Newest), ~Finalized(m),
           NEW image, KeptOrFailed(image, Newest, job[p].i, job[p].failed)
    PROVE  \E next \in Jobs : /\ Continue(p, next)
                              /\ Progress(next, image, Newest, NoRecord)
                              /\ Progress(next, image, m, NoRecord)
<1> DEFINE M == Newest
           i == job[p].i
           c == Client(p)
           flagged == [job[p] EXCEPT !.failed = @ \cup {c}]
           next == RollBackFrom(flagged, i - 1)
<1>1. /\ job[p].at \notin BeforeOperation /\ job[p] \in Jobs
      /\ ~Finalized(M) /\ ~job[p].saving /\ SameOperation(job[p].mem, M)
      /\ i \in 1 .. Len(M.clients) /\ Len(M.clients) \in Nat
      /\ i - 1 \in 0 .. Len(M.clients)
      /\ c = M.clients[i] /\ c \in Clients /\ M \in Manifest
  BY ClientAtWork, AtWork
<1>2. /\ flagged \in Jobs /\ flagged.failed = job[p].failed \cup {c}
      /\ flagged.mem = job[p].mem /\ flagged.op = job[p].op /\ ~flagged.saving
  BY <1>1 DEF Jobs
<1>3. Continue(p, next)
  BY <1>1 DEF RollBackFailed
<1> HIDE DEF flagged
<1>4. KeptOrFailed(image, M, i - 1, flagged.failed)
  <2>1. SUFFICES ASSUME NEW k \in (i - 1) + 1 .. Len(M.clients)
                 PROVE  Kept(image, M, M.clients[k]) \/ M.clients[k] \in flagged.failed
    BY DEF KeptOrFailed
  <2>2. \A n \in (i - 1) + 1 .. Len(M.clients) : n = i \/ n \in i + 1 .. Len(M.clients)
    BY <1>1
  <2>3. QED
    BY <1>1, <1>2, <2>2 DEF KeptOrFailed
<1>5. next \in Jobs /\ Progress(next, image, M, NoRecord)
  BY <1>2, <1>4, RollBackGoesOn
<1>6. /\ KeptOrFailed(image, m, i - 1, flagged.failed) /\ i - 1 \in 0 .. Len(m.clients)
      /\ SameOperation(flagged.mem, m)
  BY <1>1, <1>2, <1>4 DEF SameOperation, KeptOrFailed, Kept, KeptFile
<1>7. Progress(next, image, m, NoRecord)
  BY <1>2, <1>6, RollBackProgress
<1>8. QED
  BY <1>3, <1>5, <1>7

LEMMA RollBackFileOutcome ==
    ASSUME CleanFiles, TypeInv, SafeInv, RecoveryInv, NEW p \in Procs, RollBackFile(p)
    PROVE  Outcome(p)
<1> DEFINE M == Newest
           i == job[p].i
           j == job[p].j
           c == Client(p)
           nextFile == [job[p] EXCEPT !.j = @ + 1]
           marking == [job[p] EXCEPT !.at = "markBack"]
<1>1. job[p].at = "rollback"
  BY DEF RollBackFile, At
<1>2. /\ job[p].at \notin BeforeOperation /\ job[p] \in Jobs /\ j \in Nat
      /\ recovery = NoRecord /\ ~Finalized(M) /\ ~job[p].saving
      /\ SameOperation(job[p].mem, M)
      /\ i \in 1 .. Len(M.clients) /\ Len(M.clients) \in Nat
      /\ c = M.clients[i] /\ c \in Clients /\ M \in Manifest
  BY <1>1, ClientAtWork, AtWork, JobFacts
<1>3. KeptOrFailed(disk, M, i, job[p].failed) /\ KeptUpTo(disk, M, c, j)
  BY <1>1, <1>2, AtWork DEF Progress
<1>4. PICK o \in Outcomes(ClientFaults) :
         /\ WriteFile(<<c, j>>, job[p].mem.backup[<<c, j>>], o)
         /\ IF o # "ok" THEN RollBackFailed(p)
            ELSE IF j < NFiles[c] THEN Continue(p, nextFile) ELSE Continue(p, marking)
  BY DEF RollBackFile, Goto
<1>5. WriteFile(<<c, j>>, M.backup[<<c, j>>], o)
  BY <1>2, <1>4 DEF SameOperation
<1>6. /\ nextFile \in Jobs /\ nextFile.at = "rollback" /\ nextFile.mem = job[p].mem
      /\ ~nextFile.saving /\ nextFile.i = i /\ nextFile.j = j + 1
      /\ nextFile.failed = job[p].failed
  BY <1>1, <1>2 DEF Jobs
<1>7. marking \in Jobs
  BY GotoType DEF Labels
<1>8. /\ marking.at = "markBack" /\ marking.mem = job[p].mem
      /\ ~marking.saving /\ marking.i = i /\ marking.failed = job[p].failed
  BY <1>1, <1>2 DEF Jobs
<1> HIDE DEF nextFile, marking
<1>9. \A k \in 1 .. Len(M.clients) : FilesOf(M.clients[k]) \subseteq Files
  BY <1>2, ListedFiles DEF Listed
<1>10. CASE o = "ok"
  <2>1. \A g \in Files : disk'[g] = IF g = <<c, j>> THEN M.backup[<<c, j>>] ELSE disk[g]
    BY <1>5, <1>10, FileWritten
  <2>2. \A f \in Files \ Listed(M) : disk'[f] = disk[f]
    <3>1. SUFFICES ASSUME NEW f \in Files, f = <<c, j>> PROVE f \in Listed(M)
      BY <2>1
    <3>2. f[1] = c
      BY <3>1
    <3>3. QED
      BY <1>2, <3>1, <3>2, FilesOfClient, ListedFiles
  <2>3. \A f \in Files : KeptFile(disk, M, f) => KeptFile(disk', M, f)
    BY <2>1 DEF KeptFile
  <2>4. KeptOrFailed(disk', M, i, job[p].failed)
    BY <1>2, <1>3, <1>9, <2>3 DEF KeptOrFailed, Kept
  <2>5. KeptUpTo(disk', M, c, j + 1)
    <3>1. SUFFICES ASSUME NEW f \in FilesOf(c), f[2] < j + 1 PROVE KeptFile(disk', M, f)
      BY DEF KeptUpTo
    <3>2. f \in Files /\ f[2] \in Nat /\ f = <<c, f[2]>>
      BY <1>2, FileOfClient
    <3>3. CASE f[2] = j
      BY <2>1, <3>2, <3>3 DEF KeptFile
    <3>4. CASE f[2] # j
      BY <1>2, <1>3, <2>3, <3>1, <3>2, <3>4 DEF KeptUpTo
    <3>5. QED
      BY <3>3, <3>4
  <2>6. CASE j < NFiles[c]
    <3>1. Progress(nextFile, disk', M, NoRecord)
      BY <1>2, <1>6, <2>4, <2>5
      DEF Progress, CommitLabels, RollBackLabels, FlagLabels, SettleLabels
    <3>2. QED
      BY <1>2, <1>4, <1>6, <1>10, <2>2, <2>6, <3>1, FileOutcome DEF RollBackFile
  <2>7. CASE ~(j < NFiles[c])
    <3>1. Kept(disk', M, c)
      BY <1>2, <2>5, <2>7, FilesOfClient DEF KeptUpTo, Kept
    <3>2. Progress(marking, disk', M, NoRecord)
      BY <1>2, <1>8, <2>4, <3>1
      DEF Progress, CommitLabels, RollBackLabels, FlagLabels, SettleLabels
    <3>3. QED
      BY <1>2, <1>4, <1>7, <1>10, <2>2, <2>7, <3>2, FileOutcome DEF RollBackFile
  <2>8. QED
    BY <2>6, <2>7
<1>11. CASE o # "ok"
  <2>1. disk' = disk
    BY <1>5, <1>11, FileWritten
  <2>2. \E next \in Jobs : Continue(p, next) /\ Progress(next, disk, M, NoRecord)
    BY <1>1, <1>2, <1>3, <1>4, <1>11, RollBackFailedGoesOnWith DEF SameOperation
  <2>3. QED
    BY <1>2, <2>1, <2>2, FileOutcome DEF RollBackFile
<1>12. QED
  BY <1>10, <1>11

LEMMA MarkRolledBackOutcome ==
    ASSUME TypeInv, SafeInv, RecoveryInv, NEW p \in Procs, MarkRolledBack(p)
    PROVE  Outcome(p)
<1> DEFINE M == Newest
           i == job[p].i
           c == Client(p)
           m == UpdateClientState(job[p].mem, c, "ROLLED_BACK", "ROLLING_BACK")
           next == RollBackFrom(job[p], i - 1)
           started == [job[p] EXCEPT !.mem = m]
           new == [next EXCEPT !.mem = m]
<1>1. PICK o \in Outcomes(StoreFaults) : StoreThen(p, m, o, next, RollBackFailed(p))
  BY DEF MarkRolledBack
<1>2. job[p].at = "markBack"
  BY DEF MarkRolledBack, At
<1>3. /\ job[p].at \notin BeforeOperation /\ job[p] \in Jobs /\ job[p].mem \in Manifest
      /\ recovery = NoRecord /\ ~Finalized(M) /\ ~job[p].saving
      /\ SameOperation(job[p].mem, M)
      /\ i \in 1 .. Len(M.clients) /\ Len(M.clients) \in Nat
      /\ i - 1 \in 0 .. Len(M.clients)
      /\ c = M.clients[i] /\ c \in Clients /\ M \in Manifest
  BY <1>2, ClientAtWork, AtWork
<1>4. KeptOrFailed(disk, M, i, job[p].failed) /\ Kept(disk, M, c)
  BY <1>2, <1>3, AtWork DEF Progress
<1>5. m \in Manifest /\ SameOperation(m, M) /\ m.state = "ROLLING_BACK"
  BY <1>3, UpdateClientStateType, UpdatesKeepOperation, UpdatesState
  DEF OperationStates, FileStates, SameOperation
<1> HIDE DEF m
<1>6. ~Finalized(m)
  BY <1>5 DEF Finalized
<1>7. Durable(disk, m, recovery) /\ Effect(disk, M, disk, m)
  BY <1>3, <1>5, <1>6, OpenUpdate
<1>8. KeptOrFailed(disk, M, i - 1, job[p].failed)
  <2>1. \A k \in (i - 1) + 1 .. Len(M.clients) : k = i \/ k \in i + 1 .. Len(M.clients)
    BY <1>3
  <2>2. QED
    BY <1>3, <1>4, <2>1 DEF KeptOrFailed
<1>9. next \in Jobs
  BY <1>2, <1>3, <1>8, RollBackGoesOn
<1>10. new = RollBackFrom(started, i - 1)
  BY <1>3, RollBackFromMem
<1>11. /\ started \in Jobs /\ started.mem = m /\ ~started.saving
       /\ started.failed = job[p].failed
  BY <1>3, <1>5 DEF Jobs
<1> HIDE DEF started, next, new
<1>12. /\ KeptOrFailed(disk, m, i - 1, started.failed) /\ i - 1 \in 0 .. Len(m.clients)
       /\ SameOperation(started.mem, m)
  BY <1>3, <1>5, <1>8, <1>11 DEF SameOperation, KeptOrFailed, Kept, KeptFile
<1>13. Progress(new, disk, m, recovery)
  BY <1>3, <1>5, <1>6, <1>10, <1>11, <1>12, RollBackProgress
<1>14. RollBackFailed(p) => \E jb \in Jobs : /\ Continue(p, jb)
                                              /\ Progress(jb, disk, m, recovery)
                                              /\ Progress(jb, disk, M, recovery)
  BY <1>2, <1>3, <1>4, <1>5, <1>6, RollBackFailedGoesOnWith
<1>15. QED
  BY <1>1, <1>3, <1>5, <1>7, <1>9, <1>13, <1>14, StoreOutcome
  DEF MarkRolledBack, StoreThen, new

LEMMA FlagFailedOutcome ==
    ASSUME TypeInv, SafeInv, RecoveryInv, NEW p \in Procs, FlagFailed(p)
    PROVE  Outcome(p)
<1>1. PICK c \in job[p].failed, o \in Outcomes(StoreFaults) :
         StoreThen(p, UpdateClientState(job[p].mem, c, "RECOVERY_REQUIRED", "RECOVERY_REQUIRED"),
                   o, [job[p] EXCEPT !.failed = @ \ {c},
                                     !.at = IF job[p].failed = {c} THEN "report" ELSE @],
                   Exit(p))
  BY DEF FlagFailed
<1> DEFINE M == Newest
           m == UpdateClientState(job[p].mem, c, "RECOVERY_REQUIRED", "RECOVERY_REQUIRED")
           label == IF job[p].failed = {c} THEN "report" ELSE "flagFailed"
           next == [job[p] EXCEPT !.failed = @ \ {c},
                                  !.at = IF job[p].failed = {c} THEN "report" ELSE @]
           new == [next EXCEPT !.mem = m]
<1>2. StoreThen(p, m, o, next, Exit(p))
  BY <1>1
<1>3. job[p].at = "flagFailed" /\ job[p].at \notin BeforeOperation
  BY DEF FlagFailed, At, BeforeOperation
<1>4. /\ recovery = NoRecord /\ ~Finalized(M) /\ ~job[p].saving
      /\ SameOperation(job[p].mem, M)
      /\ \A f \in Listed(M) : \/ KeptFile(disk, M, f)
                               \/ f[1] \in job[p].failed
                               \/ job[p].mem.files[f] = "RECOVERY_REQUIRED"
  BY <1>3, AtWork DEF Progress, RollBackLabels
<1>5. job[p] \in Jobs /\ job[p].mem \in Manifest /\ c \in Clients
  BY <1>1, JobFacts
<1>6. m \in Manifest /\ SameOperation(m, M) /\ m.state = "RECOVERY_REQUIRED"
  BY <1>4, <1>5, UpdateClientStateType, UpdatesKeepOperation, UpdatesState
  DEF OperationStates, FileStates, SameOperation
<1>7. \A f \in Files : m.files[f] = IF f \in FilesOf(c) THEN "RECOVERY_REQUIRED"
                                     ELSE job[p].mem.files[f]
  BY <1>5, UpdatesState
<1>8. label \in Labels
  BY DEF Labels
<1>9. next = [job[p] EXCEPT !.failed = @ \ {c}, !.at = label]
  BY <1>3, <1>5 DEF Jobs
<1> HIDE DEF m, next, label
<1>10. next \in Jobs /\ next.at = label /\ next.failed = job[p].failed \ {c} /\ ~next.saving
  BY <1>4, <1>5, <1>8, <1>9 DEF Jobs
<1>11. /\ new.at = label /\ new.mem = m /\ new.failed = job[p].failed \ {c}
       /\ ~new.saving
  BY <1>10 DEF Jobs
<1> HIDE DEF new
<1>12. ~Finalized(m) /\ Listed(m) = Listed(M)
  BY <1>6, SameListed DEF Finalized
<1>13. Durable(disk, m, recovery) /\ Effect(disk, M, disk, m)
  BY <1>3, <1>4, <1>6, <1>12, OpenUpdate
<1>14. \A f \in Listed(m) : \/ KeptFile(disk, m, f)
                            \/ f[1] \in job[p].failed \ {c}
                            \/ m.files[f] = "RECOVERY_REQUIRED"
  <2>1. SUFFICES ASSUME NEW f \in Listed(m), ~KeptFile(disk, m, f),
                        f[1] \notin job[p].failed \ {c}
                 PROVE  m.files[f] = "RECOVERY_REQUIRED"
    OBVIOUS
  <2>2. f \in Files
    BY DEF Listed
  <2>3. ~KeptFile(disk, M, f)
    BY <1>6, <2>1 DEF KeptFile, SameOperation
  <2>4. f[1] = c \/ job[p].mem.files[f] = "RECOVERY_REQUIRED"
    BY <1>4, <1>12, <2>1, <2>3
  <2>5. QED
    BY <1>5, <1>7, <2>2, <2>4, FilesOfClient
<1>15. Progress(new, disk, m, recovery)
  BY <1>4, <1>6, <1>11, <1>12, <1>14
  DEF Progress, CommitLabels, RollBackLabels, FlagLabels, SettleLabels, Recoverable,
      SameOperation, label
<1>16. QED
  BY <1>2, <1>3, <1>6, <1>10, <1>13, <1>15, StoreOutcome DEF FlagFailed, StoreThen, new

LEMMA ReportOutcome ==
    ASSUME TypeInv, SafeInv, RecoveryInv, NEW p \in Procs, ReportRecovery(p)
    PROVE  Outcome(p)
<1>1. job[p].at = "report" /\ job[p].at \notin BeforeOperation
  BY DEF ReportRecovery, At, BeforeOperation
<1>2. /\ recovery = NoRecord /\ ~Finalized(Newest)
      /\ \A f \in Listed(Newest) : Recoverable(Newest, f) \/ KeptFile(disk, Newest, f)
  BY <1>1, AtWork DEF Progress, FlagLabels
<1>3. Durable(disk, Newest, recovery')
  BY <1>1, <1>2, AtWork, DurableRecord
<1>4. QED
  BY <1>1, <1>3, QuietOutcome DEF ReportRecovery

LEMMA SettleRollBackOutcome ==
    ASSUME TypeInv, SafeInv, RecoveryInv, NEW p \in Procs, SettleRollBack(p)
    PROVE  Outcome(p)
<1> DEFINE m == SetOperationState(job[p].mem, "ROLLED_BACK")
<1>1. PICK o \in Outcomes(StoreFaults) : WriteManifest(job[p].op, m, o) /\ Exit(p)
  BY DEF SettleRollBack
<1>2. job[p].at = "settle" /\ job[p].at \notin BeforeOperation
  BY DEF SettleRollBack, At, BeforeOperation
<1>3. /\ SameOperation(job[p].mem, Newest) /\ recovery = NoRecord /\ ~Finalized(Newest)
      /\ AllKept(disk, Newest)
  BY <1>2, AtWork DEF Progress, RollBackLabels
<1>4. m \in Manifest /\ SameOperation(m, Newest) /\ m.state = "ROLLED_BACK"
  BY <1>2, <1>3, AtWork, SetOperationStateType, UpdatesKeepOperation, UpdatesState
  DEF OperationStates, SameOperation
<1> HIDE DEF m
<1>5. Finalized(m)
  BY <1>4 DEF Finalized
<1>6. Durable(disk, m, recovery) /\ Effect(disk, Newest, disk, m)
  BY <1>2, <1>3, <1>4, <1>5, AtWork, DurableFinal DEF Effect
<1>7. Newest' = IF Takes(o) THEN m ELSE Newest
  BY <1>1, <1>2, <1>4, AtWork, WrittenNewest
<1>8. disk' = disk /\ recovery' = recovery
  BY DEF SettleRollBack
<1>9. Durable(disk', Newest', recovery') /\ Effect(disk, Newest, disk', Newest')
  BY <1>2, <1>6, <1>7, <1>8, AtWork, NoEffect
<1>10. QED
  BY <1>1, <1>9 DEF Outcome

-----------------------------------------------------------------------------
(* recover.                                                                *)

(* What is known of a process that restores or settles a recorded          *)
(* operation.                                                              *)
LEMMA RecoverAtWork ==
    ASSUME TypeInv, SafeInv, RecoveryInv, NEW p \in Procs,
           job[p].at \in {"check", "restore"} \cup SettleLabels
    PROVE  /\ job[p].at \notin BeforeOperation /\ job[p] \in Jobs /\ ~job[p].saving
           /\ job[p].mem = Newest /\ recovery # NoRecord /\ Newest \in Manifest
           /\ Durable(disk, Newest, recovery) /\ Progress(job[p], disk, Newest, recovery)
<1>1. job[p].at \notin BeforeOperation
  BY DEF BeforeOperation, SettleLabels
<1>2. QED
  BY <1>1, AtWork DEF Progress

LEMMA AcceptRecoverOutcome ==
    ASSUME TypeInv, SafeInv, RecoveryInv, NEW p \in Procs, AcceptRecover(p)
    PROVE  Outcome(p)
<1> DEFINE M == Newest
           files == {f \in Listed(M) : Recoverable(M, f)}
           label == IF files = {} THEN "settleFiles" ELSE "restore"
           next == [job[p] EXCEPT !.todo = files, !.at = label]
<1>1. job[p].at = "check"
  BY DEF AcceptRecover, At
<1>2. /\ job[p].at \notin BeforeOperation /\ job[p] \in Jobs /\ ~job[p].saving
      /\ job[p].mem = M /\ recovery # NoRecord /\ Durable(disk, M, recovery)
  BY <1>1, RecoverAtWork
<1>3. Continue(p, next) /\ recovery' = recovery
  BY <1>2 DEF AcceptRecover
<1>4. label \in Labels /\ files \in SUBSET Files /\ files \subseteq Listed(M)
  BY DEF Labels, Listed
<1>5. \A f \in Listed(M) : f \in files \/ KeptFile(disk, M, f)
  BY <1>2 DEF Durable
<1>6. label = "settleFiles" => AllKept(disk, M)
  BY <1>5 DEF AllKept
<1>7. label \in {"settleFiles", "restore"}
  OBVIOUS
<1> HIDE DEF files, label
<1>8. /\ next \in Jobs /\ next.at = label /\ next.todo = files /\ next.mem = M
      /\ ~next.saving
  BY <1>2, <1>4 DEF Jobs
<1> HIDE DEF next
<1>9. Progress(next, disk, M, recovery)
  BY <1>2, <1>4, <1>5, <1>6, <1>7, <1>8
  DEF Progress, CommitLabels, RollBackLabels, FlagLabels, SettleLabels
<1>10. QED
  BY <1>2, <1>3, <1>8, <1>9, QuietOutcome DEF AcceptRecover

LEMMA RestoreFileOutcome ==
    ASSUME CleanFiles, TypeInv, SafeInv, RecoveryInv, NEW p \in Procs, RestoreFile(p)
    PROVE  Outcome(p)
<1> DEFINE M == Newest
<1>1. job[p].at = "restore"
  BY DEF RestoreFile, At
<1>2. /\ job[p].at \notin BeforeOperation /\ job[p] \in Jobs /\ ~job[p].saving
      /\ job[p].mem = M /\ recovery # NoRecord /\ Durable(disk, M, recovery)
      /\ job[p].todo \subseteq Listed(M)
      /\ \A f \in Listed(M) : f \in job[p].todo \/ KeptFile(disk, M, f)
      /\ M \in Manifest /\ disk \in Images
  BY <1>1, RecoverAtWork, AtWork DEF Progress
<1>3. PICK f \in job[p].todo, o \in Outcomes(ClientFaults) :
         /\ WriteFile(f, job[p].mem.backup[f], o)
         /\ IF o # "ok" THEN Exit(p)
            ELSE Continue(p, [job[p] EXCEPT
                                !.todo = @ \ {f},
                                !.at = IF job[p].todo = {f} THEN "settleFiles" ELSE @])
  BY DEF RestoreFile
<1> DEFINE label == IF job[p].todo = {f} THEN "settleFiles" ELSE "restore"
           rest == job[p].todo \ {f}
           next == [job[p] EXCEPT !.todo = rest, !.at = label]
<1>4. IF o # "ok" THEN Exit(p) ELSE Continue(p, next)
  <2>1. [job[p] EXCEPT !.todo = @ \ {f},
                       !.at = IF job[p].todo = {f} THEN "settleFiles" ELSE @] = next
    BY <1>1, <1>2 DEF Jobs
  <2>2. QED
    BY <1>3, <2>1
<1>5. f \in Listed(M) /\ f \in Files /\ WriteFile(f, M.backup[f], o)
  BY <1>2, <1>3 DEF Listed
<1>6. /\ \A g \in Files : g # f => disk'[g] = disk[g]
      /\ \A g \in Files : KeptFile(disk, M, g) => KeptFile(disk', M, g)
      /\ o = "ok" => KeptFile(disk', M, f)
  BY <1>5, FileWritten DEF KeptFile
<1>7. Listed(M) \subseteq Files
  BY DEF Listed
<1>8. Durable(disk', M, recovery)
  BY <1>2, <1>5, <1>6, <1>7 DEF Durable, Open
<1>9. Finalized(M) => disk' = disk
  <2>1. Finalized(M) => disk[f] = M.backup[f]
    BY <1>2, <1>5 DEF Durable, KeptFile
  <2>2. disk \in [Files -> Contents]
    BY <1>2 DEF Images
  <2>3. QED
    BY <1>5, <2>1, <2>2 DEF WriteFile
<1>10. Effect(disk, M, disk', M)
  BY <1>5, <1>6, <1>9 DEF Effect, SameOperation
<1>11. /\ label \in Labels /\ label \in {"settleFiles", "restore"}
       /\ label = "settleFiles" => rest = {}
       /\ rest \in SUBSET Files /\ rest \subseteq Listed(M)
  BY <1>2, <1>7 DEF Labels
<1>12. o = "ok" => \A g \in Listed(M) : g \in rest \/ KeptFile(disk', M, g)
  BY <1>2, <1>6, <1>7
<1> HIDE DEF label, rest
<1>13. /\ next \in Jobs /\ next.at = label /\ next.todo = rest /\ next.mem = M
       /\ ~next.saving
  BY <1>2, <1>11 DEF Jobs
<1> HIDE DEF next
<1>14. o = "ok" => Progress(next, disk', M, recovery)
  BY <1>2, <1>11, <1>12, <1>13
  DEF Progress, CommitLabels, RollBackLabels, FlagLabels, SettleLabels, AllKept
<1>15. Newest' = M /\ recovery' = recovery
  BY DEF RestoreFile, Newest
<1>16. QED
  BY <1>4, <1>8, <1>10, <1>13, <1>14, <1>15 DEF Outcome

(* The manifest of a recorded operation whose files are all restored may   *)
(* be replaced.                                                            *)
LEMMA DurableSettled ==
    ASSUME NEW image, NEW m, NEW n, NEW rec, Durable(image, m, rec), rec # NoRecord,
           SameOperation(n, m), AllKept(image, m)
    PROVE  Durable(image, n, rec) /\ AllKept(image, n)
BY SameListed DEF Durable, Open, SameOperation, KeptFile, AllKept

LEMMA SettleFilesOutcome ==
    ASSUME TypeInv, SafeInv, RecoveryInv, NEW p \in Procs, SettleFiles(p)
    PROVE  Outcome(p)
<1> DEFINE m == UpdateAllFileStates(job[p].mem, "ROLLED_BACK")
           next == [job[p] EXCEPT !.at = "settleOperation"]
           new == [next EXCEPT !.mem = m]
<1>1. PICK o \in Outcomes(StoreFaults) : StoreThen(p, m, o, next, Exit(p))
  BY DEF SettleFiles
<1>2. job[p].at = "settleFiles" /\ job[p].at \in SettleLabels
  BY DEF SettleFiles, At, SettleLabels
<1>3. /\ job[p].at \notin BeforeOperation /\ job[p] \in Jobs /\ ~job[p].saving
      /\ job[p].mem = Newest /\ recovery # NoRecord /\ Newest \in Manifest
      /\ Durable(disk, Newest, recovery) /\ AllKept(disk, Newest)
  BY <1>2, RecoverAtWork DEF Progress
<1>4. m \in Manifest /\ SameOperation(m, Newest) /\ m.state = Newest.state
  BY <1>3, UpdateAllFileStatesType, UpdatesKeepOperation, UpdatesState DEF FileStates
<1>5. next \in Jobs
  BY GotoType DEF Labels
<1>6. new.at = "settleOperation" /\ new.mem = m /\ ~new.saving
  BY <1>2, <1>3 DEF Jobs
<1> HIDE DEF m, next, new
<1>7. Durable(disk, m, recovery) /\ AllKept(disk, m)
  BY <1>3, <1>4, DurableSettled
<1>8. Effect(disk, Newest, disk, m)
  BY <1>4 DEF Effect, Finalized
<1>9. Progress(new, disk, m, recovery)
  BY <1>3, <1>6, <1>7 DEF Progress, CommitLabels, RollBackLabels, FlagLabels, SettleLabels
<1>10. QED
  BY <1>1, <1>3, <1>4, <1>5, <1>7, <1>8, <1>9, StoreOutcome DEF SettleFiles, StoreThen, new

LEMMA SettleOperationOutcome ==
    ASSUME TypeInv, SafeInv, RecoveryInv, NEW p \in Procs, SettleOperation(p)
    PROVE  Outcome(p)
<1> DEFINE m == SetOperationState(job[p].mem, "ROLLED_BACK")
           next == [job[p] EXCEPT !.at = "clear"]
           new == [next EXCEPT !.mem = m]
<1>1. PICK o \in Outcomes(StoreFaults) : StoreThen(p, m, o, next, Exit(p))
  BY DEF SettleOperation
<1>2. job[p].at = "settleOperation" /\ job[p].at \in SettleLabels
  BY DEF SettleOperation, At, SettleLabels
<1>3. /\ job[p].at \notin BeforeOperation /\ job[p] \in Jobs /\ ~job[p].saving
      /\ job[p].mem = Newest /\ recovery # NoRecord /\ Newest \in Manifest
      /\ Durable(disk, Newest, recovery) /\ AllKept(disk, Newest)
  BY <1>2, RecoverAtWork DEF Progress
<1>4. m \in Manifest /\ SameOperation(m, Newest) /\ m.state = "ROLLED_BACK"
  BY <1>3, SetOperationStateType, UpdatesKeepOperation, UpdatesState DEF OperationStates
<1>5. next \in Jobs
  BY GotoType DEF Labels
<1>6. new.at = "clear" /\ new.mem = m /\ ~new.saving
  BY <1>2, <1>3 DEF Jobs
<1> HIDE DEF m, next, new
<1>7. Durable(disk, m, recovery) /\ AllKept(disk, m)
  BY <1>3, <1>4, DurableSettled
<1>8. Effect(disk, Newest, disk, m)
  BY <1>3, <1>4 DEF Effect, Finalized
<1>9. Progress(new, disk, m, recovery)
  BY <1>3, <1>6, <1>7 DEF Progress, CommitLabels, RollBackLabels, FlagLabels, SettleLabels
<1>10. QED
  BY <1>1, <1>3, <1>4, <1>5, <1>7, <1>8, <1>9, StoreOutcome DEF SettleOperation, StoreThen, new

LEMMA ClearRecordOutcome ==
    ASSUME TypeInv, SafeInv, RecoveryInv, NEW p \in Procs, ClearRecord(p)
    PROVE  Outcome(p)
<1>1. job[p].at = "clear" /\ job[p].at \in SettleLabels
  BY DEF ClearRecord, At, SettleLabels
<1>2. /\ job[p].at \notin BeforeOperation /\ recovery # NoRecord /\ Newest \in Manifest
      /\ Durable(disk, Newest, recovery) /\ AllKept(disk, Newest)
  BY <1>1, RecoverAtWork DEF Progress
<1>3. Whole(disk)
  BY <1>2, SettledIsWhole DEF Durable, Open
<1>4. Durable(disk, Newest, NoRecord)
  BY <1>2, <1>3 DEF Durable, Open
<1>5. QED
  BY <1>2, <1>4, QuietOutcome DEF ClearRecord

(* Every step that works on an operation.                                  *)
LEMMA WorkOutcome ==
    ASSUME CleanFiles, TypeInv, SafeInv, RecoveryInv, NEW p \in Procs,
           SaveRegistry(p) => Exit(p),
           \/ RequireRecovery(p) \/ RollBack(p) \/ RefuseRecover(p) \/ AcceptRecover(p)
           \/ Restore(p) \/ (Commit(p) /\ ~CreateManifest(p))
    PROVE  Outcome(p)
<1>1. CASE RequireRecovery(p)
  BY <1>1, FlagFilesOutcome, FlagOperationOutcome, FlagRecordOutcome DEF RequireRecovery
<1>2. CASE RollBack(p)
  <2>1. ~FlagClient(p)
    <3>1. FlagClient(p) => job[p].at \notin BeforeOperation /\ job[p].at = "flagClient"
      BY DEF FlagClient, At, BeforeOperation
    <3>2. QED
      BY <3>1, AtWork DEF Progress
  <2>2. QED
    BY <1>2, <2>1, RollBackFileOutcome, MarkRolledBackOutcome, FlagFailedOutcome, ReportOutcome,
       SettleRollBackOutcome DEF RollBack
<1>3. CASE RefuseRecover(p)
  <2>1. job[p].at \notin BeforeOperation
    BY <1>3 DEF RefuseRecover, At, BeforeOperation
  <2>2. QED
    BY <1>3, <2>1, AtWork, QuietOutcome DEF RefuseRecover
<1>4. CASE AcceptRecover(p)
  BY <1>4, AcceptRecoverOutcome
<1>5. CASE Restore(p)
  BY <1>5, RestoreFileOutcome, SettleFilesOutcome, SettleOperationOutcome, ClearRecordOutcome
  DEF Restore
<1>6. CASE Commit(p) /\ ~CreateManifest(p)
  BY <1>6, BeginCommitOutcome, CommitFileOutcome, UndoCommitOutcome, MarkCommittedOutcome,
     FinishCommitOutcome, SaveRegistryOutcome DEF Commit
<1>7. QED
  BY <1>1, <1>2, <1>3, <1>4, <1>5, <1>6

-----------------------------------------------------------------------------
(* The invariant is inductive.                                             *)

LEMMA IdleProgress ==
    ASSUME NEW jb, jb.at \in {"idle", "gate", "prepare"}, ~jb.saving,
           NEW image, NEW m, NEW rec
    PROVE  Progress(jb, image, m, rec)
BY DEF Progress, CommitLabels, RollBackLabels, FlagLabels, SettleLabels

(* Only the holder of the lock has a job to speak of.                      *)
LEMMA HolderRecovers ==
    ASSUME TypeInv, SafeInv, RecoveryInv, NEW p \in Procs, job[p].at # "idle",
           manifests' = <<>> => Whole(disk'),
           manifests' # <<>> => Durable(disk', Newest', recovery'),
           \/ Exit(p)
           \/ \E next : Continue(p, next) /\ Progress(next, disk', Newest', recovery')
    PROVE  RecoveryInv'
<1>1. \A q \in Procs : q # p => job[q].at = "idle" /\ ~job[q].saving /\ job'[q] = job[q]
  BY DEF SafeInv, LockHeld, RecoveryInv, Progress, TypeInv, TypeOK, Exit, Continue
<1>2. \A q \in Procs : q # p => Progress(job'[q], disk', Newest', recovery')
  BY <1>1, IdleProgress
<1>3. Progress(job'[p], disk', Newest', recovery')
  <2>1. CASE Exit(p)
    <3>1. job'[p] = IdleJob
      BY <2>1 DEF Exit, TypeInv, TypeOK
    <3>2. IdleJob.at = "idle" /\ ~IdleJob.saving
      BY DEF IdleJob
    <3>3. QED
      BY <3>1, <3>2, IdleProgress
  <2>2. CASE ~Exit(p)
    BY <2>2 DEF Continue, TypeInv, TypeOK
  <2>3. QED
    BY <2>1, <2>2
<1>4. QED
  BY <1>2, <1>3 DEF RecoveryInv

LEMMA InitRecovers == Init => RecoveryInv
<1> SUFFICES ASSUME Init PROVE RecoveryInv
  OBVIOUS
<1>1. \A p \in Procs : job[p].at = "idle" /\ ~job[p].saving
  BY DEF Init, IdleJob
<1>2. manifests = <<>> /\ Whole(disk)
  BY FilesOfClient DEF Init, Whole
<1>3. QED
  BY <1>1, <1>2, IdleProgress DEF RecoveryInv

LEMMA StartRecovers ==
    ASSUME TypeInv, SafeInv, RecoveryInv, NEW p \in Procs, NEW cmd, Start(p, cmd)
    PROVE  RecoveryInv'
<1>1. \A q \in Procs : job[q].at = "idle" /\ ~job[q].saving
  BY ProcsAssumption DEF SafeInv, LockHeld, Start, RecoveryInv, Progress
<1>2. \A q \in Procs : job'[q].at \in {"idle", "gate"} /\ ~job'[q].saving
  BY <1>1 DEF Start, TypeInv, TypeOK, Jobs
<1>3. UNCHANGED <<disk, manifests, recovery>> /\ Newest' = Newest
  BY DEF Start, Newest
<1>4. QED
  BY <1>2, <1>3, IdleProgress DEF RecoveryInv

LEMMA GateRecovers ==
    ASSUME TypeInv, SafeInv, RecoveryInv, NEW p \in Procs,
           Gate(p) \/ Refuse(p) \/ Prepare(p)
    PROVE  RecoveryInv' /\ UNCHANGED <<disk, manifests>>
<1>1. /\ UNCHANGED <<disk, manifests, recovery>> /\ Newest' = Newest
      /\ job[p].at # "idle" /\ job[p] \in Jobs /\ ~job[p].saving
  BY JobFacts DEF Gate, GateRecorded, GateIncomplete, GateClear, Refuse, Prepare, At, Newest,
                  RecoveryInv, Progress
<1>2. Exit(p) \/ \E next : Continue(p, next) /\ Progress(next, disk, Newest, recovery)
  <2>1. CASE GateRecorded(p)
    <3> DEFINE next == [job[p] EXCEPT !.at = "check", !.op = recovery,
                                      !.mem = manifests[recovery]]
    <3>1. manifests[recovery] = Newest /\ recovery # NoRecord
      BY <2>1 DEF GateRecorded, SafeInv, StoreInv, RecordNewest, Newest
    <3>2. next.at = "check" /\ next.mem = Newest /\ ~next.saving
      BY <1>1, <3>1 DEF Jobs
    <3>3. Exit(p) \/ Continue(p, next)
      BY <2>1 DEF GateRecorded
    <3> HIDE DEF next
    <3>4. Progress(next, disk, Newest, recovery)
      BY <3>1, <3>2 DEF Progress, CommitLabels, RollBackLabels, FlagLabels, SettleLabels
    <3>5. QED
      BY <3>3, <3>4
  <2>2. CASE GateIncomplete(p)
    <3>1. PICK op \in 1 .. Len(manifests) :
             /\ IsLatestIncomplete(manifests, op)
             /\ Continue(p, [job[p] EXCEPT !.at = "flagFiles", !.op = op,
                                           !.mem = manifests[op]])
      BY <2>2 DEF GateIncomplete
    <3> DEFINE next == [job[p] EXCEPT !.at = "flagFiles", !.op = op, !.mem = manifests[op]]
    <3>2. manifests[op] = Newest /\ ~Finalized(Newest) /\ recovery = NoRecord
      BY <2>2, <3>1 DEF GateIncomplete, IsLatestIncomplete, SafeInv, StoreInv,
         OnlyNewestIncomplete, Incomplete, Newest
    <3>3. next.at = "flagFiles" /\ next.mem = Newest /\ ~next.saving
      BY <1>1, <3>2 DEF Jobs
    <3>4. Continue(p, next)
      BY <3>1
    <3> HIDE DEF next
    <3>5. Progress(next, disk, Newest, recovery)
      BY <3>2, <3>3 DEF Progress, CommitLabels, RollBackLabels, FlagLabels, SettleLabels
    <3>6. QED
      BY <3>4, <3>5
  <2>3. CASE GateClear(p)
    <3> DEFINE next == [job[p] EXCEPT !.at = "prepare"]
    <3>1. next.at = "prepare" /\ ~next.saving
      BY <1>1 DEF Jobs
    <3>2. Exit(p) \/ Continue(p, next)
      BY <2>3 DEF GateClear, Goto
    <3> HIDE DEF next
    <3>3. QED
      BY <3>1, <3>2, IdleProgress
  <2>4. CASE Refuse(p)
    BY <2>4 DEF Refuse
  <2>5. CASE Prepare(p)
    <3>1. PICK clients \in ChangeLists, target \in Contents :
             Continue(p, [job[p] EXCEPT !.at = "create",
                                        !.mem = NewManifest(clients, target, disk)])
      BY <2>5 DEF Prepare
    <3> DEFINE m == NewManifest(clients, target, disk)
               next == [job[p] EXCEPT !.at = "create", !.mem = m]
    <3>2. m.backup = disk /\ m.clients = clients /\ ~Finalized(m)
      BY DEF NewManifest, Finalized
    <3>3. Distinct(m.clients)
      BY <3>2, ChangeListsAssumption DEF Distinct
    <3>4. Continue(p, next)
      BY <3>1
    <3> HIDE DEF m
    <3>5. next.at = "create" /\ next.mem = m /\ ~next.saving
      BY <1>1 DEF Jobs
    <3> HIDE DEF next
    <3>6. Progress(next, disk, Newest, recovery)
      BY <3>2, <3>3, <3>5
      DEF Progress, CommitLabels, RollBackLabels, FlagLabels, SettleLabels
    <3>7. QED
      BY <3>4, <3>6
  <2>6. QED
    BY <2>1, <2>2, <2>3, <2>4, <2>5 DEF Gate
<1>3. QED
  BY <1>1, <1>2, HolderRecovers DEF RecoveryInv

(* What create finds and what it leaves.                                   *)
LEMMA CreateFacts ==
    ASSUME TypeInv, SafeInv, RecoveryInv, NEW p \in Procs, CreateManifest(p)
    PROVE  /\ UNCHANGED <<disk, recovery>> /\ recovery = NoRecord /\ Whole(disk)
           /\ Incomplete(manifests) = {}
           /\ job[p].mem \in Manifest /\ job[p].mem.backup = disk
           /\ Distinct(job[p].mem.clients) /\ ~Finalized(job[p].mem)
           /\ 1 \in 1 .. Len(job[p].mem.clients)
           /\ \/ manifests' = manifests
              \/ /\ manifests' = Append(manifests, job[p].mem)
                 /\ Len(manifests') = Len(manifests) + 1
                 /\ \A op \in 1 .. Len(manifests) : manifests'[op] = manifests[op]
                 /\ Newest' = job[p].mem
<1>1. job[p].at = "create"
  BY DEF CreateManifest, At
<1>2. /\ job[p].mem.backup = disk /\ Distinct(job[p].mem.clients) /\ ~Finalized(job[p].mem)
      /\ job[p].mem \in Manifest /\ 1 \in 1 .. Len(job[p].mem.clients)
  BY <1>1, JobFacts DEF RecoveryInv, Progress, TypeInv, InRange, ListLabels
<1>3. /\ recovery = NoRecord /\ Incomplete(manifests) = {}
      /\ UNCHANGED <<disk, recovery>>
  BY <1>1 DEF SafeInv, ClearWhenPreparing, Owed, CreateManifest
<1>4. manifests \in Seq(Manifest) /\ Len(manifests) \in Nat
  BY DEF TypeInv, TypeOK
<1>5. Whole(disk)
  <2>1. CASE manifests = <<>>
    BY <2>1 DEF RecoveryInv
  <2>2. CASE manifests # <<>>
    <3>1. Len(manifests) \in 1 .. Len(manifests)
      BY <1>4, <2>2
    <3>2. Finalized(Newest)
      BY <1>3, <3>1 DEF Incomplete, Newest
    <3>3. QED
      BY <1>3, <2>2, <3>2 DEF RecoveryInv, Durable, Open
  <2>3. QED
    BY <2>1, <2>2
<1>6. manifests' \in {manifests, Append(manifests, job[p].mem)}
  BY DEF CreateManifest
<1>7. ASSUME manifests' = Append(manifests, job[p].mem)
      PROVE  /\ Len(manifests') = Len(manifests) + 1
             /\ \A op \in 1 .. Len(manifests) : manifests'[op] = manifests[op]
             /\ Newest' = job[p].mem
  BY <1>2, <1>4, <1>7 DEF Newest
<1>8. QED
  BY <1>2, <1>3, <1>5, <1>6, <1>7

LEMMA CreateRecovers ==
    ASSUME TypeInv, SafeInv, RecoveryInv, NEW p \in Procs, CreateManifest(p)
    PROVE  RecoveryInv'
<1> DEFINE m == job[p].mem
           n == Len(manifests) + 1
           next == [job[p] EXCEPT !.at = "begin", !.op = n]
<1>1. /\ UNCHANGED <<disk, recovery>> /\ recovery = NoRecord /\ Whole(disk)
      /\ m.backup = disk /\ Distinct(m.clients) /\ ~Finalized(m)
      /\ manifests' # manifests => Newest' = m /\ Len(manifests') = Len(manifests) + 1
  BY CreateFacts
<1>2. PICK o \in Outcomes(StoreFaults) :
         /\ manifests' = IF Takes(o) THEN Append(manifests, m) ELSE manifests
         /\ IF o = "ok" THEN Continue(p, next) ELSE Exit(p)
  BY DEF CreateManifest
<1>3. job[p].at # "idle" /\ job[p] \in Jobs /\ ~job[p].saving
  BY JobFacts DEF CreateManifest, At, RecoveryInv, Progress
<1>4. Durable(disk, m, NoRecord) /\ AllKept(disk, m)
  BY <1>1 DEF Durable, Open, Listed, KeptFile, AllKept
<1>5. manifests' # manifests => manifests' # <<>>
  <2>1. Len(manifests) \in Nat /\ Len(<<>>) = 0
    BY DEF TypeInv, TypeOK
  <2>2. QED
    BY <1>1, <2>1
<1>6. /\ manifests' = <<>> => Whole(disk')
      /\ manifests' # <<>> => Durable(disk', Newest', recovery')
  <2>1. CASE manifests' = manifests
    BY <1>1, <2>1 DEF RecoveryInv, Newest
  <2>2. CASE manifests' # manifests
    BY <1>1, <1>4, <1>5, <2>2
  <2>3. QED
    BY <2>1, <2>2
<1>7. CASE o = "ok"
  <2>1. manifests' = Append(manifests, m) /\ Continue(p, next)
    BY <1>2, <1>7 DEF Takes
  <2>2. manifests' # manifests
    BY <2>1, JobFacts DEF TypeInv, TypeOK
  <2>3. next.at = "begin" /\ next.mem = m /\ ~next.saving
    BY <1>3 DEF Jobs
  <2> HIDE DEF next
  <2>4. Progress(next, disk, m, NoRecord)
    BY <1>1, <1>4, <2>3 DEF Progress, CommitLabels, RollBackLabels, FlagLabels, SettleLabels
  <2>5. QED
    BY <1>1, <1>3, <1>6, <2>1, <2>2, <2>4, HolderRecovers
<1>8. CASE o # "ok"
  BY <1>2, <1>3, <1>6, <1>8, HolderRecovers
<1>9. QED
  BY <1>7, <1>8

(* A step leaves files and manifests alone, creates an operation, or works *)
(* on the newest one, unless the registry write fails.                     *)
LEMMA RecoverySteps ==
    ASSUME CleanFiles, TypeInv, SafeInv, RecoveryInv, [Next]_vars,
           \A p \in Procs : SaveRegistry(p) => Exit(p)
    PROVE  /\ RecoveryInv'
           /\ \/ UNCHANGED <<disk, manifests>>
              \/ \E p \in Procs : CreateManifest(p)
              \/ \E p \in Procs : Works(p) /\ Outcome(p)
<1>1. CASE UNCHANGED vars
  BY <1>1 DEF vars, RecoveryInv, Newest
<1>2. ASSUME NEW p \in Procs, StartSwitch(p) \/ StartRecover(p) \/ Step(p) \/ Crash(p)
      PROVE  /\ RecoveryInv'
             /\ \/ UNCHANGED <<disk, manifests>>
                \/ CreateManifest(p)
                \/ Works(p) /\ Outcome(p)
  <2>1. CASE StartSwitch(p) \/ StartRecover(p)
    BY <2>1, StartRecovers DEF StartSwitch, StartRecover, Start
  <2>2. CASE Gate(p) \/ Refuse(p) \/ Prepare(p)
    BY <2>2, GateRecovers
  <2>3. CASE CreateManifest(p)
    BY <2>3, CreateRecovers
  <2>4. CASE \/ RequireRecovery(p) \/ RollBack(p) \/ RefuseRecover(p) \/ AcceptRecover(p)
             \/ Restore(p) \/ (Commit(p) /\ ~CreateManifest(p))
    <3>1. Outcome(p)
      BY <2>4, WorkOutcome
    <3>2. Works(p)
      BY <2>4, RequireRecoveryWorks, RollBackWorks, RestoreWorks, CommitWorks DEF Commit
    <3>3. job[p].at \notin BeforeOperation /\ job[p].at # "idle" /\ manifests # <<>>
      BY <3>2, AtWork DEF Works, BeforeOperation
    <3>4. manifests' # <<>>
      BY <3>2, <3>3, AtWork DEF Works, WriteManifest
    <3>5. RecoveryInv'
      BY <3>1, <3>3, <3>4, HolderRecovers DEF Outcome
    <3>6. QED
      BY <3>1, <3>2, <3>5
  <2>5. CASE Crash(p)
    <3>1. UNCHANGED <<disk, manifests, recovery>> /\ Exit(p) /\ job[p].at # "idle"
      BY <2>5 DEF Crash
    <3>2. Newest' = Newest
      BY <3>1 DEF Newest
    <3>3. QED
      BY <3>1, <3>2, HolderRecovers DEF RecoveryInv
  <2>6. QED
    BY <1>2, <2>1, <2>2, <2>3, <2>4, <2>5 DEF Step, Commit
<1>3. QED
  BY <1>1, <1>2 DEF Next

LEMMA StepCases ==
    ASSUME CleanWrites, TypeInv, SafeInv, RecoveryInv, [Next]_vars
    PROVE  /\ RecoveryInv'
           /\ \/ UNCHANGED <<disk, manifests>>
              \/ \E p \in Procs : CreateManifest(p)
              \/ \E p \in Procs : Works(p) /\ Outcome(p)
BY RegistryWritten, RecoverySteps DEF CleanWrites

(* Files, manifests and recovery.json fit together in every state.         *)
THEOREM RecoveryInvariant ==
    ASSUME CleanWrites
    PROVE  Spec => [](TypeInv /\ SafeInv /\ RecoveryInv)
<1>1. Init => RecoveryInv
  BY InitRecovers
<1>2. TypeInv /\ SafeInv /\ RecoveryInv /\ [Next]_vars => RecoveryInv'
  BY StepCases
<1>3. QED
  BY <1>1, <1>2, SafeInvariant, PTL DEF Spec

(* However a switch or a recovery failed or was killed: a client whose     *)
(* files disagree is one that recovery will still repair.                  *)
THEOREM TornIsOwedHolds ==
    ASSUME CleanWrites
    PROVE  Spec => []TornIsOwed
<1>1. TypeInv /\ RecoveryInv => TornIsOwed
  <2> SUFFICES ASSUME TypeInv, RecoveryInv, NEW c \in Clients, Torn(c), ~Owed
               PROVE  FALSE
    BY DEF TornIsOwed
  <2>1. ~Whole(disk)
    BY DEF Torn, Whole
  <2>2. manifests # <<>> /\ manifests \in Seq(Manifest)
    BY <2>1 DEF RecoveryInv, TypeInv, TypeOK
  <2>3. Len(manifests) \in 1 .. Len(manifests)
    BY <2>2
  <2>4. recovery = NoRecord /\ Finalized(Newest)
    BY <2>3 DEF Owed, Incomplete, Newest
  <2>5. QED
    BY <2>1, <2>2, <2>4 DEF RecoveryInv, Durable, Open
<1>2. QED
  BY <1>1, RecoveryInvariant, PTL

(* recover skips a file only if it holds its backup already, so it loses   *)
(* no file it ought to restore.                                            *)
THEOREM RecoverSkipsNothingHolds ==
    ASSUME CleanWrites
    PROVE  Spec => []RecoverSkipsNothing
<1>1. TypeInv /\ SafeInv /\ RecoveryInv => RecoverSkipsNothing
  <2> SUFFICES ASSUME TypeInv, SafeInv, RecoveryInv, recovery # NoRecord,
                      NEW f \in Listed(manifests[recovery])
               PROVE  \/ Recoverable(manifests[recovery], f)
                      \/ disk[f] = manifests[recovery].backup[f]
    BY DEF RecoverSkipsNothing
  <2>1. manifests[recovery] = Newest
    BY DEF SafeInv, StoreInv, RecordNewest, Newest
  <2>2. recovery \in 1 .. Len(manifests) /\ manifests # <<>>
    BY DEF TypeInv, TypeOK, NoRecord
  <2>3. QED
    BY <2>1, <2>2 DEF RecoveryInv, Durable, KeptFile
<1>2. QED
  BY <1>1, RecoveryInvariant, PTL

-----------------------------------------------------------------------------
(* What a step does to the operations.                                     *)

(* Working on the newest operation changes no other.                       *)
LEMMA WorksOnNewest ==
    ASSUME TypeInv, TypeInv', SafeInv, NEW p \in Procs, Works(p)
    PROVE  /\ Len(manifests') = Len(manifests) /\ Len(manifests) \in 1 .. Len(manifests)
           /\ \A op \in 1 .. Len(manifests) :
                 op # Len(manifests) => manifests'[op] = manifests[op]
<1>1. Len(manifests') = Len(manifests)
  BY WorksSafe
<1>2. job[p].op = Len(manifests) /\ job[p].op \in 1 .. Len(manifests)
  BY JobFacts DEF Works, SafeInv, OnNewest
<1>3. manifests \in Seq(Manifest)
  BY DEF TypeInv, TypeOK
<1>4. \A op \in 1 .. Len(manifests) : op # Len(manifests) => manifests'[op] = manifests[op]
  BY <1>2, <1>3 DEF Works, WriteManifest
<1>5. QED
  BY <1>1, <1>2, <1>4

(* COMMITTED is written only when every file of the operation holds the    *)
(* target, ROLLED_BACK only when every file holds its backup.              *)
THEOREM FinalStateIsTrueHolds ==
    ASSUME CleanWrites
    PROVE  Spec => FinalStateIsTrue
<1> DEFINE A == \A op \in 1 .. Len(manifests) :
                  LET m == manifests'[op] IN
                  ~Finalized(manifests[op]) /\ Finalized(m) =>
                     \A f \in Listed(m) :
                         disk'[f] = IF m.state = "COMMITTED" THEN m.target ELSE m.backup[f]
<1>1. TypeInv /\ SafeInv /\ RecoveryInv /\ TypeInv' /\ [Next]_vars => A
  <2> SUFFICES ASSUME TypeInv, SafeInv, RecoveryInv, TypeInv', [Next]_vars,
                      NEW op \in 1 .. Len(manifests),
                      ~Finalized(manifests[op]), Finalized(manifests'[op]),
                      NEW f \in Listed(manifests'[op])
               PROVE  disk'[f] = IF manifests'[op].state = "COMMITTED"
                                 THEN manifests'[op].target ELSE manifests'[op].backup[f]
    OBVIOUS
  <2>1. CASE UNCHANGED <<disk, manifests>>
    BY <2>1
  <2>2. CASE \E p \in Procs : CreateManifest(p)
    BY <2>2, CreateFacts
  <2>3. CASE \E p \in Procs : Works(p) /\ Outcome(p)
    <3>1. PICK p \in Procs : Works(p) /\ Outcome(p)
      BY <2>3
    <3>2. op = Len(manifests) /\ manifests[op] = Newest /\ manifests'[op] = Newest'
      BY <3>1, WorksOnNewest DEF Newest
    <3>3. /\ SameOperation(Newest', Newest) /\ disk' = disk
          /\ \/ Newest'.state = "COMMITTED" /\ AllGiven(disk, Newest)
             \/ Newest'.state = "ROLLED_BACK" /\ AllKept(disk, Newest)
      BY <3>1, <3>2 DEF Outcome, Effect
    <3>4. f \in Listed(Newest)
      BY <3>2, <3>3, SameListed
    <3>5. QED
      BY <3>2, <3>3, <3>4 DEF AllGiven, AllKept, KeptFile, SameOperation
  <2>4. QED
    BY <2>1, <2>2, <2>3, StepCases
<1>2. TypeInv /\ SafeInv /\ RecoveryInv /\ TypeInv' /\ [Next]_vars => [A]_vars
  BY <1>1
<1> HIDE DEF A
<1>3. Spec => [][A]_vars
  BY <1>2, RecoveryInvariant, PTL DEF Spec
<1>4. QED
  BY <1>3 DEF A, FinalStateIsTrue

-----------------------------------------------------------------------------
(* The refinement.                                                         *)

(* The operation that the abstract switch has open is the newest one.      *)
LEMMA OpenIsNewest ==
    ASSUME NEW ms \in Seq(Manifest), Incomplete(ms) \subseteq {Len(ms)}
    PROVE  {c \in Clients : \E op \in Incomplete(ms) : c \in ClientSet(ms[op])} =
              IF ms # <<>> /\ ~Finalized(ms[Len(ms)])
              THEN ClientSet(ms[Len(ms)]) \cap Clients ELSE {}
<1>1. ms # <<>> => Len(ms) \in 1 .. Len(ms)
  OBVIOUS
<1>2. ms = <<>> => Incomplete(ms) = {}
  BY DEF Incomplete
<1>3. ms # <<>> => Incomplete(ms) = IF Finalized(ms[Len(ms)]) THEN {} ELSE {Len(ms)}
  BY <1>1 DEF Incomplete
<1>4. QED
  BY <1>2, <1>3

(* What manifest m and the files' image show to the atomic switch.         *)
OpenOf(m) == IF Finalized(m) THEN {} ELSE ClientSet(m) \cap Clients

ConfigOf(image, m) ==
    [c \in Clients |-> IF c \in OpenOf(m) THEN m.backup[<<c, 1>>] ELSE image[<<c, 1>>]]

(* The operation's files and clients, as the abstract switch sees them.    *)
LEMMA AbstractStep ==
    ASSUME NEW image, NEW m \in Manifest, NEW image2, NEW m2,
           Effect(image, m, image2, m2)
    PROVE  \/ OpenOf(m2) = OpenOf(m) /\ ConfigOf(image2, m2) = ConfigOf(image, m)
           \/ /\ OpenOf(m2) = {}
              /\ \/ ConfigOf(image2, m2) = [c \in Clients |->
                        IF c \in OpenOf(m) THEN m.target ELSE ConfigOf(image, m)[c]]
                 \/ ConfigOf(image2, m2) = ConfigOf(image, m)
<1> DEFINE open == OpenOf(m)
           open2 == OpenOf(m2)
           config == ConfigOf(image, m)
           config2 == ConfigOf(image2, m2)
<1> USE DEF OpenOf, ConfigOf
<1>1. ClientSet(m2) = ClientSet(m) /\ m2.backup = m.backup
  BY DEF Effect, SameOperation, ClientSet
<1>2. \A c \in Clients : <<c, 1>> \in Files
  BY FirstFile
<1>3. \A c \in Clients : <<c, 1>> \in Listed(m) <=> c \in ClientSet(m)
  BY <1>2 DEF Listed
<1>4. CASE ~Finalized(m) /\ ~Finalized(m2)
  <2>1. open2 = open
    BY <1>1, <1>4
  <2>2. \A c \in Clients : c \notin open => image2[<<c, 1>>] = image[<<c, 1>>]
    <3>1. SUFFICES ASSUME NEW c \in Clients, c \notin open
                   PROVE  image2[<<c, 1>>] = image[<<c, 1>>]
      OBVIOUS
    <3>2. <<c, 1>> \in Files /\ <<c, 1>> \notin Listed(m)
      BY <1>2, <1>3, <1>4, <3>1
    <3>3. QED
      BY <3>2 DEF Effect
  <2>3. QED
    BY <1>1, <2>1, <2>2
<1>5. CASE Finalized(m) /\ Finalized(m2) /\ image2 = image
  BY <1>5
<1>6. CASE ~Finalized(m) /\ image2 = image /\ m2.state = "COMMITTED" /\ AllGiven(image, m)
  <2>1. open2 = {} /\ open = ClientSet(m) \cap Clients
    BY <1>6 DEF Finalized
  <2>2. \A c \in open : image[<<c, 1>>] = m.target
    BY <1>3, <1>6, <2>1 DEF AllGiven
  <2>3. config2 = [c \in Clients |-> IF c \in open THEN m.target ELSE config[c]]
    BY <1>6, <2>1, <2>2
  <2>4. QED
    BY <2>1, <2>3
<1>7. CASE ~Finalized(m) /\ image2 = image /\ m2.state = "ROLLED_BACK" /\ AllKept(image, m)
  <2>1. open2 = {} /\ open = ClientSet(m) \cap Clients
    BY <1>7 DEF Finalized
  <2>2. \A c \in open : image[<<c, 1>>] = m.backup[<<c, 1>>]
    BY <1>3, <1>7, <2>1 DEF AllKept, KeptFile
  <2>3. config2 = config
    BY <1>7, <2>1, <2>2
  <2>4. QED
    BY <2>1, <2>3
<1>8. QED
  BY <1>4, <1>5, <1>6, <1>7 DEF Effect

(* Seen through recovery a switch is atomic: each step of the transaction  *)
(* maps to a step of the abstract switch or to none.                       *)
THEOREM SwitchIsAtomicHolds ==
    ASSUME CleanWrites
    PROVE  Spec => SwitchIsAtomic
<1>1. Init => Atomic!Init
  <2> SUFFICES ASSUME Init PROVE Atomic!Init
    OBVIOUS
  <2>1. PICK x \in Contents : disk = [f \in Files |-> x]
    BY DEF Init
  <2>2. manifests = <<>> /\ Incomplete(manifests) = {}
    BY DEF Init, Incomplete
  <2>3. OpenClients = {}
    BY <2>2 DEF OpenClients
  <2>4. VisibleConfig = [c \in Clients |-> x]
    BY <2>1, <2>3, FilesOfClient DEF VisibleConfig
  <2>5. LatestTarget \in Contents
    BY <2>2, ContentsAssumption DEF LatestTarget
  <2>6. QED
    BY <2>3, <2>4, <2>5 DEF Atomic!Init
<1>2. ASSUME TypeInv, SafeInv, RecoveryInv, TypeInv', SafeInv', [Next]_vars
      PROVE  [Atomic!Next]_(Atomic!abstractVars)
  <2> USE DEF Atomic!abstractVars
  <2>1. manifests \in Seq(Manifest) /\ manifests' \in Seq(Manifest) /\ Len(manifests) \in Nat
    BY <1>2 DEF TypeInv, TypeOK
  <2>2. /\ OpenClients = IF manifests # <<>> /\ ~Finalized(Newest)
                         THEN ClientSet(Newest) \cap Clients ELSE {}
        /\ OpenClients' = IF manifests' # <<>> /\ ~Finalized(Newest')
                          THEN ClientSet(Newest') \cap Clients ELSE {}
    <3>1. /\ Incomplete(manifests) \subseteq {Len(manifests)}
          /\ Incomplete(manifests') \subseteq {Len(manifests')}
      BY <1>2 DEF SafeInv, StoreInv, OnlyNewestIncomplete
    <3>2. QED
      BY <2>1, <3>1, OpenIsNewest DEF OpenClients, Newest
  <2>3. CASE UNCHANGED <<disk, manifests>>
    BY <2>3 DEF OpenClients, VisibleConfig, LatestTarget
  <2>4. ASSUME NEW p \in Procs, CreateManifest(p), manifests' # manifests
        PROVE  Atomic!Next
    <3> DEFINE m == job[p].mem
               clients == ClientSet(m) \cap Clients
    <3>1. /\ disk' = disk /\ Incomplete(manifests) = {}
          /\ m \in Manifest /\ m.backup = disk /\ ~Finalized(m)
          /\ 1 \in 1 .. Len(m.clients)
          /\ Newest' = m /\ Len(manifests') = Len(manifests) + 1
      BY <1>2, <2>4, CreateFacts
    <3>2. m.clients \in Seq(Clients) /\ m.target \in Contents
      BY <3>1 DEF Manifest
    <3>3. m.clients[1] \in clients
      BY <3>1, <3>2 DEF ClientSet
    <3>4. manifests' # <<>>
      BY <2>1, <3>1
    <3>5. OpenClients = {} /\ OpenClients' = clients
      BY <2>2, <3>1, <3>4 DEF OpenClients
    <3>6. LatestTarget' = m.target
      BY <3>1, <3>4 DEF LatestTarget, Newest
    <3>7. VisibleConfig' = VisibleConfig
      BY <3>1, <3>5 DEF VisibleConfig, Newest
    <3> HIDE DEF m, clients
    <3>8. Atomic!Begin(clients, m.target)
      BY <3>3, <3>5, <3>6, <3>7 DEF Atomic!Begin
    <3>9. clients \in SUBSET Clients
      BY DEF clients
    <3>10. QED
      BY <3>2, <3>8, <3>9 DEF Atomic!Next
  <2>5. ASSUME NEW p \in Procs, Works(p), Outcome(p)
        PROVE  Atomic!Next \/ UNCHANGED Atomic!abstractVars
    <3>1. /\ manifests # <<>> /\ manifests' # <<>> /\ Newest \in Manifest
          /\ Effect(disk, Newest, disk', Newest')
      <4>1. Len(manifests') = Len(manifests) /\ Len(manifests) \in 1 .. Len(manifests)
        BY <1>2, <2>5, WorksOnNewest
      <4>2. QED
        BY <1>2, <2>1, <2>5, <4>1, AtWork DEF Works, Outcome
    <3>2. LatestTarget' = LatestTarget /\ LatestTarget = Newest.target
      BY <3>1 DEF LatestTarget, Newest, Effect, SameOperation
    <3>3. OpenClients = OpenOf(Newest) /\ OpenClients' = OpenOf(Newest')
      BY <2>2, <3>1 DEF OpenOf
    <3>4. VisibleConfig = ConfigOf(disk, Newest) /\ VisibleConfig' = ConfigOf(disk', Newest')
      BY <3>3 DEF VisibleConfig, Newest, ConfigOf
    <3>5. \/ OpenClients' = OpenClients /\ VisibleConfig' = VisibleConfig
          \/ /\ OpenClients' = {}
             /\ \/ VisibleConfig' = [c \in Clients |-> IF c \in OpenClients THEN Newest.target
                                                       ELSE VisibleConfig[c]]
                \/ VisibleConfig' = VisibleConfig
      BY <3>1, <3>3, <3>4, AbstractStep
    <3>6. CASE OpenClients' = OpenClients /\ VisibleConfig' = VisibleConfig
      BY <3>2, <3>6
    <3>7. CASE OpenClients = {}
      <4>1. OpenClients' = OpenClients
        BY <3>5, <3>7
      <4>2. VisibleConfig' = VisibleConfig
        BY <3>5, <3>7 DEF VisibleConfig
      <4>3. QED
        BY <3>2, <4>1, <4>2
    <3>8. CASE OpenClients # {} /\ OpenClients' = {} /\ VisibleConfig' = VisibleConfig
      BY <3>2, <3>8 DEF Atomic!Next, Atomic!Abort
    <3>9. CASE /\ OpenClients # {} /\ OpenClients' = {}
               /\ VisibleConfig' = [c \in Clients |-> IF c \in OpenClients THEN Newest.target
                                                      ELSE VisibleConfig[c]]
      BY <3>2, <3>9 DEF Atomic!Next, Atomic!Commit
    <3>10. QED
      BY <3>5, <3>6, <3>7, <3>8, <3>9
  <2>6. CASE \E p \in Procs : CreateManifest(p)
    <3>1. CASE manifests' = manifests
      BY <1>2, <2>3, <2>6, <3>1, CreateFacts
    <3>2. CASE manifests' # manifests
      BY <2>4, <2>6, <3>2
    <3>3. QED
      BY <3>1, <3>2
  <2>7. QED
    BY <1>2, <2>3, <2>5, <2>6, StepCases
<1>3. QED
  BY <1>1, <1>2, RecoveryInvariant, SafeInvariant, PTL DEF Spec, SwitchIsAtomic, Atomic!Spec
=============================================================================
