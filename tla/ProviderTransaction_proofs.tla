---------------------- MODULE ProviderTransaction_proofs ----------------------
(***************************************************************************)
(* What holds of ProviderTransaction for any clients, Providers, processes *)
(* and bounds, proved with TLAPS.                                          *)
(***************************************************************************)
EXTENDS ProviderTransaction, SequenceTheorems, TLAPS

-----------------------------------------------------------------------------
(* The operators of SnapshotStore return manifests.                        *)

(* create starts from a well-formed manifest.                              *)
LEMMA NewManifestType ==
    ASSUME NEW clients \in Seq(Clients), NEW x \in Contents, NEW image \in Images
    PROVE  NewManifest(clients, x, image) \in Manifest
BY DEF NewManifest, Manifest, OperationStates, FileStates

LEMMA UpdateFileStatesType ==
    ASSUME NEW m \in Manifest, NEW fs, NEW state \in FileStates
    PROVE  UpdateFileStates(m, fs, state) \in Manifest
BY DEF UpdateFileStates, Manifest

LEMMA UpdateAllFileStatesType ==
    ASSUME NEW m \in Manifest, NEW state \in FileStates
    PROVE  UpdateAllFileStates(m, state) \in Manifest
BY UpdateFileStatesType DEF UpdateAllFileStates

LEMMA SetOperationStateType ==
    ASSUME NEW m \in Manifest, NEW state \in OperationStates
    PROVE  SetOperationState(m, state) \in Manifest
BY DEF SetOperationState, Manifest

LEMMA UpdateClientStateType ==
    ASSUME NEW m \in Manifest, NEW c, NEW state \in FileStates, NEW opState \in OperationStates
    PROVE  UpdateClientState(m, c, state, opState) \in Manifest
<1>1. UpdateFileStates(m, FilesOf(c), state) \in Manifest
  BY UpdateFileStatesType
<1>2. QED
  BY <1>1 DEF UpdateClientState, Manifest

(* No update of a manifest changes its clients, target or backup.          *)
SameOperation(m, n) ==
    m.clients = n.clients /\ m.target = n.target /\ m.backup = n.backup

LEMMA UpdatesKeepOperation ==
    ASSUME NEW m \in Manifest
    PROVE  /\ \A state : SameOperation(SetOperationState(m, state), m)
           /\ \A state : SameOperation(UpdateAllFileStates(m, state), m)
           /\ \A c, state, opState : SameOperation(UpdateClientState(m, c, state, opState), m)
BY DEF SameOperation, SetOperationState, UpdateAllFileStates, UpdateClientState,
       UpdateFileStates, Manifest

-----------------------------------------------------------------------------
(* Types.                                                                  *)

(* The labels at which a process works on the client at position i, those  *)
(* at which it is about to, and those at which it has no operation yet.    *)
ClientLabels == {"commit", "undo", "mark", "rollback", "markBack", "flagClient"}

ListLabels == {"create", "begin"}

BeforeOperation == {"idle", "gate", "prepare", "create"}

(* jb's positions lie within its change list and within n operations.      *)
InRange(jb, n) ==
    /\ jb.at \in ClientLabels => jb.i \in 1 .. Len(jb.mem.clients)
    /\ jb.at \in ListLabels => 1 \in 1 .. Len(jb.mem.clients)
    /\ jb.at \notin BeforeOperation => jb.op \in 1 .. n

TypeInv ==
    /\ TypeOK
    /\ \A p \in Procs : InRange(job[p], Len(manifests))

LEMMA IdleJobType == IdleJob \in Jobs /\ \A n : InRange(IdleJob, n)
<1> DEFINE x == CHOOSE x \in Contents : TRUE
<1>1. x \in Contents
  BY ContentsAssumption
<1>2. [f \in Files |-> x] \in Images
  BY <1>1 DEF Images
<1>3. NewManifest(<<>>, x, [f \in Files |-> x]) \in Manifest
  <2>1. <<>> \in Seq(Clients)
    OBVIOUS
  <2> HIDE DEF x
  <2>2. QED
    BY <1>1, <1>2, <2>1, NewManifestType
<1>4. IdleJob \in Jobs
  BY <1>3 DEF IdleJob, Jobs, Labels
<1>5. QED
  BY <1>4 DEF IdleJob, InRange, ClientLabels, ListLabels, BeforeOperation

LEMMA RollBackFromType ==
    ASSUME NEW next \in Jobs, NEW k \in Nat, NEW n \in Nat,
           k <= Len(next.mem.clients), next.op \in 1 .. n
    PROVE  RollBackFrom(next, k) \in Jobs /\ InRange(RollBackFrom(next, k), n)
<1> DEFINE result == RollBackFrom(next, k)
<1>1. Len(next.mem.clients) \in Nat /\ next.failed \in SUBSET Clients
  BY DEF Jobs, Manifest
<1>2. CASE k > 0
  <2>1. result = [next EXCEPT !.at = "rollback", !.i = k, !.j = 1]
    BY <1>2 DEF RollBackFrom
  <2> HIDE DEF result
  <2>2. result \in Jobs
    <3>1. "rollback" \in Labels
      BY DEF Labels
    <3>2. QED
      BY <2>1, <3>1 DEF Jobs
  <2>3. result.at = "rollback" /\ result.i = k /\ result.mem = next.mem /\ result.op = next.op
    BY <2>1 DEF Jobs
  <2>4. QED
    BY <1>1, <1>2, <2>2, <2>3 DEF result, InRange, ClientLabels, ListLabels
<1>3. CASE k = 0
  <2> DEFINE label == IF next.failed = {} THEN "settle"
                      ELSE IF next.saving THEN "report" ELSE "flagFailed"
  <2>1. result = [next EXCEPT !.i = 0, !.j = 0, !.at = label]
    BY <1>3 DEF RollBackFrom
  <2>2. label \in Labels \ (ClientLabels \cup ListLabels)
    BY DEF Labels, ClientLabels, ListLabels
  <2> HIDE DEF label, result
  <2>3. result \in Jobs
    BY <2>1, <2>2 DEF Jobs
  <2>4. result.at = label /\ result.op = next.op
    BY <2>1 DEF Jobs
  <2>5. QED
    BY <2>2, <2>3, <2>4 DEF result, InRange
<1>4. QED
  BY <1>2, <1>3

LEMMA WriteFileType ==
    ASSUME TypeInv, NEW f, NEW x, f \in Files => x \in Contents, NEW o, WriteFile(f, x, o)
    PROVE  disk' \in Images
BY DEF TypeInv, TypeOK, WriteFile, Images

LEMMA WriteManifestType ==
    ASSUME TypeInv, NEW op, NEW m \in Manifest, NEW o, WriteManifest(op, m, o)
    PROVE  manifests' \in Seq(Manifest) /\ Len(manifests') = Len(manifests)
<1>1. manifests \in Seq(Manifest)
  BY DEF TypeInv, TypeOK
<1>2. CASE op \in 1 .. Len(manifests)
  BY <1>1, <1>2, ExceptSeq DEF WriteManifest
<1>3. CASE op \notin 1 .. Len(manifests)
  <2>1. [manifests EXCEPT ![op] = m] = manifests
    BY <1>1, <1>3
  <2>2. QED
    BY <1>1, <2>1 DEF WriteManifest
<1>4. QED
  BY <1>2, <1>3

LEMMA CountType ==
    ASSUME TypeInv, NEW o, Count(o)
    PROVE  faults' \in Nat
BY DEF TypeInv, TypeOK, Count

(* The processes' part of TypeInv.                                         *)
JobsFit ==
    /\ job \in [Procs -> Jobs]
    /\ lock \in Procs \cup {NoProc}
    /\ \A q \in Procs : InRange(job[q], Len(manifests))

LEMMA OthersFit ==
    ASSUME TypeInv, NEW q \in Procs,
           Len(manifests') \in Nat, Len(manifests') >= Len(manifests)
    PROVE  InRange(job[q], Len(manifests'))
<1>1. InRange(job[q], Len(manifests))
  BY DEF TypeInv
<1>2. Len(manifests) \in Nat /\ job[q].op \in Nat
  BY DEF TypeInv, TypeOK, Jobs
<1>3. QED
  BY <1>1, <1>2 DEF InRange

LEMMA ContinueType ==
    ASSUME TypeInv, NEW p \in Procs, NEW next \in Jobs, Continue(p, next),
           Len(manifests') \in Nat, Len(manifests') >= Len(manifests),
           InRange(next, Len(manifests'))
    PROVE  JobsFit'
<1>1. job' \in [Procs -> Jobs] /\ lock' \in Procs \cup {NoProc}
  BY DEF TypeInv, TypeOK, Continue
<1>2. \A q \in Procs : job'[q] = IF q = p THEN next ELSE job[q]
  BY DEF Continue, TypeInv, TypeOK
<1>3. QED
  BY <1>1, <1>2, OthersFit DEF JobsFit

LEMMA ExitType ==
    ASSUME TypeInv, NEW p \in Procs, Exit(p),
           Len(manifests') \in Nat, Len(manifests') >= Len(manifests)
    PROVE  JobsFit'
<1>1. job' \in [Procs -> Jobs] /\ lock' \in Procs \cup {NoProc}
  BY IdleJobType DEF TypeInv, TypeOK, Exit
<1>2. \A q \in Procs : job'[q] = IF q = p THEN IdleJob ELSE job[q]
  BY DEF Exit, TypeInv, TypeOK
<1>3. QED
  BY <1>1, <1>2, OthersFit, IdleJobType DEF JobsFit

LEMMA StoreThenType ==
    ASSUME TypeInv, NEW p \in Procs, NEW m \in Manifest, NEW o, NEW next \in Jobs,
           InRange([next EXCEPT !.mem = m], Len(manifests)),
           WriteManifest(job[p].op, m, o), Count(o),
           o = "ok" => Continue(p, [next EXCEPT !.mem = m]),
           o # "ok" => \/ Exit(p)
                       \/ \E other \in Jobs : /\ InRange(other, Len(manifests))
                                             /\ Continue(p, other)
    PROVE  /\ manifests' \in Seq(Manifest)
           /\ Len(manifests') = Len(manifests)
           /\ faults' \in Nat
           /\ JobsFit'
<1>1. manifests' \in Seq(Manifest) /\ Len(manifests') = Len(manifests)
  BY WriteManifestType
<1>2. Len(manifests') \in Nat /\ Len(manifests') >= Len(manifests)
  BY <1>1
<1>3. CASE o = "ok"
  <2>1. [next EXCEPT !.mem = m] \in Jobs
    BY DEF Jobs
  <2>2. QED
    BY <1>1, <1>2, <1>3, <2>1, ContinueType, CountType
<1>4. CASE o # "ok"
  BY <1>1, <1>2, <1>4, ContinueType, ExitType, CountType
<1>5. QED
  BY <1>3, <1>4

(* What is known of the process that steps.                                *)
LEMMA JobFacts ==
    ASSUME TypeInv, NEW p \in Procs
    PROVE  /\ job[p] \in Jobs
           /\ job[p].mem \in Manifest
           /\ job[p].mem.clients \in Seq(Clients)
           /\ job[p].i \in Nat /\ job[p].j \in Nat /\ job[p].op \in Nat
           /\ job[p].failed \in SUBSET Clients
           /\ job[p].at \notin BeforeOperation => job[p].op \in 1 .. Len(manifests)
           /\ job[p].at \in ClientLabels =>
                 job[p].i \in 1 .. Len(job[p].mem.clients) /\ Client(p) \in Clients
<1>1. job[p] \in Jobs /\ job[p].mem \in Manifest /\ InRange(job[p], Len(manifests))
  BY DEF TypeInv, TypeOK, Jobs
<1>2. job[p].mem.clients \in Seq(Clients)
  BY <1>1 DEF Manifest
<1>3. QED
  BY <1>1, <1>2 DEF Jobs, InRange, Client

LEMMA GotoType ==
    ASSUME TypeInv, NEW p \in Procs, NEW label \in Labels
    PROVE  [job[p] EXCEPT !.at = label] \in Jobs
BY DEF TypeInv, TypeOK, Jobs

-----------------------------------------------------------------------------
(* One lemma per action of a process.                                      *)

LEMMA StartType ==
    ASSUME TypeInv, NEW p \in Procs, NEW cmd \in {"switch", "recover"}, Start(p, cmd)
    PROVE  TypeInv'
<1> DEFINE next == [job[p] EXCEPT !.at = "gate", !.cmd = cmd]
<1>1. next \in Jobs
  <2>1. job[p] \in Jobs
    BY JobFacts
  <2>2. "gate" \in Labels
    BY DEF Labels
  <2>3. QED
    BY <2>1, <2>2 DEF Jobs
<1>2. InRange(next, Len(manifests))
  BY JobFacts DEF InRange, Jobs, ClientLabels, ListLabels, BeforeOperation
<1> HIDE DEF next
<1>3. job' = [job EXCEPT ![p] = next]
  BY DEF Start, next, TypeInv, TypeOK
<1>4. QED
  BY <1>1, <1>2, <1>3 DEF Start, TypeInv, TypeOK

LEMMA GateType ==
    ASSUME TypeInv, NEW p \in Procs, Gate(p)
    PROVE  TypeInv'
<1>1. /\ Len(manifests) \in Nat /\ manifests \in Seq(Manifest)
      /\ manifests' = manifests
  <2>1. Len(manifests) \in Nat /\ manifests \in Seq(Manifest)
    BY DEF TypeInv, TypeOK
  <2>2. manifests' = manifests
    BY DEF Gate, GateRecorded, GateIncomplete, GateClear
  <2>3. QED
    BY <2>1, <2>2
<1>2. ASSUME NEW label \in {"check", "flagFiles"}, NEW op \in 1 .. Len(manifests),
             Continue(p, [job[p] EXCEPT !.at = label, !.op = op, !.mem = manifests[op]])
      PROVE  JobsFit'
  <2> DEFINE next == [job[p] EXCEPT !.at = label, !.op = op, !.mem = manifests[op]]
  <2>1. manifests[op] \in Manifest
    BY <1>1
  <2>2. next \in Jobs
    <3>1. label \in Labels /\ op \in Nat
      BY <1>1, <1>2 DEF Labels
    <3>2. QED
      BY <2>1, <3>1, JobFacts DEF Jobs
  <2>3. InRange(next, Len(manifests))
    BY <1>2, JobFacts DEF InRange, Jobs, ClientLabels, ListLabels
  <2>4. QED
    BY <1>1, <1>2, <2>2, <2>3, ContinueType
<1>3. JobsFit'
  <2>1. CASE GateRecorded(p)
    <3>1. recovery \in 1 .. Len(manifests)
      BY <2>1 DEF GateRecorded, TypeInv, TypeOK, NoRecord
    <3>2. CASE Exit(p)
      BY <1>1, <3>2, ExitType
    <3>3. CASE ~Exit(p)
      <4>1. Continue(p, [job[p] EXCEPT !.at = "check", !.op = recovery,
                                       !.mem = manifests[recovery]])
        BY <2>1, <3>3 DEF GateRecorded
      <4>2. QED
        BY <1>2, <3>1, <4>1
    <3>4. QED
      BY <3>2, <3>3
  <2>2. CASE GateIncomplete(p)
    BY <1>2, <2>2 DEF GateIncomplete
  <2>3. CASE GateClear(p)
    <3>1. [job[p] EXCEPT !.at = "prepare"] \in Jobs
      BY GotoType DEF Labels
    <3>2. InRange([job[p] EXCEPT !.at = "prepare"], Len(manifests))
      BY JobFacts DEF InRange, Jobs, ClientLabels, ListLabels, BeforeOperation
    <3>3. QED
      BY <1>1, <2>3, <3>1, <3>2, ContinueType, ExitType DEF GateClear, Goto
  <2>4. QED
    BY <2>1, <2>2, <2>3 DEF Gate
<1>4. QED
  BY <1>3 DEF Gate, GateRecorded, GateIncomplete, GateClear, JobsFit, TypeInv, TypeOK

(* A job that keeps its operation stays in range at a label that does not   *)
(* work on a client, whatever manifest it now holds.                       *)
LEMMA KeepsRange ==
    ASSUME TypeInv, NEW p \in Procs, job[p].at \notin BeforeOperation,
           NEW next \in Jobs, next.op = job[p].op, next.at \notin ClientLabels \cup ListLabels,
           NEW m \in Manifest
    PROVE  InRange(next, Len(manifests)) /\ InRange([next EXCEPT !.mem = m], Len(manifests))
<1>1. job[p].op \in 1 .. Len(manifests)
  BY JobFacts
<1>2. LET n == [next EXCEPT !.mem = m] IN n.op = next.op /\ n.at = next.at
  BY DEF Jobs
<1>3. QED
  BY <1>1, <1>2 DEF InRange

LEMMA RequireRecoveryType ==
    ASSUME TypeInv, NEW p \in Procs, RequireRecovery(p)
    PROVE  TypeInv'
<1>1. job[p] \in Jobs /\ job[p].mem \in Manifest
  BY JobFacts
<1>2. Len(manifests) \in Nat /\ recovery \in 0 .. Len(manifests)
  BY DEF TypeInv, TypeOK
<1>3. CASE FlagFiles(p)
  <2> DEFINE m == UpdateAllFileStates(job[p].mem, "RECOVERY_REQUIRED")
             next == [job[p] EXCEPT !.at = "flagOperation"]
  <2>1. PICK o \in Outcomes(StoreFaults) : StoreThen(p, m, o, next, Exit(p))
    BY <1>3 DEF FlagFiles
  <2>2. m \in Manifest
    BY <1>1, UpdateAllFileStatesType DEF FileStates
  <2>3. next \in Jobs
    BY GotoType DEF Labels
  <2>4. next.op = job[p].op /\ next.at = "flagOperation" /\ job[p].at \notin BeforeOperation
    BY <1>1, <1>3 DEF Jobs, FlagFiles, At, BeforeOperation
  <2>5. InRange([next EXCEPT !.mem = m], Len(manifests))
    BY <2>2, <2>3, <2>4, KeepsRange DEF ClientLabels, ListLabels
  <2> HIDE DEF m, next
  <2>6. QED
    BY <1>2, <1>3, <2>1, <2>2, <2>3, <2>5, StoreThenType
    DEF FlagFiles, StoreThen, JobsFit, TypeInv, TypeOK
<1>4. CASE FlagOperation(p)
  <2> DEFINE m == SetOperationState(job[p].mem, "RECOVERY_REQUIRED")
             next == [job[p] EXCEPT !.at = "flagRecord"]
  <2>1. PICK o \in Outcomes(StoreFaults) : StoreThen(p, m, o, next, Exit(p))
    BY <1>4 DEF FlagOperation
  <2>2. m \in Manifest
    BY <1>1, SetOperationStateType DEF OperationStates
  <2>3. next \in Jobs
    BY GotoType DEF Labels
  <2>4. next.op = job[p].op /\ next.at = "flagRecord" /\ job[p].at \notin BeforeOperation
    BY <1>1, <1>4 DEF Jobs, FlagOperation, At, BeforeOperation
  <2>5. InRange([next EXCEPT !.mem = m], Len(manifests))
    BY <2>2, <2>3, <2>4, KeepsRange DEF ClientLabels, ListLabels
  <2> HIDE DEF m, next
  <2>6. QED
    BY <1>2, <1>4, <2>1, <2>2, <2>3, <2>5, StoreThenType
    DEF FlagOperation, StoreThen, JobsFit, TypeInv, TypeOK
<1>5. CASE FlagRecord(p)
  <2> DEFINE next == [job[p] EXCEPT !.at = "check"]
  <2>1. next \in Jobs
    BY GotoType DEF Labels
  <2>2. next.op = job[p].op /\ next.at = "check" /\ job[p].at \notin BeforeOperation
    BY <1>1, <1>5 DEF Jobs, FlagRecord, At, BeforeOperation
  <2>3. InRange(next, Len(manifests)) /\ job[p].op \in 1 .. Len(manifests)
    BY <1>1, <2>1, <2>2, KeepsRange, JobFacts DEF ClientLabels, ListLabels
  <2>4. PICK o \in Outcomes(StoreFaults) :
           /\ recovery' = IF Takes(o) THEN job[p].op ELSE recovery
           /\ Count(o)
           /\ Continue(p, next) \/ Exit(p)
    BY <1>5 DEF FlagRecord, Goto
  <2> HIDE DEF next
  <2>5. manifests' = manifests /\ recovery' \in 0 .. Len(manifests)
    BY <1>2, <1>5, <2>3, <2>4 DEF FlagRecord
  <2>6. JobsFit'
    BY <1>2, <2>1, <2>3, <2>4, <2>5, ContinueType, ExitType
  <2>7. QED
    BY <1>5, <2>4, <2>5, <2>6, CountType DEF FlagRecord, JobsFit, TypeInv, TypeOK
<1>6. QED
  BY <1>3, <1>4, <1>5 DEF RequireRecovery

LEMMA PrepareType ==
    ASSUME TypeInv, NEW p \in Procs, Refuse(p) \/ Prepare(p)
    PROVE  TypeInv'
<1>1. manifests' = manifests /\ Len(manifests) \in Nat
  <2>1. manifests' = manifests
    BY DEF Refuse, Prepare
  <2>2. QED
    BY <2>1 DEF TypeInv, TypeOK
<1>2. JobsFit'
  <2>1. CASE Refuse(p)
    BY <1>1, <2>1, ExitType DEF Refuse
  <2>2. CASE Prepare(p)
    <3>1. PICK clients \in ChangeLists, target \in Contents :
             Continue(p, [job[p] EXCEPT !.at = "create",
                                        !.mem = NewManifest(clients, target, disk)])
      BY <2>2 DEF Prepare
    <3> DEFINE m == NewManifest(clients, target, disk)
               next == [job[p] EXCEPT !.at = "create", !.mem = m]
    <3>2. m \in Manifest
      BY NewManifestType, ChangeListsAssumption DEF TypeInv, TypeOK
    <3>3. 1 \in 1 .. Len(m.clients)
      <4>1. clients \in Seq(Clients) /\ Len(clients) > 0 /\ m.clients = clients
        BY ChangeListsAssumption DEF NewManifest
      <4>2. QED
        BY <4>1
    <3> HIDE DEF m
    <3>4. next \in Jobs
      <4>1. "create" \in Labels
        BY DEF Labels
      <4>2. QED
        BY <3>2, <4>1, JobFacts DEF Jobs
    <3>5. InRange(next, Len(manifests))
      BY <3>3, JobFacts DEF InRange, Jobs, ClientLabels, ListLabels, BeforeOperation
    <3> HIDE DEF next
    <3>6. QED
      BY <1>1, <3>1, <3>4, <3>5, ContinueType DEF next, m
  <2>3. QED
    BY <2>1, <2>2
<1>3. QED
  BY <1>1, <1>2 DEF Refuse, Prepare, JobsFit, TypeInv, TypeOK

LEMMA CreateManifestType ==
    ASSUME TypeInv, NEW p \in Procs, CreateManifest(p)
    PROVE  TypeInv'
<1>1. PICK o \in Outcomes(StoreFaults) :
         /\ manifests' = IF Takes(o) THEN Append(manifests, job[p].mem) ELSE manifests
         /\ Count(o)
         /\ IF o = "ok"
            THEN Continue(p, [job[p] EXCEPT !.at = "begin", !.op = Len(manifests) + 1])
            ELSE Exit(p)
  BY DEF CreateManifest
<1>2. manifests \in Seq(Manifest) /\ job[p].mem \in Manifest /\ Len(manifests) \in Nat
  BY JobFacts DEF TypeInv, TypeOK
<1>3. Takes(o) => /\ Append(manifests, job[p].mem) \in Seq(Manifest)
                  /\ Len(Append(manifests, job[p].mem)) = Len(manifests) + 1
  BY <1>2
<1>4. /\ manifests' \in Seq(Manifest) /\ Len(manifests') \in Nat
      /\ Len(manifests') >= Len(manifests)
      /\ o = "ok" => Len(manifests') = Len(manifests) + 1
  BY <1>1, <1>2, <1>3 DEF Takes
<1>5. JobsFit'
  <2>1. CASE o = "ok"
    <3> DEFINE n == Len(manifests) + 1
               next == [job[p] EXCEPT !.at = "begin", !.op = n]
    <3>1. n \in Nat /\ n \in 1 .. Len(manifests')
      BY <1>2, <1>4, <2>1
    <3>2. 1 \in 1 .. Len(job[p].mem.clients)
      BY DEF CreateManifest, At, TypeInv, InRange, ListLabels
    <3> HIDE DEF n
    <3>3. next \in Jobs
      <4>1. "begin" \in Labels
        BY DEF Labels
      <4>2. QED
        BY <3>1, <4>1, JobFacts DEF Jobs
    <3>4. InRange(next, Len(manifests'))
      BY <3>1, <3>2, JobFacts DEF InRange, Jobs, ClientLabels, ListLabels
    <3> HIDE DEF next
    <3>5. QED
      BY <1>1, <1>4, <2>1, <3>3, <3>4, ContinueType DEF next, n
  <2>2. CASE o # "ok"
    BY <1>1, <1>4, <2>2, ExitType
  <2>3. QED
    BY <2>1, <2>2
<1>6. recovery' \in 0 .. Len(manifests')
  BY <1>2, <1>4 DEF CreateManifest, TypeInv, TypeOK
<1>7. QED
  BY <1>1, <1>4, <1>5, <1>6, CountType DEF CreateManifest, JobsFit, TypeInv, TypeOK

LEMMA BeginCommitType ==
    ASSUME TypeInv, NEW p \in Procs, BeginCommit(p)
    PROVE  TypeInv'
<1> DEFINE m == SetOperationState(job[p].mem, "COMMITTING")
           next == [job[p] EXCEPT !.at = "commit", !.i = 1, !.j = 1]
<1>1. PICK o \in Outcomes(StoreFaults) : StoreThen(p, m, o, next, Exit(p))
  BY DEF BeginCommit
<1>2. m \in Manifest /\ m.clients = job[p].mem.clients
  BY JobFacts, SetOperationStateType, UpdatesKeepOperation DEF OperationStates, SameOperation
<1>3. next \in Jobs
  <2>1. "commit" \in Labels
    BY DEF Labels
  <2>2. QED
    BY <2>1, JobFacts DEF Jobs
<1>4. job[p].op \in 1 .. Len(manifests) /\ 1 \in 1 .. Len(job[p].mem.clients)
  BY DEF BeginCommit, At, TypeInv, InRange, ListLabels, BeforeOperation
<1>5. InRange([next EXCEPT !.mem = m], Len(manifests))
  BY <1>2, <1>4, JobFacts DEF Jobs, InRange
<1> HIDE DEF m, next
<1>6. QED
  BY <1>1, <1>2, <1>3, <1>5, StoreThenType DEF BeginCommit, StoreThen, JobsFit, TypeInv, TypeOK

(* A step that writes one client file.                                     *)
LEMMA FileStepType ==
    ASSUME TypeInv, NEW p \in Procs, NEW f, NEW x, f \in Files => x \in Contents,
           NEW o, WriteFile(f, x, o), Count(o),
           UNCHANGED <<current, manifests, recovery, crashes>>,
           \/ Exit(p)
           \/ \E next \in Jobs : InRange(next, Len(manifests)) /\ Continue(p, next)
    PROVE  TypeInv'
<1>1. manifests' = manifests /\ Len(manifests) \in Nat
  BY DEF TypeInv, TypeOK
<1>2. JobsFit'
  BY <1>1, ContinueType, ExitType
<1>3. disk' \in Images /\ faults' \in Nat
  BY WriteFileType, CountType
<1>4. QED
  BY <1>1, <1>2, <1>3 DEF JobsFit, TypeInv, TypeOK

(* A step that writes one manifest.                                        *)
LEMMA StoreStepType ==
    ASSUME TypeInv, NEW p \in Procs, NEW m \in Manifest, NEW o, NEW next \in Jobs,
           InRange([next EXCEPT !.mem = m], Len(manifests)),
           WriteManifest(job[p].op, m, o), Count(o),
           o = "ok" => Continue(p, [next EXCEPT !.mem = m]),
           o # "ok" => \/ Exit(p)
                       \/ \E other \in Jobs : /\ InRange(other, Len(manifests))
                                             /\ Continue(p, other),
           UNCHANGED <<disk, current, recovery, crashes>>
    PROVE  TypeInv'
<1>1. /\ manifests' \in Seq(Manifest) /\ Len(manifests') = Len(manifests)
      /\ faults' \in Nat /\ JobsFit'
  BY StoreThenType
<1>2. QED
  BY <1>1 DEF JobsFit, TypeInv, TypeOK

(* The rollback loop started from the job of p.                            *)
LEMMA RollBackStarts ==
    ASSUME TypeInv, NEW p \in Procs, job[p].at \in ClientLabels,
           NEW next \in Jobs, next.mem = job[p].mem, next.op = job[p].op,
           NEW k \in {job[p].i - 1, job[p].i}
    PROVE  /\ RollBackFrom(next, k) \in Jobs
           /\ InRange(RollBackFrom(next, k), Len(manifests))
<1>1. job[p].op \in 1 .. Len(manifests) /\ job[p].i \in 1 .. Len(job[p].mem.clients)
  BY JobFacts DEF ClientLabels, BeforeOperation
<1>2. Len(manifests) \in Nat /\ Len(job[p].mem.clients) \in Nat /\ job[p].i \in Nat
  BY JobFacts DEF TypeInv, TypeOK
<1>3. k \in Nat /\ k <= Len(next.mem.clients)
  BY <1>1, <1>2
<1>4. QED
  BY <1>1, <1>2, <1>3, RollBackFromType

(* The backup of a listed file is a content.                               *)
LEMMA BackupType ==
    ASSUME TypeInv, NEW p \in Procs, NEW f \in Files
    PROVE  job[p].mem.backup[f] \in Contents
<1>1. job[p].mem.backup \in Images
  BY JobFacts DEF Manifest
<1>2. QED
  BY <1>1 DEF Images

LEMMA CommitFileType ==
    ASSUME TypeInv, NEW p \in Procs, CommitFile(p)
    PROVE  TypeInv'
<1>1. job[p] \in Jobs /\ job[p].at = "commit" /\ job[p].j \in Nat
  BY JobFacts DEF CommitFile, At
<1>2. job[p].mem.target \in Contents
  BY JobFacts DEF Manifest
<1>3. InRange(job[p], Len(manifests)) /\ job[p].i \in Nat
  BY JobFacts DEF TypeInv
<1> DEFINE failed == RollBackFrom(job[p], job[p].i - 1)
           undo == [job[p] EXCEPT !.at = "undo"]
           nextFile == [job[p] EXCEPT !.j = @ + 1]
           mark == [job[p] EXCEPT !.at = "mark"]
<1>4. failed \in Jobs /\ InRange(failed, Len(manifests))
  BY <1>1, RollBackStarts DEF ClientLabels
<1>5. undo \in Jobs /\ mark \in Jobs
  BY GotoType DEF Labels
<1>6. InRange(undo, Len(manifests)) /\ InRange(mark, Len(manifests))
  BY <1>1, <1>3 DEF Jobs, InRange, ClientLabels, ListLabels, BeforeOperation
<1>7. nextFile \in Jobs /\ InRange(nextFile, Len(manifests))
  BY <1>1, <1>3 DEF Jobs, InRange
<1>8. PICK o \in Outcomes(ClientFaults) :
         /\ WriteFile(<<Client(p), job[p].j>>, job[p].mem.target, o)
         /\ Count(o)
         /\ \/ Continue(p, failed) \/ Continue(p, undo)
            \/ Continue(p, nextFile) \/ Continue(p, mark)
  BY DEF CommitFile, Goto
<1> HIDE DEF failed, undo, nextFile, mark
<1>9. QED
  BY <1>2, <1>4, <1>5, <1>6, <1>7, <1>8, FileStepType DEF CommitFile

LEMMA UndoCommitType ==
    ASSUME TypeInv, NEW p \in Procs, UndoCommit(p)
    PROVE  TypeInv'
<1> DEFINE first == <<Client(p), 1>>
           flagged == [job[p] EXCEPT !.failed = {Client(p)}]
           next(o) == RollBackFrom(IF o = "ok" THEN job[p] ELSE flagged, job[p].i - 1)
<1>1. job[p] \in Jobs /\ job[p].at \in ClientLabels /\ Client(p) \in Clients
  BY JobFacts DEF UndoCommit, At, ClientLabels
<1>2. flagged \in Jobs /\ flagged.mem = job[p].mem /\ flagged.op = job[p].op
  BY <1>1 DEF Jobs
<1>3. ASSUME NEW o
      PROVE  next(o) \in Jobs /\ InRange(next(o), Len(manifests))
  <2> HIDE DEF flagged
  <2>1. QED
    BY <1>1, <1>2, RollBackStarts
<1>4. PICK o \in Outcomes(ClientFaults) :
         WriteFile(first, job[p].mem.backup[first], o) /\ Count(o) /\ Continue(p, next(o))
  BY DEF UndoCommit
<1>5. first \in Files => job[p].mem.backup[first] \in Contents
  BY BackupType
<1> HIDE DEF first, next
<1>6. QED
  BY <1>3, <1>4, <1>5, FileStepType DEF UndoCommit

(* Replacing the manifest commutes with choosing the rollback's next step. *)
LEMMA RollBackFromMem ==
    ASSUME NEW next \in Jobs, NEW m, NEW k
    PROVE  [RollBackFrom(next, k) EXCEPT !.mem = m] = RollBackFrom([next EXCEPT !.mem = m], k)
<1> DEFINE new == [next EXCEPT !.mem = m]
<1>1. /\ new.failed = next.failed /\ new.saving = next.saving
      /\ \A label, i, j : [[next EXCEPT !.at = label, !.i = i, !.j = j] EXCEPT !.mem = m]
                         = [new EXCEPT !.at = label, !.i = i, !.j = j]
      /\ \A label, i, j : [[next EXCEPT !.i = i, !.j = j, !.at = label] EXCEPT !.mem = m]
                         = [new EXCEPT !.i = i, !.j = j, !.at = label]
  BY DEF Jobs
<1> HIDE DEF new
<1>2. QED
  BY <1>1 DEF RollBackFrom, new

LEMMA MarkCommittedType ==
    ASSUME TypeInv, NEW p \in Procs, MarkCommitted(p)
    PROVE  TypeInv'
<1> DEFINE m == UpdateClientState(job[p].mem, Client(p), "MODIFIED", "COMMITTING")
           more == [job[p] EXCEPT !.at = "commit", !.i = @ + 1, !.j = 1]
           done == [job[p] EXCEPT !.at = "finish", !.i = 0, !.j = 0]
           next == IF job[p].i < Len(job[p].mem.clients) THEN more ELSE done
           failed == RollBackFrom(job[p], job[p].i)
<1>1. PICK o \in Outcomes(StoreFaults) : StoreThen(p, m, o, next, Continue(p, failed))
  BY DEF MarkCommitted
<1>2. m \in Manifest /\ m.clients = job[p].mem.clients
  BY JobFacts, UpdateClientStateType, UpdatesKeepOperation
  DEF OperationStates, FileStates, SameOperation
<1>3. /\ job[p] \in Jobs /\ job[p].at \in ClientLabels
      /\ job[p].op \in 1 .. Len(manifests) /\ job[p].i \in 1 .. Len(job[p].mem.clients)
  BY JobFacts DEF MarkCommitted, At, ClientLabels, BeforeOperation
<1>4. failed \in Jobs /\ InRange(failed, Len(manifests))
  BY <1>3, RollBackStarts
<1>5. "commit" \in Labels /\ "finish" \in Labels
  BY DEF Labels
<1>6. next \in Jobs /\ InRange([next EXCEPT !.mem = m], Len(manifests))
  <2>1. CASE job[p].i < Len(job[p].mem.clients)
    <3> DEFINE i == job[p].i + 1
    <3>1. i \in Nat /\ i \in 1 .. Len(job[p].mem.clients)
      BY <1>3, <2>1, JobFacts
    <3>2. next = [job[p] EXCEPT !.at = "commit", !.i = i, !.j = 1]
      BY <1>3, <2>1 DEF Jobs
    <3> HIDE DEF i, next
    <3>3. next \in Jobs
      BY <1>3, <1>5, <3>1, <3>2 DEF Jobs
    <3>4. InRange([next EXCEPT !.mem = m], Len(manifests))
      BY <1>2, <1>3, <3>1, <3>2 DEF Jobs, InRange, ListLabels
    <3>5. QED
      BY <3>3, <3>4
  <2>2. CASE ~(job[p].i < Len(job[p].mem.clients))
    <3>1. next = [job[p] EXCEPT !.at = "finish", !.i = 0, !.j = 0]
      BY <2>2
    <3> HIDE DEF next
    <3>2. next \in Jobs
      BY <1>3, <1>5, <3>1 DEF Jobs
    <3>3. InRange([next EXCEPT !.mem = m], Len(manifests))
      BY <1>2, <1>3, <3>1 DEF Jobs, InRange, ClientLabels, ListLabels
    <3>4. QED
      BY <3>2, <3>3
  <2>3. QED
    BY <2>1, <2>2
<1> HIDE DEF m, next, failed
<1>7. QED
  BY <1>1, <1>2, <1>4, <1>6, StoreStepType DEF MarkCommitted, StoreThen

LEMMA FinishCommitType ==
    ASSUME TypeInv, NEW p \in Procs, FinishCommit(p)
    PROVE  TypeInv'
<1> DEFINE m == SetOperationState(job[p].mem, "COMMITTED")
           next == [job[p] EXCEPT !.at = "save"]
<1>1. PICK o \in Outcomes(StoreFaults) : StoreThen(p, m, o, next, Exit(p))
  BY DEF FinishCommit
<1>2. m \in Manifest
  BY JobFacts, SetOperationStateType DEF OperationStates
<1>3. next \in Jobs
  BY GotoType DEF Labels
<1>4. next.op = job[p].op /\ next.at = "save" /\ job[p].at \notin BeforeOperation
  BY JobFacts DEF Jobs, FinishCommit, At, BeforeOperation
<1>5. InRange([next EXCEPT !.mem = m], Len(manifests))
  BY <1>2, <1>3, <1>4, KeepsRange DEF ClientLabels, ListLabels
<1> HIDE DEF m, next
<1>6. QED
  BY <1>1, <1>2, <1>3, <1>5, StoreStepType DEF FinishCommit, StoreThen

LEMMA SaveRegistryType ==
    ASSUME TypeInv, NEW p \in Procs, SaveRegistry(p)
    PROVE  TypeInv'
<1> DEFINE m == job[p].mem
           created == NewManifest(m.clients, m.target, m.backup)
           started == [job[p] EXCEPT !.mem = created, !.saving = TRUE]
           next == RollBackFrom(started, Len(m.clients))
<1>1. PICK o \in Outcomes(RegistryFaults) :
         /\ current' = IF Takes(o)
                       THEN [c \in Clients |->
                               IF c \in ClientSet(m) THEN m.target ELSE current[c]]
                       ELSE current
         /\ Count(o)
         /\ Exit(p) \/ Continue(p, next)
  BY DEF SaveRegistry
<1>2. /\ job[p] \in Jobs /\ m \in Manifest /\ m.clients \in Seq(Clients)
      /\ m.target \in Contents /\ m.backup \in Images
      /\ job[p].op \in 1 .. Len(manifests) /\ Len(manifests) \in Nat
  BY JobFacts DEF SaveRegistry, At, Manifest, BeforeOperation, TypeInv, TypeOK
<1>3. created \in Manifest /\ created.clients = m.clients
  BY <1>2, NewManifestType DEF NewManifest
<1> HIDE DEF created
<1>4. started \in Jobs /\ started.mem = created /\ started.op = job[p].op
  BY <1>2, <1>3 DEF Jobs
<1> HIDE DEF started, m
<1>5. next \in Jobs /\ InRange(next, Len(manifests))
  BY <1>2, <1>3, <1>4, RollBackFromType
<1> HIDE DEF next
<1>6. current' \in [Clients -> Contents]
  BY <1>1, <1>2 DEF TypeInv, TypeOK
<1>7. manifests' = manifests /\ JobsFit'
  BY <1>1, <1>2, <1>5, ContinueType, ExitType DEF SaveRegistry
<1>8. QED
  BY <1>1, <1>6, <1>7, CountType DEF SaveRegistry, JobsFit, TypeInv, TypeOK

(* What the rollback loop does when a client fails.                        *)
LEMMA RollBackFailedType ==
    ASSUME TypeInv, NEW p \in Procs, job[p].at \in {"rollback", "markBack"}, RollBackFailed(p)
    PROVE  \E next \in Jobs : InRange(next, Len(manifests)) /\ Continue(p, next)
<1>1. /\ job[p] \in Jobs /\ job[p].at \in ClientLabels /\ InRange(job[p], Len(manifests))
      /\ Client(p) \in Clients
  BY JobFacts DEF ClientLabels, TypeInv
<1>2. CASE job[p].saving
  <2> DEFINE next == [job[p] EXCEPT !.at = "flagClient"]
  <2>1. next \in Jobs
    BY GotoType DEF Labels
  <2>2. InRange(next, Len(manifests))
    BY <1>1 DEF Jobs, InRange, ClientLabels, ListLabels, BeforeOperation
  <2>3. QED
    BY <1>2, <2>1, <2>2 DEF RollBackFailed, Goto
<1>3. CASE ~job[p].saving
  <2> DEFINE flagged == [job[p] EXCEPT !.failed = @ \cup {Client(p)}]
             next == RollBackFrom(flagged, job[p].i - 1)
  <2>1. flagged \in Jobs /\ flagged.mem = job[p].mem /\ flagged.op = job[p].op
    BY <1>1 DEF Jobs
  <2>2. Continue(p, next)
    BY <1>3 DEF RollBackFailed
  <2> HIDE DEF flagged
  <2>3. next \in Jobs /\ InRange(next, Len(manifests))
    BY <1>1, <2>1, RollBackStarts
  <2>4. QED
    BY <2>2, <2>3
<1>4. QED
  BY <1>2, <1>3

LEMMA RollBackFileType ==
    ASSUME TypeInv, NEW p \in Procs, RollBackFile(p)
    PROVE  TypeInv'
<1> DEFINE f == <<Client(p), job[p].j>>
           nextFile == [job[p] EXCEPT !.j = @ + 1]
           marking == [job[p] EXCEPT !.at = "markBack"]
<1>1. job[p] \in Jobs /\ job[p].at = "rollback" /\ InRange(job[p], Len(manifests))
  BY JobFacts DEF RollBackFile, At, TypeInv
<1>2. nextFile \in Jobs /\ InRange(nextFile, Len(manifests))
  BY <1>1 DEF Jobs, InRange
<1>3. marking \in Jobs /\ InRange(marking, Len(manifests))
  <2>1. marking \in Jobs
    BY GotoType DEF Labels
  <2>2. QED
    BY <1>1, <2>1 DEF Jobs, InRange, ClientLabels, ListLabels, BeforeOperation
<1>4. f \in Files => job[p].mem.backup[f] \in Contents
  BY BackupType
<1>5. PICK o \in Outcomes(ClientFaults) :
         /\ WriteFile(f, job[p].mem.backup[f], o)
         /\ Count(o)
         /\ RollBackFailed(p) \/ Continue(p, nextFile) \/ Continue(p, marking)
  BY DEF RollBackFile, Goto
<1>6. \E next \in Jobs : InRange(next, Len(manifests)) /\ Continue(p, next)
  <2> HIDE DEF nextFile, marking
  <2>1. QED
    BY <1>1, <1>2, <1>3, <1>5, RollBackFailedType
<1> HIDE DEF f
<1>7. QED
  BY <1>4, <1>5, <1>6, FileStepType DEF RollBackFile

(* The rollback loop goes on with the manifest it has just written.        *)
LEMMA RollBackWrites ==
    ASSUME TypeInv, NEW p \in Procs, job[p].at \in ClientLabels,
           NEW m \in Manifest, m.clients = job[p].mem.clients,
           NEW next \in Jobs, next.mem = job[p].mem, next.op = job[p].op
    PROVE  /\ RollBackFrom(next, job[p].i - 1) \in Jobs
           /\ InRange([RollBackFrom(next, job[p].i - 1) EXCEPT !.mem = m], Len(manifests))
<1> DEFINE new == [next EXCEPT !.mem = m]
           k == job[p].i - 1
<1>1. /\ job[p].op \in 1 .. Len(manifests) /\ Len(manifests) \in Nat
      /\ k \in Nat /\ k <= Len(m.clients)
  BY JobFacts DEF ClientLabels, BeforeOperation, TypeInv, TypeOK
<1>2. new \in Jobs /\ new.mem = m /\ new.op = job[p].op
  BY DEF Jobs
<1>3. [RollBackFrom(next, k) EXCEPT !.mem = m] = RollBackFrom(new, k)
  BY RollBackFromMem
<1>4. RollBackFrom(next, k) \in Jobs
  BY RollBackStarts
<1> HIDE DEF new, k
<1>5. InRange(RollBackFrom(new, k), Len(manifests))
  BY <1>1, <1>2, RollBackFromType
<1>6. QED
  BY <1>3, <1>4, <1>5 DEF k

LEMMA MarkRolledBackType ==
    ASSUME TypeInv, NEW p \in Procs, MarkRolledBack(p)
    PROVE  TypeInv'
<1> DEFINE m == UpdateClientState(job[p].mem, Client(p), "ROLLED_BACK", "ROLLING_BACK")
           next == RollBackFrom(job[p], job[p].i - 1)
<1>1. PICK o \in Outcomes(StoreFaults) : StoreThen(p, m, o, next, RollBackFailed(p))
  BY DEF MarkRolledBack
<1>2. m \in Manifest /\ m.clients = job[p].mem.clients
  BY JobFacts, UpdateClientStateType, UpdatesKeepOperation
  DEF OperationStates, FileStates, SameOperation
<1>3. job[p] \in Jobs /\ job[p].at = "markBack"
  BY JobFacts DEF MarkRolledBack, At
<1> HIDE DEF m
<1>4. next \in Jobs /\ InRange([next EXCEPT !.mem = m], Len(manifests))
  BY <1>2, <1>3, RollBackWrites DEF ClientLabels
<1> HIDE DEF next
<1>5. QED
  BY <1>1, <1>2, <1>3, <1>4, StoreStepType, RollBackFailedType DEF MarkRolledBack, StoreThen

LEMMA FlagClientType ==
    ASSUME TypeInv, NEW p \in Procs, FlagClient(p)
    PROVE  TypeInv'
<1> DEFINE m == UpdateClientState(job[p].mem, Client(p), "RECOVERY_REQUIRED", "RECOVERY_REQUIRED")
           flagged == [job[p] EXCEPT !.failed = @ \cup {Client(p)}]
           next == RollBackFrom(flagged, job[p].i - 1)
<1>1. PICK o \in Outcomes(StoreFaults) : StoreThen(p, m, o, next, Exit(p))
  BY DEF FlagClient
<1>2. m \in Manifest /\ m.clients = job[p].mem.clients
  BY JobFacts, UpdateClientStateType, UpdatesKeepOperation
  DEF OperationStates, FileStates, SameOperation
<1>3. job[p] \in Jobs /\ job[p].at \in ClientLabels /\ Client(p) \in Clients
  BY JobFacts DEF FlagClient, At, ClientLabels
<1>4. flagged \in Jobs /\ flagged.mem = job[p].mem /\ flagged.op = job[p].op
  BY <1>3 DEF Jobs
<1> HIDE DEF m, flagged
<1>5. next \in Jobs /\ InRange([next EXCEPT !.mem = m], Len(manifests))
  BY <1>2, <1>3, <1>4, RollBackWrites
<1> HIDE DEF next
<1>6. QED
  BY <1>1, <1>2, <1>5, StoreStepType DEF FlagClient, StoreThen

LEMMA FlagFailedType ==
    ASSUME TypeInv, NEW p \in Procs, FlagFailed(p)
    PROVE  TypeInv'
<1>1. PICK c \in job[p].failed, o \in Outcomes(StoreFaults) :
         StoreThen(p, UpdateClientState(job[p].mem, c, "RECOVERY_REQUIRED", "RECOVERY_REQUIRED"),
                   o, [job[p] EXCEPT !.failed = @ \ {c},
                                     !.at = IF job[p].failed = {c} THEN "report" ELSE @],
                   Exit(p))
  BY DEF FlagFailed
<1> DEFINE m == UpdateClientState(job[p].mem, c, "RECOVERY_REQUIRED", "RECOVERY_REQUIRED")
           label == IF job[p].failed = {c} THEN "report" ELSE job[p].at
           next == [job[p] EXCEPT !.failed = @ \ {c},
                                  !.at = IF job[p].failed = {c} THEN "report" ELSE @]
<1>2. m \in Manifest
  BY JobFacts, UpdateClientStateType DEF OperationStates, FileStates
<1>3. job[p] \in Jobs /\ job[p].at = "flagFailed"
  BY JobFacts DEF FlagFailed, At
<1>4. label \in {"report", "flagFailed"}
  BY <1>3
<1>5. next = [job[p] EXCEPT !.failed = @ \ {c}, !.at = label]
  BY <1>3 DEF Jobs
<1> HIDE DEF next, label
<1>6. next \in Jobs /\ next.op = job[p].op /\ next.at = label
  <2>1. label \in Labels
    BY <1>4 DEF Labels
  <2>2. QED
    BY <1>3, <1>5, <2>1 DEF Jobs
<1>7. InRange([next EXCEPT !.mem = m], Len(manifests))
  BY <1>2, <1>3, <1>4, <1>6, KeepsRange DEF ClientLabels, ListLabels, BeforeOperation
<1>8. StoreThen(p, m, o, next, Exit(p))
  BY <1>1 DEF next
<1> HIDE DEF m
<1>9. QED
  BY <1>2, <1>6, <1>7, <1>8, StoreStepType DEF FlagFailed, StoreThen

LEMMA ReportType ==
    ASSUME TypeInv, NEW p \in Procs, ReportRecovery(p) \/ SettleRollBack(p)
    PROVE  TypeInv'
<1>1. /\ job[p].op \in 1 .. Len(manifests) /\ Len(manifests) \in Nat
      /\ recovery \in 0 .. Len(manifests)
  <2>1. Len(manifests) \in Nat /\ recovery \in 0 .. Len(manifests)
    BY DEF TypeInv, TypeOK
  <2>2. job[p].at \notin BeforeOperation
    BY DEF ReportRecovery, SettleRollBack, At, BeforeOperation
  <2>3. QED
    BY <2>1, <2>2, JobFacts
<1>2. CASE ReportRecovery(p)
  <2>1. manifests' = manifests /\ recovery' \in 0 .. Len(manifests)
    BY <1>1, <1>2 DEF ReportRecovery
  <2>2. JobsFit'
    BY <1>1, <1>2, <2>1, ExitType DEF ReportRecovery
  <2>3. QED
    BY <1>2, <2>1, <2>2, CountType DEF ReportRecovery, JobsFit, TypeInv, TypeOK
<1>3. CASE SettleRollBack(p)
  <2> DEFINE m == SetOperationState(job[p].mem, "ROLLED_BACK")
  <2>1. m \in Manifest
    BY JobFacts, SetOperationStateType DEF OperationStates
  <2>2. manifests' \in Seq(Manifest) /\ Len(manifests') = Len(manifests)
    BY <1>3, <2>1, WriteManifestType DEF SettleRollBack
  <2>3. JobsFit'
    BY <1>1, <1>3, <2>2, ExitType DEF SettleRollBack
  <2>4. QED
    BY <1>1, <1>3, <2>2, <2>3, CountType DEF SettleRollBack, JobsFit, TypeInv, TypeOK
<1>4. QED
  BY <1>2, <1>3

LEMMA CheckType ==
    ASSUME TypeInv, NEW p \in Procs, RefuseRecover(p) \/ AcceptRecover(p)
    PROVE  TypeInv'
<1>1. manifests' = manifests /\ Len(manifests) \in Nat
  <2>1. manifests' = manifests
    BY DEF RefuseRecover, AcceptRecover
  <2>2. QED
    BY <2>1 DEF TypeInv, TypeOK
<1>2. JobsFit'
  <2>1. CASE RefuseRecover(p)
    BY <1>1, <2>1, ExitType DEF RefuseRecover
  <2>2. CASE AcceptRecover(p)
    <3> DEFINE files == {f \in Listed(job[p].mem) : Recoverable(job[p].mem, f)}
               label == IF files = {} THEN "settleFiles" ELSE "restore"
               next == [job[p] EXCEPT !.todo = files, !.at = label]
    <3>1. Continue(p, next)
      BY <2>2 DEF AcceptRecover
    <3>2. files \in SUBSET Files /\ label \in {"settleFiles", "restore"}
      BY DEF Listed
    <3>3. job[p] \in Jobs /\ job[p].at = "check"
      BY <2>2, JobFacts DEF AcceptRecover, At
    <3> HIDE DEF files, label
    <3>4. next \in Jobs /\ next.op = job[p].op /\ next.at = label
      <4>1. label \in Labels
        BY <3>2 DEF Labels
      <4>2. QED
        BY <3>2, <3>3, <4>1 DEF Jobs
    <3> HIDE DEF next
    <3>5. InRange(next, Len(manifests))
      BY <3>2, <3>3, <3>4, KeepsRange, JobFacts DEF ClientLabels, ListLabels, BeforeOperation
    <3>6. QED
      BY <1>1, <3>1, <3>4, <3>5, ContinueType
  <2>3. QED
    BY <2>1, <2>2
<1>3. QED
  BY <1>1, <1>2 DEF RefuseRecover, AcceptRecover, JobsFit, TypeInv, TypeOK

LEMMA RestoreFileType ==
    ASSUME TypeInv, NEW p \in Procs, RestoreFile(p)
    PROVE  TypeInv'
<1>1. PICK f \in job[p].todo, o \in Outcomes(ClientFaults) :
         /\ WriteFile(f, job[p].mem.backup[f], o)
         /\ Count(o)
         /\ \/ Exit(p)
            \/ Continue(p, [job[p] EXCEPT
                              !.todo = @ \ {f},
                              !.at = IF job[p].todo = {f} THEN "settleFiles" ELSE @])
  BY DEF RestoreFile
<1> DEFINE label == IF job[p].todo = {f} THEN "settleFiles" ELSE job[p].at
           next == [job[p] EXCEPT !.todo = @ \ {f},
                                  !.at = IF job[p].todo = {f} THEN "settleFiles" ELSE @]
<1>2. job[p] \in Jobs /\ job[p].at = "restore"
  BY JobFacts DEF RestoreFile, At
<1>3. label \in {"settleFiles", "restore"}
  BY <1>2
<1>4. next = [job[p] EXCEPT !.todo = @ \ {f}, !.at = label]
  BY <1>2 DEF Jobs
<1>5. Exit(p) \/ Continue(p, next)
  BY <1>1
<1>6. f \in Files => job[p].mem.backup[f] \in Contents
  BY BackupType
<1> HIDE DEF next, label
<1>7. next \in Jobs /\ next.op = job[p].op /\ next.at = label
  <2>1. label \in Labels
    BY <1>3 DEF Labels
  <2>2. QED
    BY <1>2, <1>4, <2>1 DEF Jobs
<1>8. InRange(next, Len(manifests))
  BY <1>2, <1>3, <1>7, KeepsRange, JobFacts DEF ClientLabels, ListLabels, BeforeOperation
<1>9. QED
  BY <1>1, <1>5, <1>6, <1>7, <1>8, FileStepType DEF RestoreFile

LEMMA SettleType ==
    ASSUME TypeInv, NEW p \in Procs, SettleFiles(p) \/ SettleOperation(p)
    PROVE  TypeInv'
<1>1. CASE SettleFiles(p)
  <2> DEFINE m == UpdateAllFileStates(job[p].mem, "ROLLED_BACK")
             next == [job[p] EXCEPT !.at = "settleOperation"]
  <2>1. PICK o \in Outcomes(StoreFaults) : StoreThen(p, m, o, next, Exit(p))
    BY <1>1 DEF SettleFiles
  <2>2. m \in Manifest
    BY JobFacts, UpdateAllFileStatesType DEF FileStates
  <2>3. next \in Jobs
    BY GotoType DEF Labels
  <2>4. next.op = job[p].op /\ next.at = "settleOperation" /\ job[p].at \notin BeforeOperation
    BY <1>1, JobFacts DEF Jobs, SettleFiles, At, BeforeOperation
  <2>5. InRange([next EXCEPT !.mem = m], Len(manifests))
    BY <2>2, <2>3, <2>4, KeepsRange DEF ClientLabels, ListLabels
  <2> HIDE DEF m, next
  <2>6. QED
    BY <1>1, <2>1, <2>2, <2>3, <2>5, StoreStepType DEF SettleFiles, StoreThen
<1>2. CASE SettleOperation(p)
  <2> DEFINE m == SetOperationState(job[p].mem, "ROLLED_BACK")
             next == [job[p] EXCEPT !.at = "clear"]
  <2>1. PICK o \in Outcomes(StoreFaults) : StoreThen(p, m, o, next, Exit(p))
    BY <1>2 DEF SettleOperation
  <2>2. m \in Manifest
    BY JobFacts, SetOperationStateType DEF OperationStates
  <2>3. next \in Jobs
    BY GotoType DEF Labels
  <2>4. next.op = job[p].op /\ next.at = "clear" /\ job[p].at \notin BeforeOperation
    BY <1>2, JobFacts DEF Jobs, SettleOperation, At, BeforeOperation
  <2>5. InRange([next EXCEPT !.mem = m], Len(manifests))
    BY <2>2, <2>3, <2>4, KeepsRange DEF ClientLabels, ListLabels
  <2> HIDE DEF m, next
  <2>6. QED
    BY <1>2, <2>1, <2>2, <2>3, <2>5, StoreStepType DEF SettleOperation, StoreThen
<1>3. QED
  BY <1>1, <1>2

LEMMA EndType ==
    ASSUME TypeInv, NEW p \in Procs, ClearRecord(p) \/ Crash(p)
    PROVE  TypeInv'
<1>1. manifests' = manifests /\ Len(manifests) \in Nat /\ Exit(p)
  <2>1. manifests' = manifests /\ Exit(p)
    BY DEF ClearRecord, Crash
  <2>2. QED
    BY <2>1 DEF TypeInv, TypeOK
<1>2. JobsFit'
  BY <1>1, ExitType
<1>3. recovery' \in 0 .. Len(manifests) /\ crashes' \in Nat
  BY <1>1 DEF ClearRecord, Crash, NoRecord, TypeInv, TypeOK
<1>4. QED
  BY <1>1, <1>2, <1>3 DEF ClearRecord, Crash, JobsFit, TypeInv, TypeOK

LEMMA InitType == Init => TypeInv
<1> SUFFICES ASSUME Init PROVE TypeInv
  OBVIOUS
<1>1. disk \in Images /\ current \in [Clients -> Contents]
  BY DEF Init, Images
<1>2. manifests \in Seq(Manifest) /\ Len(manifests) = 0
  BY DEF Init
<1>3. job \in [Procs -> Jobs] /\ \A p \in Procs : InRange(job[p], Len(manifests))
  BY IdleJobType DEF Init
<1>4. QED
  BY <1>1, <1>2, <1>3 DEF Init, NoRecord, TypeInv, TypeOK

LEMMA NextType == TypeInv /\ [Next]_vars => TypeInv'
<1> SUFFICES ASSUME TypeInv, [Next]_vars PROVE TypeInv'
  OBVIOUS
<1>1. CASE UNCHANGED vars
  BY <1>1 DEF vars, TypeInv, TypeOK
<1>2. ASSUME NEW p \in Procs, StartSwitch(p) \/ StartRecover(p) \/ Step(p) \/ Crash(p)
      PROVE  TypeInv'
  <2>1. CASE StartSwitch(p) \/ StartRecover(p)
    BY <2>1, StartType DEF StartSwitch, StartRecover
  <2>2. CASE Gate(p) \/ RequireRecovery(p)
    BY <2>2, GateType, RequireRecoveryType
  <2>3. CASE Refuse(p) \/ Prepare(p)
    BY <2>3, PrepareType
  <2>4. CASE Commit(p)
    BY <2>4, CreateManifestType, BeginCommitType, CommitFileType, UndoCommitType,
       MarkCommittedType, FinishCommitType, SaveRegistryType DEF Commit
  <2>5. CASE RollBack(p)
    BY <2>5, RollBackFileType, MarkRolledBackType, FlagClientType, FlagFailedType,
       ReportType DEF RollBack
  <2>6. CASE RefuseRecover(p) \/ AcceptRecover(p)
    BY <2>6, CheckType
  <2>7. CASE Restore(p)
    BY <2>7, RestoreFileType, SettleType, EndType DEF Restore
  <2>8. CASE Crash(p)
    BY <2>8, EndType
  <2>9. QED
    BY <1>2, <2>1, <2>2, <2>3, <2>4, <2>5, <2>6, <2>7, <2>8 DEF Step
<1>3. QED
  BY <1>1, <1>2 DEF Next

(* Every variable keeps its type, and no process ever works on a client    *)
(* outside its change list or on an operation that has no manifest.        *)
THEOREM TypeInvariant == Spec => []TypeInv
<1>1. TypeInv /\ [Next]_vars => TypeInv'
  BY NextType
<1>2. QED
  BY <1>1, InitType, PTL DEF Spec

(* The variables of the transaction have their types in every state.       *)
THEOREM TypeCorrect == Spec => []TypeOK
<1>1. TypeInv => TypeOK
  BY DEF TypeInv
<1>2. QED
  BY <1>1, TypeInvariant, PTL

-----------------------------------------------------------------------------
(* Mutual exclusion and the gate.                                          *)
(*                                                                         *)
(* OnlyNewestIncomplete is not inductive alone.  It needs that a process   *)
(* inside a command holds the lock (so that nobody else changes the store  *)
(* under it), that a switch about to write its manifest still finds        *)
(* nothing owed, that a process only writes the manifest of the newest     *)
(* operation, and that recovery.json names that operation.                 *)
LockHeld == \A p \in Procs : job[p].at # "idle" => lock = p

ClearWhenPreparing == \A p \in Procs : job[p].at \in {"prepare", "create"} => ~Owed

OnNewest == \A p \in Procs : job[p].at \notin BeforeOperation => job[p].op = Len(manifests)

RecordNewest == recovery # NoRecord => recovery = Len(manifests)

StoreInv == OnlyNewestIncomplete /\ RecordNewest

SafeInv == LockHeld /\ ClearWhenPreparing /\ OnNewest /\ StoreInv

(* p goes on with the operation it has in hand, or ends its command.       *)
KeepsOperation(next, p) == next.op = job[p].op /\ next.at \notin BeforeOperation

GoesOn(p) ==
    Exit(p) \/ \E next \in Jobs : KeepsOperation(next, p) /\ Continue(p, next)

(* A step of a process that works on an operation: it writes at most the   *)
(* manifest of that operation, and recovery.json names at most that one.   *)
Works(p) ==
    /\ job[p].at \notin BeforeOperation
    /\ GoesOn(p)
    /\ UNCHANGED manifests \/ \E m, o : WriteManifest(job[p].op, m, o)
    /\ recovery' \in {recovery, job[p].op, NoRecord}

LEMMA StoreThenGoesOn ==
    ASSUME TypeInv, NEW p \in Procs, NEW m \in Manifest, NEW o,
           NEW next \in Jobs, KeepsOperation(next, p), NEW otherwise, otherwise => GoesOn(p),
           IF o = "ok" THEN Continue(p, [next EXCEPT !.mem = m]) ELSE otherwise
    PROVE  GoesOn(p)
<1> DEFINE new == [next EXCEPT !.mem = m]
<1>1. new \in Jobs /\ new.op = next.op /\ new.at = next.at
  BY DEF Jobs
<1> HIDE DEF new
<1>2. CASE o = "ok"
  BY <1>1, <1>2 DEF new, GoesOn, KeepsOperation
<1>3. CASE o # "ok"
  BY <1>3
<1>4. QED
  BY <1>2, <1>3

LEMMA RollBackKeeps ==
    ASSUME NEW p \in Procs, NEW next \in Jobs, next.op = job[p].op, NEW k
    PROVE  KeepsOperation(RollBackFrom(next, k), p)
<1> DEFINE label == IF next.failed = {} THEN "settle"
                    ELSE IF next.saving THEN "report" ELSE "flagFailed"
<1>1. label \notin BeforeOperation /\ "rollback" \notin BeforeOperation
  BY DEF BeforeOperation
<1>2. RollBackFrom(next, k) = IF k > 0 THEN [next EXCEPT !.at = "rollback", !.i = k, !.j = 1]
                              ELSE [next EXCEPT !.i = 0, !.j = 0, !.at = label]
  BY DEF RollBackFrom
<1> HIDE DEF label
<1>3. QED
  BY <1>1, <1>2 DEF KeepsOperation, Jobs

LEMMA GotoKeeps ==
    ASSUME TypeInv, NEW p \in Procs, NEW label \in Labels \ BeforeOperation
    PROVE  /\ [job[p] EXCEPT !.at = label] \in Jobs
           /\ KeepsOperation([job[p] EXCEPT !.at = label], p)
BY JobFacts, GotoType DEF KeepsOperation, Jobs

LEMMA RollBackFailedGoesOn ==
    ASSUME TypeInv, NEW p \in Procs, job[p].at \in {"rollback", "markBack"}, RollBackFailed(p)
    PROVE  GoesOn(p)
<1>1. /\ job[p] \in Jobs /\ job[p].at \in ClientLabels /\ Client(p) \in Clients
  BY JobFacts DEF ClientLabels
<1>2. CASE job[p].saving
  BY <1>2, GotoKeeps DEF RollBackFailed, Goto, GoesOn, Labels, BeforeOperation
<1>3. CASE ~job[p].saving
  <2> DEFINE flagged == [job[p] EXCEPT !.failed = @ \cup {Client(p)}]
             next == RollBackFrom(flagged, job[p].i - 1)
  <2>1. flagged \in Jobs /\ flagged.op = job[p].op /\ flagged.mem = job[p].mem
    BY <1>1 DEF Jobs
  <2>2. Continue(p, next)
    BY <1>3 DEF RollBackFailed
  <2> HIDE DEF flagged
  <2>3. next \in Jobs /\ KeepsOperation(next, p)
    BY <1>1, <2>1, RollBackStarts, RollBackKeeps
  <2>4. QED
    BY <2>2, <2>3 DEF GoesOn
<1>4. QED
  BY <1>2, <1>3

LEMMA RequireRecoveryWorks ==
    ASSUME TypeInv, NEW p \in Procs, RequireRecovery(p)
    PROVE  Works(p)
<1>1. job[p].at \notin BeforeOperation
  BY DEF RequireRecovery, FlagFiles, FlagOperation, FlagRecord, At, BeforeOperation
<1>2. CASE FlagFiles(p)
  <2> DEFINE m == UpdateAllFileStates(job[p].mem, "RECOVERY_REQUIRED")
             next == [job[p] EXCEPT !.at = "flagOperation"]
  <2>1. PICK o \in Outcomes(StoreFaults) : StoreThen(p, m, o, next, Exit(p))
    BY <1>2 DEF FlagFiles
  <2>2. m \in Manifest
    BY JobFacts, UpdateAllFileStatesType DEF FileStates
  <2>3. next \in Jobs /\ KeepsOperation(next, p)
    BY GotoKeeps DEF Labels, BeforeOperation
  <2> HIDE DEF m, next
  <2>4. GoesOn(p)
    BY <2>1, <2>2, <2>3, StoreThenGoesOn DEF StoreThen, GoesOn
  <2>5. QED
    BY <1>1, <1>2, <2>1, <2>4 DEF FlagFiles, StoreThen, Works
<1>3. CASE FlagOperation(p)
  <2> DEFINE m == SetOperationState(job[p].mem, "RECOVERY_REQUIRED")
             next == [job[p] EXCEPT !.at = "flagRecord"]
  <2>1. PICK o \in Outcomes(StoreFaults) : StoreThen(p, m, o, next, Exit(p))
    BY <1>3 DEF FlagOperation
  <2>2. m \in Manifest
    BY JobFacts, SetOperationStateType DEF OperationStates
  <2>3. next \in Jobs /\ KeepsOperation(next, p)
    BY GotoKeeps DEF Labels, BeforeOperation
  <2> HIDE DEF m, next
  <2>4. GoesOn(p)
    BY <2>1, <2>2, <2>3, StoreThenGoesOn DEF StoreThen, GoesOn
  <2>5. QED
    BY <1>1, <1>3, <2>1, <2>4 DEF FlagOperation, StoreThen, Works
<1>4. CASE FlagRecord(p)
  <2>1. GoesOn(p)
    BY <1>4, GotoKeeps DEF FlagRecord, Goto, GoesOn, Labels, BeforeOperation
  <2>2. QED
    BY <1>1, <1>4, <2>1 DEF FlagRecord, Works
<1>5. QED
  BY <1>2, <1>3, <1>4 DEF RequireRecovery

(* The writes of a commit once its manifest exists.                        *)
LEMMA CommitWorks ==
    ASSUME TypeInv, NEW p \in Procs,
           \/ BeginCommit(p) \/ CommitFile(p) \/ UndoCommit(p)
           \/ MarkCommitted(p) \/ FinishCommit(p) \/ SaveRegistry(p)
    PROVE  Works(p)
<1>1. job[p].at \notin BeforeOperation /\ job[p] \in Jobs
  BY JobFacts DEF BeginCommit, CommitFile, UndoCommit, MarkCommitted, FinishCommit,
                  SaveRegistry, At, BeforeOperation
<1>2. CASE BeginCommit(p)
  <2> DEFINE m == SetOperationState(job[p].mem, "COMMITTING")
             next == [job[p] EXCEPT !.at = "commit", !.i = 1, !.j = 1]
  <2>1. PICK o \in Outcomes(StoreFaults) : StoreThen(p, m, o, next, Exit(p))
    BY <1>2 DEF BeginCommit
  <2>2. m \in Manifest
    BY JobFacts, SetOperationStateType DEF OperationStates
  <2>3. next \in Jobs /\ KeepsOperation(next, p)
    <3>1. "commit" \in Labels \ BeforeOperation
      BY DEF Labels, BeforeOperation
    <3>2. QED
      BY <1>1, <3>1 DEF Jobs, KeepsOperation
  <2> HIDE DEF m, next
  <2>4. GoesOn(p)
    BY <2>1, <2>2, <2>3, StoreThenGoesOn DEF StoreThen, GoesOn
  <2>5. QED
    BY <1>1, <1>2, <2>1, <2>4 DEF BeginCommit, StoreThen, Works
<1>3. CASE CommitFile(p)
  <2> DEFINE failed == RollBackFrom(job[p], job[p].i - 1)
             nextFile == [job[p] EXCEPT !.j = @ + 1]
  <2>1. job[p].at = "commit"
    BY <1>3 DEF CommitFile, At
  <2>2. failed \in Jobs /\ KeepsOperation(failed, p)
    BY <1>1, <2>1, RollBackStarts, RollBackKeeps DEF ClientLabels
  <2>3. nextFile \in Jobs /\ KeepsOperation(nextFile, p)
    BY <1>1 DEF Jobs, KeepsOperation
  <2>4. PICK o \in Outcomes(ClientFaults) :
           \/ Continue(p, failed) \/ Goto(p, "undo")
           \/ Continue(p, nextFile) \/ Goto(p, "mark")
    BY <1>3 DEF CommitFile
  <2> HIDE DEF failed, nextFile
  <2>5. "undo" \in Labels \ BeforeOperation /\ "mark" \in Labels \ BeforeOperation
    BY DEF Labels, BeforeOperation
  <2>6. GoesOn(p)
    BY <2>2, <2>3, <2>4, <2>5, GotoKeeps DEF Goto, GoesOn
  <2>7. QED
    BY <1>1, <1>3, <2>6 DEF CommitFile, Works
<1>4. CASE UndoCommit(p)
  <2> DEFINE flagged == [job[p] EXCEPT !.failed = {Client(p)}]
             next(o) == RollBackFrom(IF o = "ok" THEN job[p] ELSE flagged, job[p].i - 1)
  <2>1. job[p].at \in ClientLabels /\ Client(p) \in Clients
    BY <1>4, JobFacts DEF UndoCommit, At, ClientLabels
  <2>2. flagged \in Jobs /\ flagged.mem = job[p].mem /\ flagged.op = job[p].op
    BY <1>1, <2>1 DEF Jobs
  <2>3. ASSUME NEW o PROVE next(o) \in Jobs /\ KeepsOperation(next(o), p)
    <3> HIDE DEF flagged
    <3>1. QED
      BY <1>1, <2>1, <2>2, RollBackStarts, RollBackKeeps
  <2>4. PICK o \in Outcomes(ClientFaults) : Continue(p, next(o))
    BY <1>4 DEF UndoCommit
  <2> HIDE DEF next
  <2>5. GoesOn(p)
    BY <2>3, <2>4 DEF GoesOn
  <2>6. QED
    BY <1>1, <1>4, <2>5 DEF UndoCommit, Works
<1>5. CASE MarkCommitted(p)
  <2> DEFINE m == UpdateClientState(job[p].mem, Client(p), "MODIFIED", "COMMITTING")
             more == [job[p] EXCEPT !.at = "commit", !.i = @ + 1, !.j = 1]
             done == [job[p] EXCEPT !.at = "finish", !.i = 0, !.j = 0]
             next == IF job[p].i < Len(job[p].mem.clients) THEN more ELSE done
             failed == RollBackFrom(job[p], job[p].i)
  <2>1. PICK o \in Outcomes(StoreFaults) : StoreThen(p, m, o, next, Continue(p, failed))
    BY <1>5 DEF MarkCommitted
  <2>2. m \in Manifest /\ job[p].at \in ClientLabels
    BY <1>5, JobFacts, UpdateClientStateType
    DEF OperationStates, FileStates, MarkCommitted, At, ClientLabels
  <2>3. "commit" \in Labels \ BeforeOperation /\ "finish" \in Labels \ BeforeOperation
    BY DEF Labels, BeforeOperation
  <2>4. more \in Jobs /\ KeepsOperation(more, p)
    <3> DEFINE i == job[p].i + 1
    <3>1. i \in Nat
      BY JobFacts
    <3>2. more = [job[p] EXCEPT !.at = "commit", !.i = i, !.j = 1]
      BY <1>1 DEF Jobs
    <3> HIDE DEF i, more
    <3>3. QED
      BY <1>1, <2>3, <3>1, <3>2 DEF Jobs, KeepsOperation
  <2>5. done \in Jobs /\ KeepsOperation(done, p)
    BY <1>1, <2>3 DEF Jobs, KeepsOperation
  <2>6. failed \in Jobs /\ KeepsOperation(failed, p)
    BY <1>1, <2>2, RollBackStarts, RollBackKeeps
  <2> HIDE DEF m, more, done, failed
  <2>7. GoesOn(p)
    BY <2>1, <2>2, <2>4, <2>5, <2>6, StoreThenGoesOn DEF StoreThen, GoesOn
  <2>8. QED
    BY <1>1, <1>5, <2>1, <2>7 DEF MarkCommitted, StoreThen, Works
<1>6. CASE FinishCommit(p)
  <2> DEFINE m == SetOperationState(job[p].mem, "COMMITTED")
             next == [job[p] EXCEPT !.at = "save"]
  <2>1. PICK o \in Outcomes(StoreFaults) : StoreThen(p, m, o, next, Exit(p))
    BY <1>6 DEF FinishCommit
  <2>2. m \in Manifest
    BY JobFacts, SetOperationStateType DEF OperationStates
  <2>3. next \in Jobs /\ KeepsOperation(next, p)
    BY GotoKeeps DEF Labels, BeforeOperation
  <2> HIDE DEF m, next
  <2>4. GoesOn(p)
    BY <2>1, <2>2, <2>3, StoreThenGoesOn DEF StoreThen, GoesOn
  <2>5. QED
    BY <1>1, <1>6, <2>1, <2>4 DEF FinishCommit, StoreThen, Works
<1>7. CASE SaveRegistry(p)
  <2> DEFINE m == job[p].mem
             created == NewManifest(m.clients, m.target, m.backup)
             started == [job[p] EXCEPT !.mem = created, !.saving = TRUE]
             next == RollBackFrom(started, Len(m.clients))
  <2>1. Exit(p) \/ Continue(p, next)
    BY <1>7 DEF SaveRegistry
  <2>2. /\ m \in Manifest /\ m.clients \in Seq(Clients)
        /\ m.target \in Contents /\ m.backup \in Images
        /\ job[p].op \in 1 .. Len(manifests) /\ Len(manifests) \in Nat
    BY <1>1, JobFacts DEF Manifest, TypeInv, TypeOK
  <2>3. created \in Manifest /\ created.clients = m.clients
    BY <2>2, NewManifestType DEF NewManifest
  <2> HIDE DEF created
  <2>4. started \in Jobs /\ started.mem = created /\ started.op = job[p].op
    BY <1>1, <2>3 DEF Jobs
  <2> HIDE DEF started, m
  <2>5. next \in Jobs /\ KeepsOperation(next, p)
    BY <2>2, <2>3, <2>4, RollBackFromType, RollBackKeeps
  <2> HIDE DEF next
  <2>6. GoesOn(p)
    BY <2>1, <2>5 DEF GoesOn
  <2>7. QED
    BY <1>1, <1>7, <2>6 DEF SaveRegistry, Works
<1>8. QED
  BY <1>2, <1>3, <1>4, <1>5, <1>6, <1>7

LEMMA RollBackWorks ==
    ASSUME TypeInv, NEW p \in Procs, RollBack(p)
    PROVE  Works(p)
<1>1. job[p].at \notin BeforeOperation /\ job[p] \in Jobs
  BY JobFacts DEF RollBack, RollBackFile, MarkRolledBack, FlagClient, FlagFailed,
                  ReportRecovery, SettleRollBack, At, BeforeOperation
<1>2. CASE RollBackFile(p)
  <2> DEFINE nextFile == [job[p] EXCEPT !.j = @ + 1]
  <2>1. job[p].at = "rollback"
    BY <1>2 DEF RollBackFile, At
  <2>2. nextFile \in Jobs /\ KeepsOperation(nextFile, p)
    BY <1>1 DEF Jobs, KeepsOperation
  <2>3. RollBackFailed(p) \/ Continue(p, nextFile) \/ Goto(p, "markBack")
    BY <1>2 DEF RollBackFile
  <2>4. "markBack" \in Labels \ BeforeOperation
    BY DEF Labels, BeforeOperation
  <2> HIDE DEF nextFile
  <2>5. GoesOn(p)
    BY <2>1, <2>2, <2>3, <2>4, GotoKeeps, RollBackFailedGoesOn DEF Goto, GoesOn
  <2>6. QED
    BY <1>1, <1>2, <2>5 DEF RollBackFile, Works
<1>3. CASE MarkRolledBack(p)
  <2> DEFINE m == UpdateClientState(job[p].mem, Client(p), "ROLLED_BACK", "ROLLING_BACK")
             next == RollBackFrom(job[p], job[p].i - 1)
  <2>1. PICK o \in Outcomes(StoreFaults) : StoreThen(p, m, o, next, RollBackFailed(p))
    BY <1>3 DEF MarkRolledBack
  <2>2. m \in Manifest
    BY JobFacts, UpdateClientStateType DEF OperationStates, FileStates
  <2>3. job[p].at = "markBack"
    BY <1>3 DEF MarkRolledBack, At
  <2>4. next \in Jobs /\ KeepsOperation(next, p)
    BY <1>1, <2>3, RollBackStarts, RollBackKeeps DEF ClientLabels
  <2> HIDE DEF m, next
  <2>5. GoesOn(p)
    BY <2>1, <2>2, <2>3, <2>4, StoreThenGoesOn, RollBackFailedGoesOn DEF StoreThen
  <2>6. QED
    BY <1>1, <1>3, <2>1, <2>5 DEF MarkRolledBack, StoreThen, Works
<1>4. CASE FlagClient(p)
  <2> DEFINE m == UpdateClientState(job[p].mem, Client(p),
                                    "RECOVERY_REQUIRED", "RECOVERY_REQUIRED")
             flagged == [job[p] EXCEPT !.failed = @ \cup {Client(p)}]
             next == RollBackFrom(flagged, job[p].i - 1)
  <2>1. PICK o \in Outcomes(StoreFaults) : StoreThen(p, m, o, next, Exit(p))
    BY <1>4 DEF FlagClient
  <2>2. m \in Manifest
    BY JobFacts, UpdateClientStateType DEF OperationStates, FileStates
  <2>3. job[p].at \in ClientLabels /\ Client(p) \in Clients
    BY <1>4, JobFacts DEF FlagClient, At, ClientLabels
  <2>4. flagged \in Jobs /\ flagged.mem = job[p].mem /\ flagged.op = job[p].op
    BY <1>1, <2>3 DEF Jobs
  <2> HIDE DEF m, flagged
  <2>5. next \in Jobs /\ KeepsOperation(next, p)
    BY <1>1, <2>3, <2>4, RollBackStarts, RollBackKeeps
  <2> HIDE DEF next
  <2>6. GoesOn(p)
    BY <2>1, <2>2, <2>5, StoreThenGoesOn DEF StoreThen, GoesOn
  <2>7. QED
    BY <1>1, <1>4, <2>1, <2>6 DEF FlagClient, StoreThen, Works
<1>5. CASE FlagFailed(p)
  <2>1. PICK c \in job[p].failed, o \in Outcomes(StoreFaults) :
           StoreThen(p, UpdateClientState(job[p].mem, c,
                                          "RECOVERY_REQUIRED", "RECOVERY_REQUIRED"),
                     o, [job[p] EXCEPT !.failed = @ \ {c},
                                       !.at = IF job[p].failed = {c} THEN "report" ELSE @],
                     Exit(p))
    BY <1>5 DEF FlagFailed
  <2> DEFINE m == UpdateClientState(job[p].mem, c, "RECOVERY_REQUIRED", "RECOVERY_REQUIRED")
             label == IF job[p].failed = {c} THEN "report" ELSE job[p].at
             next == [job[p] EXCEPT !.failed = @ \ {c},
                                    !.at = IF job[p].failed = {c} THEN "report" ELSE @]
  <2>2. m \in Manifest
    BY JobFacts, UpdateClientStateType DEF OperationStates, FileStates
  <2>3. next = [job[p] EXCEPT !.failed = @ \ {c}, !.at = label]
    BY <1>1 DEF Jobs
  <2>4. label \in Labels \ BeforeOperation
    BY <1>1 DEF Labels, BeforeOperation, Jobs
  <2>5. StoreThen(p, m, o, next, Exit(p))
    BY <2>1
  <2> HIDE DEF next, label, m
  <2>6. next \in Jobs /\ KeepsOperation(next, p)
    BY <1>1, <2>3, <2>4 DEF Jobs, KeepsOperation
  <2>7. GoesOn(p)
    BY <2>2, <2>5, <2>6, StoreThenGoesOn DEF StoreThen, GoesOn
  <2>8. QED
    BY <1>1, <1>5, <2>5, <2>7 DEF FlagFailed, StoreThen, Works
<1>6. CASE ReportRecovery(p)
  BY <1>1, <1>6 DEF ReportRecovery, Works, GoesOn
<1>7. CASE SettleRollBack(p)
  BY <1>1, <1>7 DEF SettleRollBack, Works, GoesOn
<1>8. QED
  BY <1>2, <1>3, <1>4, <1>5, <1>6, <1>7 DEF RollBack

LEMMA RestoreWorks ==
    ASSUME TypeInv, NEW p \in Procs, RefuseRecover(p) \/ AcceptRecover(p) \/ Restore(p)
    PROVE  Works(p)
<1>1. job[p].at \notin BeforeOperation /\ job[p] \in Jobs
  BY JobFacts DEF RefuseRecover, AcceptRecover, Restore, RestoreFile, SettleFiles,
                  SettleOperation, ClearRecord, At, BeforeOperation
<1>2. CASE RefuseRecover(p)
  BY <1>1, <1>2 DEF RefuseRecover, Works, GoesOn
<1>3. CASE AcceptRecover(p)
  <2> DEFINE files == {f \in Listed(job[p].mem) : Recoverable(job[p].mem, f)}
             label == IF files = {} THEN "settleFiles" ELSE "restore"
             next == [job[p] EXCEPT !.todo = files, !.at = label]
  <2>1. Continue(p, next)
    BY <1>3 DEF AcceptRecover
  <2>2. files \in SUBSET Files /\ label \in Labels \ BeforeOperation
    BY DEF Listed, Labels, BeforeOperation
  <2> HIDE DEF files, label
  <2>3. next \in Jobs /\ KeepsOperation(next, p)
    BY <1>1, <2>2 DEF Jobs, KeepsOperation
  <2> HIDE DEF next
  <2>4. QED
    BY <1>1, <1>3, <2>1, <2>3 DEF AcceptRecover, Works, GoesOn
<1>4. CASE RestoreFile(p)
  <2>1. PICK f \in job[p].todo :
           \/ Exit(p)
           \/ Continue(p, [job[p] EXCEPT
                             !.todo = @ \ {f},
                             !.at = IF job[p].todo = {f} THEN "settleFiles" ELSE @])
    BY <1>4 DEF RestoreFile
  <2> DEFINE label == IF job[p].todo = {f} THEN "settleFiles" ELSE job[p].at
             next == [job[p] EXCEPT !.todo = @ \ {f},
                                    !.at = IF job[p].todo = {f} THEN "settleFiles" ELSE @]
  <2>2. next = [job[p] EXCEPT !.todo = @ \ {f}, !.at = label]
    BY <1>1 DEF Jobs
  <2>3. label \in Labels \ BeforeOperation
    BY <1>1 DEF Labels, BeforeOperation, Jobs
  <2>4. Exit(p) \/ Continue(p, next)
    BY <2>1
  <2> HIDE DEF next, label
  <2>5. next \in Jobs /\ KeepsOperation(next, p)
    BY <1>1, <2>2, <2>3 DEF Jobs, KeepsOperation
  <2>6. QED
    BY <1>1, <1>4, <2>4, <2>5 DEF RestoreFile, Works, GoesOn
<1>5. CASE SettleFiles(p)
  <2> DEFINE m == UpdateAllFileStates(job[p].mem, "ROLLED_BACK")
             next == [job[p] EXCEPT !.at = "settleOperation"]
  <2>1. PICK o \in Outcomes(StoreFaults) : StoreThen(p, m, o, next, Exit(p))
    BY <1>5 DEF SettleFiles
  <2>2. m \in Manifest
    BY JobFacts, UpdateAllFileStatesType DEF FileStates
  <2>3. next \in Jobs /\ KeepsOperation(next, p)
    BY GotoKeeps DEF Labels, BeforeOperation
  <2> HIDE DEF m, next
  <2>4. GoesOn(p)
    BY <2>1, <2>2, <2>3, StoreThenGoesOn DEF StoreThen, GoesOn
  <2>5. QED
    BY <1>1, <1>5, <2>1, <2>4 DEF SettleFiles, StoreThen, Works
<1>6. CASE SettleOperation(p)
  <2> DEFINE m == SetOperationState(job[p].mem, "ROLLED_BACK")
             next == [job[p] EXCEPT !.at = "clear"]
  <2>1. PICK o \in Outcomes(StoreFaults) : StoreThen(p, m, o, next, Exit(p))
    BY <1>6 DEF SettleOperation
  <2>2. m \in Manifest
    BY JobFacts, SetOperationStateType DEF OperationStates
  <2>3. next \in Jobs /\ KeepsOperation(next, p)
    BY GotoKeeps DEF Labels, BeforeOperation
  <2> HIDE DEF m, next
  <2>4. GoesOn(p)
    BY <2>1, <2>2, <2>3, StoreThenGoesOn DEF StoreThen, GoesOn
  <2>5. QED
    BY <1>1, <1>6, <2>1, <2>4 DEF SettleOperation, StoreThen, Works
<1>7. CASE ClearRecord(p)
  BY <1>1, <1>7 DEF ClearRecord, Works, GoesOn
<1>8. QED
  BY <1>2, <1>3, <1>4, <1>5, <1>6, <1>7 DEF Restore

(* The process holding the lock leaves a store that satisfies StoreInv and *)
(* a job that fits it: the other processes are idle, so SafeInv holds.     *)
FitsStore(jb) ==
    /\ jb.at \in {"prepare", "create"} => ~Owed
    /\ jb.at \notin BeforeOperation => jb.op = Len(manifests)

LEMMA HolderSteps ==
    ASSUME TypeInv, SafeInv, NEW p \in Procs, job[p].at # "idle", StoreInv',
           job' \in [Procs -> Jobs],
           \/ Exit(p)
           \/ \E next \in Jobs : Continue(p, next) /\ FitsStore(job[p])'
    PROVE  SafeInv'
<1>1. \A q \in Procs : q # p => job[q].at = "idle"
  BY DEF SafeInv, LockHeld
<1>2. \A q \in Procs : q # p => job'[q] = job[q]
  BY DEF TypeInv, TypeOK, Exit, Continue
<1>3. \A q \in Procs : q # p => job'[q].at = "idle"
  BY <1>1, <1>2
<1>4. CASE Exit(p)
  <2>1. job'[p].at = "idle"
    BY <1>4 DEF TypeInv, TypeOK, Exit, IdleJob
  <2>2. QED
    BY <1>3, <2>1 DEF SafeInv, LockHeld, ClearWhenPreparing, OnNewest, BeforeOperation
<1>5. CASE UNCHANGED lock /\ FitsStore(job[p])'
  <2>1. lock' = p
    BY <1>5 DEF SafeInv, LockHeld
  <2>2. QED
    BY <1>3, <1>5, <2>1
    DEF FitsStore, SafeInv, LockHeld, ClearWhenPreparing, OnNewest, BeforeOperation
<1>6. QED
  BY <1>4, <1>5 DEF Continue

(* Working on the newest operation leaves the store as StoreInv wants it.  *)
LEMMA WorksSafe ==
    ASSUME TypeInv, TypeInv', SafeInv, NEW p \in Procs, Works(p)
    PROVE  SafeInv' /\ Len(manifests') = Len(manifests)
<1>1. /\ job[p].op = Len(manifests) /\ job[p].op \in 1 .. Len(manifests)
      /\ job[p].at # "idle"
  BY JobFacts DEF Works, SafeInv, OnNewest, BeforeOperation
<1>2. /\ manifests \in Seq(Manifest) /\ manifests' \in Seq(Manifest)
      /\ Len(manifests) \in Nat /\ Len(manifests') \in Nat
  BY DEF TypeInv, TypeOK
<1>3. DOMAIN manifests' = DOMAIN manifests
  BY DEF Works, WriteManifest
<1>4. Len(manifests') = Len(manifests)
  BY <1>2, <1>3, LenProperties
<1>5. \A op \in 1 .. Len(manifests) : op # Len(manifests) => manifests'[op] = manifests[op]
  BY <1>1, <1>2 DEF Works, WriteManifest
<1>6. OnlyNewestIncomplete'
  <2>1. \A op \in 1 .. Len(manifests) : op # Len(manifests) => Finalized(manifests[op])
    BY DEF SafeInv, StoreInv, OnlyNewestIncomplete, Incomplete
  <2>2. QED
    BY <1>4, <1>5, <2>1 DEF OnlyNewestIncomplete, Incomplete
<1>7. RecordNewest'
  BY <1>1, <1>4 DEF Works, RecordNewest, SafeInv, StoreInv
<1>8. ASSUME NEW next \in Jobs, KeepsOperation(next, p), Continue(p, next)
      PROVE  FitsStore(job[p])'
  <2>1. job'[p] = next
    BY <1>8 DEF Continue, TypeInv, TypeOK
  <2>2. QED
    BY <1>1, <1>4, <1>8, <2>1 DEF KeepsOperation, FitsStore, BeforeOperation
<1>9. job' \in [Procs -> Jobs]
  BY DEF TypeInv, TypeOK
<1>10. QED
  BY <1>1, <1>4, <1>6, <1>7, <1>8, <1>9, HolderSteps DEF Works, GoesOn, StoreInv

LEMMA StartSafe ==
    ASSUME TypeInv, SafeInv, NEW p \in Procs, NEW cmd, Start(p, cmd)
    PROVE  SafeInv' /\ manifests' = manifests
<1>1. \A q \in Procs : job[q].at = "idle"
  BY ProcsAssumption DEF SafeInv, LockHeld, Start
<1>2. \A q \in Procs : job'[q].at = IF q = p THEN "gate" ELSE "idle"
  BY <1>1 DEF Start, TypeInv, TypeOK, Jobs
<1>3. lock' = p /\ recovery' = recovery /\ manifests' = manifests
  BY DEF Start
<1>4. QED
  BY <1>2, <1>3 DEF SafeInv, LockHeld, ClearWhenPreparing, OnNewest, StoreInv,
     OnlyNewestIncomplete, RecordNewest, BeforeOperation

LEMMA GateSafe ==
    ASSUME TypeInv, TypeInv', SafeInv, NEW p \in Procs, Gate(p) \/ Refuse(p) \/ Prepare(p)
    PROVE  SafeInv' /\ manifests' = manifests
<1>1. manifests' = manifests /\ recovery' = recovery /\ job[p].at \in {"gate", "prepare"}
  BY DEF Gate, GateRecorded, GateIncomplete, GateClear, Refuse, Prepare, At
<1>2. StoreInv' /\ Owed' = Owed /\ job' \in [Procs -> Jobs]
  BY <1>1 DEF SafeInv, StoreInv, OnlyNewestIncomplete, RecordNewest, Owed, TypeInv, TypeOK
<1>3. ASSUME NEW next \in Jobs, Continue(p, next), FitsStore(next)
      PROVE  FitsStore(job[p])'
  <2>1. job'[p] = next
    BY <1>3 DEF Continue, TypeInv, TypeOK
  <2>2. QED
    BY <1>1, <1>2, <1>3, <2>1 DEF FitsStore
<1>4. job[p] \in Jobs
  BY JobFacts
<1>5. Exit(p) \/ \E next \in Jobs : Continue(p, next) /\ FitsStore(next)
  <2>1. ASSUME NEW label \in {"check", "flagFiles"}, NEW op \in 1 .. Len(manifests),
               op = Len(manifests),
               Continue(p, [job[p] EXCEPT !.at = label, !.op = op, !.mem = manifests[op]])
        PROVE  \E next \in Jobs : Continue(p, next) /\ FitsStore(next)
    <3> DEFINE next == [job[p] EXCEPT !.at = label, !.op = op, !.mem = manifests[op]]
    <3>1. next \in Jobs
      <4>1. manifests[op] \in Manifest /\ op \in Nat
        BY DEF TypeInv, TypeOK
      <4>2. label \in Labels
        BY <2>1 DEF Labels
      <4>3. QED
        BY <1>4, <4>1, <4>2 DEF Jobs
    <3>2. FitsStore(next)
      BY <1>4, <2>1 DEF FitsStore, Jobs
    <3>3. QED
      BY <2>1, <3>1, <3>2
  <2>2. CASE GateRecorded(p)
    <3>1. recovery \in 1 .. Len(manifests) /\ recovery = Len(manifests)
      BY <2>2 DEF GateRecorded, TypeInv, TypeOK, NoRecord, SafeInv, StoreInv, RecordNewest
    <3>2. QED
      BY <2>1, <2>2, <3>1 DEF GateRecorded
  <2>3. CASE GateIncomplete(p)
    <3>1. PICK op \in 1 .. Len(manifests) :
             /\ IsLatestIncomplete(manifests, op)
             /\ Continue(p, [job[p] EXCEPT !.at = "flagFiles", !.op = op,
                                           !.mem = manifests[op]])
      BY <2>3 DEF GateIncomplete
    <3>2. op = Len(manifests)
      BY <3>1 DEF IsLatestIncomplete, SafeInv, StoreInv, OnlyNewestIncomplete
    <3>3. QED
      BY <2>1, <3>1, <3>2
  <2>4. CASE GateClear(p)
    <3> DEFINE next == [job[p] EXCEPT !.at = "prepare"]
    <3>1. next \in Jobs /\ next.at = "prepare"
      <4>1. next \in Jobs
        BY GotoType DEF Labels
      <4>2. next.at = "prepare"
        BY <1>4 DEF Jobs
      <4>3. QED
        BY <4>1, <4>2
    <3> HIDE DEF next
    <3>2. FitsStore(next)
      BY <2>4, <3>1 DEF FitsStore, GateClear, Owed, BeforeOperation
    <3>3. QED
      BY <2>4, <3>1, <3>2 DEF GateClear, Goto, next
  <2>5. CASE Refuse(p)
    BY <2>5 DEF Refuse
  <2>6. CASE Prepare(p)
    <3>1. PICK clients \in ChangeLists, target \in Contents :
             Continue(p, [job[p] EXCEPT !.at = "create",
                                        !.mem = NewManifest(clients, target, disk)])
      BY <2>6 DEF Prepare
    <3> DEFINE m == NewManifest(clients, target, disk)
               next == [job[p] EXCEPT !.at = "create", !.mem = m]
    <3>2. m \in Manifest
      BY NewManifestType, ChangeListsAssumption DEF TypeInv, TypeOK
    <3>3. "create" \in Labels /\ ~Owed
      BY <2>6 DEF Labels, SafeInv, ClearWhenPreparing, Prepare, At
    <3>4. Continue(p, next)
      BY <3>1
    <3> HIDE DEF m
    <3>5. next \in Jobs /\ FitsStore(next)
      BY <1>4, <3>2, <3>3 DEF Jobs, FitsStore, BeforeOperation
    <3>6. QED
      BY <3>4, <3>5
  <2>7. QED
    BY <2>2, <2>3, <2>4, <2>5, <2>6 DEF Gate
<1>6. QED
  BY <1>1, <1>2, <1>3, <1>5, HolderSteps

LEMMA CreateManifestSafe ==
    ASSUME TypeInv, TypeInv', SafeInv, NEW p \in Procs, CreateManifest(p)
    PROVE  SafeInv' /\ ~Owed
<1>1. PICK o \in Outcomes(StoreFaults) :
         /\ manifests' = IF Takes(o) THEN Append(manifests, job[p].mem) ELSE manifests
         /\ IF o = "ok"
            THEN Continue(p, [job[p] EXCEPT !.at = "begin", !.op = Len(manifests) + 1])
            ELSE Exit(p)
  BY DEF CreateManifest
<1>2. /\ recovery = NoRecord /\ Incomplete(manifests) = {} /\ ~Owed
      /\ job[p].at = "create" /\ recovery' = recovery
  BY DEF SafeInv, ClearWhenPreparing, CreateManifest, At, Owed
<1>3. manifests \in Seq(Manifest) /\ Len(manifests) \in Nat /\ job[p].mem \in Manifest
  BY JobFacts DEF TypeInv, TypeOK
<1>4. StoreInv'
  <2>1. CASE manifests' = manifests
    BY <1>2, <2>1 DEF StoreInv, OnlyNewestIncomplete, RecordNewest
  <2>2. CASE manifests' = Append(manifests, job[p].mem)
    <3>1. /\ Len(manifests') = Len(manifests) + 1
          /\ \A op \in 1 .. Len(manifests) : manifests'[op] = manifests[op]
      BY <1>3, <2>2
    <3>2. \A op \in 1 .. Len(manifests') : op # Len(manifests') => Finalized(manifests'[op])
      BY <1>2, <1>3, <3>1 DEF Incomplete
    <3>3. QED
      BY <1>2, <3>2 DEF StoreInv, OnlyNewestIncomplete, RecordNewest, Incomplete
  <2>3. QED
    BY <1>1, <2>1, <2>2
<1>5. CASE o = "ok"
  <2> DEFINE n == Len(manifests) + 1
             next == [job[p] EXCEPT !.at = "begin", !.op = n]
  <2>1. Len(manifests') = n
    BY <1>1, <1>3, <1>5 DEF Takes
  <2>2. Continue(p, next)
    BY <1>1, <1>5
  <2>3. next.at = "begin" /\ next.op = n
    BY JobFacts DEF Jobs
  <2> HIDE DEF n, next
  <2>4. job'[p] = next /\ job' \in [Procs -> Jobs]
    BY <2>2 DEF Continue, TypeInv, TypeOK
  <2>5. next \in Jobs /\ FitsStore(job[p])'
    BY <2>1, <2>3, <2>4 DEF FitsStore, BeforeOperation
  <2>6. QED
    BY <1>2, <1>4, <2>2, <2>4, <2>5, HolderSteps
<1>6. CASE o # "ok"
  BY <1>1, <1>2, <1>4, <1>6, HolderSteps DEF TypeInv, TypeOK
<1>7. QED
  BY <1>5, <1>6

LEMMA InitSafe == Init => SafeInv
<1> SUFFICES ASSUME Init PROVE SafeInv
  OBVIOUS
<1>1. \A p \in Procs : job[p].at = "idle"
  BY DEF Init, IdleJob
<1>2. manifests = <<>> /\ Len(manifests) = 0 /\ recovery = NoRecord
  BY DEF Init
<1>3. QED
  BY <1>1, <1>2 DEF SafeInv, LockHeld, ClearWhenPreparing, OnNewest, StoreInv,
     OnlyNewestIncomplete, RecordNewest, Incomplete, BeforeOperation

(* A new manifest appears only when nothing is owed.                       *)
LEMMA NextSafe ==
    ASSUME TypeInv, TypeInv', SafeInv, [Next]_vars
    PROVE  SafeInv' /\ (Len(manifests') > Len(manifests) => ~Owed)
<1>1. Len(manifests) \in Nat /\ manifests \in Seq(Manifest)
  BY DEF TypeInv, TypeOK
<1>2. CASE UNCHANGED vars
  <2>1. SafeInv'
    BY <1>2 DEF vars, SafeInv, LockHeld, ClearWhenPreparing, OnNewest, StoreInv,
       OnlyNewestIncomplete, RecordNewest, Owed
  <2>2. QED
    BY <1>1, <1>2, <2>1 DEF vars
<1>3. ASSUME NEW p \in Procs, StartSwitch(p) \/ StartRecover(p) \/ Step(p) \/ Crash(p)
      PROVE  SafeInv' /\ (Len(manifests') > Len(manifests) => ~Owed)
  <2>1. CASE StartSwitch(p) \/ StartRecover(p)
    BY <1>1, <2>1, StartSafe DEF StartSwitch, StartRecover
  <2>2. CASE Gate(p) \/ Refuse(p) \/ Prepare(p)
    BY <1>1, <2>2, GateSafe
  <2>3. CASE CreateManifest(p)
    BY <2>3, CreateManifestSafe
  <2>4. ASSUME Works(p)
        PROVE  SafeInv' /\ (Len(manifests') > Len(manifests) => ~Owed)
    BY <1>1, <2>4, WorksSafe
  <2>5. CASE RequireRecovery(p)
    BY <2>4, <2>5, RequireRecoveryWorks
  <2>6. CASE Commit(p)
    BY <2>3, <2>4, <2>6, CommitWorks DEF Commit
  <2>7. CASE RollBack(p)
    BY <2>4, <2>7, RollBackWorks
  <2>8. CASE RefuseRecover(p) \/ AcceptRecover(p) \/ Restore(p)
    BY <2>4, <2>8, RestoreWorks
  <2>9. CASE Crash(p)
    <3>1. manifests' = manifests /\ recovery' = recovery /\ Exit(p) /\ job[p].at # "idle"
      BY <2>9 DEF Crash
    <3>2. StoreInv'
      BY <3>1 DEF SafeInv, StoreInv, OnlyNewestIncomplete, RecordNewest
    <3>3. SafeInv'
      BY <3>1, <3>2, HolderSteps DEF TypeInv, TypeOK
    <3>4. QED
      BY <1>1, <3>1, <3>3
  <2>10. QED
    BY <1>3, <2>1, <2>2, <2>5, <2>6, <2>7, <2>8, <2>9 DEF Step
<1>4. QED
  BY <1>2, <1>3 DEF Next

(* The inductive invariant holds in every state.                           *)
THEOREM SafeInvariant == Spec => [](TypeInv /\ SafeInv)
<1>1. Init => TypeInv /\ SafeInv
  BY InitType, InitSafe
<1>2. TypeInv /\ SafeInv /\ [Next]_vars => TypeInv' /\ SafeInv'
  BY NextType, NextSafe
<1>3. QED
  BY <1>1, <1>2, PTL DEF Spec

(* Two processes are never inside a locked command at once.                *)
THEOREM MutualExclusionHolds == Spec => []MutualExclusion
<1>1. SafeInv => MutualExclusion
  BY DEF SafeInv, LockHeld, MutualExclusion
<1>2. QED
  BY <1>1, SafeInvariant, PTL

(* Only the newest operation can be unfinished: latest_incomplete finds    *)
(* every operation that recovery still has to repair.                      *)
THEOREM OnlyNewestIncompleteHolds == Spec => []OnlyNewestIncomplete
<1>1. SafeInv => OnlyNewestIncomplete
  BY DEF SafeInv, StoreInv
<1>2. QED
  BY <1>1, SafeInvariant, PTL

(* No operation starts while an earlier one is owed, however many          *)
(* processes, crashes and failed writes there are.                         *)
THEOREM NoStartWhileOwedHolds == Spec => NoStartWhileOwed
<1> DEFINE A == Len(manifests') > Len(manifests) => ~Owed
<1>1. TypeInv /\ SafeInv /\ (TypeInv /\ SafeInv)' /\ [Next]_vars => [A]_vars
  BY NextSafe
<1>2. QED
  BY <1>1, SafeInvariant, PTL DEF Spec, NoStartWhileOwed
=============================================================================
