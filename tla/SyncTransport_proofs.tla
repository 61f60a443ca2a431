-------------------------- MODULE SyncTransport_proofs --------------------------
(***************************************************************************)
(* What holds of SyncTransport for any files, archives, edits and number   *)
(* of pushes, proved with TLAPS.                                           *)
(***************************************************************************)
EXTENDS SyncTransport, FiniteSetTheorems, TLAPS

-----------------------------------------------------------------------------
(* The inductive invariant.                                                *)

SessionRecords ==
    [at : SessionLabels, up : Nat, closed : BOOLEAN, alive : BOOLEAN, said : Messages]

(* The labels between taking the lock of the target and giving it back,    *)
(* and those from which a session may still come to apply its archive.     *)
Working == {"preflight", "receive", "apply", "answer"}

Unapplied == {"starting", "preflight", "receive", "apply"}

(* Those at which no command runs.                                         *)
Inactive == {"none", "ended"}

(* The source of a push that did not end: what it will put back.           *)
BackupInv ==
    source.at # "idle" =>
        /\ source.report = "none"
        /\ source.at = "standardise" => source.was = registry /\ source.backup = "missing"
        /\ source.backup = "missing" => source.was \in {"missing", registry}
        /\ source.backup # "missing" => source.backup = source.was

(* What the source knows of its connection.                                *)
ConnectionInv ==
    /\ source.at \in {"standardise", "collect"} => pushes < MaxPushes
    /\ source.at = "connect" =>
          /\ baseline.transfer < pushes
          /\ \A p \in Protocols : sessions[<<pushes, p>>].at \in Inactive
    /\ Connected =>
          /\ pushes >= 1
          /\ \A p \in Protocols \ {source.protocol} : sessions[<<pushes, p>>].at \in Inactive
          /\ source.at # "greeting" => sessions[Current].at # "starting"
          /\ source.at # "answer" /\ ~OutputEnded(Current) => ~sessions[Current].closed
          /\ sessions[Current].said = "unsupported" => baseline.transfer < pushes
          /\ sessions[Current].said = "committed" => baseline.transfer = pushes

(* What is known of session s.                                             *)
SessionInv(s) ==
    /\ s[1] > pushes => sessions[s] = Unopened
    /\ sessions[s].at \in Working => lock = s
    /\ s # Current \/ ~Connected => sessions[s].closed \/ sessions[s].at \in Inactive
    /\ sessions[s].said \in {"unsupported", "committed"} => sessions[s].at = "ended"
    /\ sessions[s].at = "starting" => sessions[s].up = 0 /\ sessions[s].said = Silence
    /\ sessions[s].at \in Unapplied /\ s[1] <= baseline.transfer =>
          sessions[s].closed /\ sessions[s].up = 0
    /\ sessions[s].at \in {"apply", "answer"} => sessions[s].closed
    /\ sessions[s].at = "apply" => Accepts(s)
    /\ sessions[s].at = "answer" => baseline.transfer = s[1]

OwnInv == \A file \in Files \ own : target[file] = baseline.files[file]

IInv ==
    /\ TypeOK
    /\ BackupInv
    /\ ConnectionInv
    /\ \A s \in Sessions : SessionInv(s)
    /\ OwnInv

-----------------------------------------------------------------------------
(* Sessions and archives.                                                  *)

LEMMA SessionParts ==
    /\ \A s \in Sessions : s[1] \in Pushes /\ s[2] \in Protocols /\ s = <<s[1], s[2]>>
    /\ \A t \in Pushes, p \in Protocols : <<t, p>> \in Sessions
BY DEF Sessions

LEMMA SessionNumbers ==
    ASSUME TypeOK, NEW x \in Sessions
    PROVE  x[1] \in Nat /\ pushes \in Nat
<1>1. x[1] \in Pushes
  BY SessionParts
<1>2. pushes \in 0 .. MaxPushes
  BY DEF TypeOK
<1>3. QED
  BY <1>1, <1>2 DEF Pushes

(* The present files of an archive can be counted.                         *)
LEMMA SizeType ==
    ASSUME NEW archive \in Archives
    PROVE  Size(archive) \in Nat /\ Size(archive) >= 2
<1> DEFINE present == {f \in Files : archive[f] # Absent}
<1>1. Cardinality(present) \in Nat
  BY FilesAssumption, FS_Subset, FS_CardinalityType
<1>2. QED
  BY <1>1 DEF Size

LEMMA ItemsType ==
    ASSUME TypeOK, NEW s \in Sessions
    PROVE  /\ Items(s) \in Nat /\ Items(s) >= 2
           /\ Lead(s) \in {0, 1} /\ Items(s) > Lead(s) + 1
           /\ Items(s) = Lead(s) + Size(archives[s[1]])
<1>1. Size(archives[s[1]]) \in Nat /\ Size(archives[s[1]]) >= 2
  BY SizeType, SessionParts DEF TypeOK
<1>2. QED
  BY <1>1 DEF Items, Lead

LEMMA ItemsStable ==
    ASSUME NEW s, archives'[s[1]] = archives[s[1]]
    PROVE  Items(s)' = Items(s)
BY DEF Items, Size, Lead

(* A push with a connection, or about to have one, has a session.          *)
LEMMA CurrentIsSession ==
    ASSUME TypeOK, ConnectionInv, Connected \/ source.at = "connect"
    PROVE  /\ pushes \in Pushes
           /\ source.protocol \in Protocols
           /\ Current \in Sessions
           /\ Current[1] = pushes /\ Current[2] = source.protocol
<1>1. pushes >= 1 /\ pushes <= MaxPushes /\ pushes \in Nat
  BY BoundsAssumption DEF TypeOK, ConnectionInv
<1>2. source.protocol \in Protocols
  BY DEF TypeOK
<1>3. pushes \in Pushes
  BY <1>1, BoundsAssumption DEF Pushes
<1>4. QED
  BY <1>2, <1>3, SessionParts DEF Current

(* What is left of a connection that breaks.                               *)
LEMMA BrokenRecord ==
    ASSUME TypeOK, NEW s \in Sessions, NEW left \in SUBSET Messages,
           NEW r \in Broken(s, left)
    PROVE  /\ r \in SessionRecords
           /\ r.at = sessions[s].at
           /\ r.up <= sessions[s].up
           /\ r.closed /\ ~r.alive
           /\ r.said \in left
           /\ r.at \in {"apply", "answer", "ended"} => r.up = sessions[s].up
<1>1. sessions[s] \in SessionRecords
  BY DEF TypeOK, SessionRecords
<1>2. PICK up \in Read(s) .. sessions[s].up, said \in left :
        r = Lost(s, up, said)
  BY DEF Broken
<1>3. Read(s) \in Nat
  BY <1>1 DEF Read, Lead, SessionRecords
<1>4. up \in Nat /\ up <= sessions[s].up /\ up >= Read(s)
  BY <1>1, <1>3 DEF SessionRecords
<1>5. sessions[s].at \in {"apply", "answer", "ended"} => Read(s) = sessions[s].up
  BY DEF Read
<1>6. r.at = sessions[s].at /\ r.up = up /\ r.closed /\ ~r.alive /\ r.said = said
  BY <1>1, <1>2 DEF SessionRecords, Lost
<1>7. said \in Messages
  OBVIOUS
<1>8. r \in SessionRecords
  BY <1>1, <1>2, <1>4, <1>7 DEF SessionRecords, Lost
<1>9. QED
  BY <1>1, <1>4, <1>5, <1>6, <1>8 DEF SessionRecords

(* An archive that is accepted is the one that was sent.                   *)
LEMMA ReceivedWhole ==
    ASSUME TypeOK, NEW s \in Sessions, Accepts(s), NEW part \in Received(s)
    PROVE  part = archives[s[1]]
<1> DEFINE archive == archives[s[1]]
           present == {f \in Files : archive[f] # Absent}
           arrived == {f \in present : part[f] # Absent}
           carried == sessions[s].up - Lead(s) - 1
<1>1. archive \in Archives /\ part \in Archives
  BY SessionParts DEF TypeOK, Received
<1>2. IsFiniteSet(present) /\ Cardinality(present) \in Nat
  BY FilesAssumption, FS_Subset, FS_CardinalityType
<1>3. arrived \in SUBSET present
  OBVIOUS
<1>4. Cardinality(arrived) = IF carried < Cardinality(present) THEN carried
                             ELSE Cardinality(present)
  BY DEF Received
<1>5. sessions[s].up \in Nat
  BY DEF TypeOK
<1>6. carried >= Cardinality(present)
  <2>1. Size(archive) = 2 + Cardinality(present)
    BY DEF Size
  <2>2. Items(s) = Lead(s) + Size(archive)
    BY DEF Items
  <2>3. sessions[s].up >= Items(s) - 1
    BY <1>5, ItemsType DEF Accepts
  <2>4. Lead(s) \in {0, 1}
    BY DEF Lead
  <2>5. QED
    BY <1>2, <1>5, <2>1, <2>2, <2>3, <2>4
<1>7. Cardinality(arrived) = Cardinality(present)
  BY <1>2, <1>4, <1>5, <1>6 DEF Lead
<1>8. arrived = present
  BY <1>2, <1>3, <1>7, FS_Subset
<1>9. \A f \in Files : part[f] = archive[f]
  <2>1. \A f \in Files : part[f] \in {archive[f], Absent}
    BY DEF Received
  <2>2. \A f \in Files : archive[f] # Absent => part[f] # Absent
    BY <1>8
  <2>3. QED
    BY <2>1, <2>2
<1>10. QED
  BY <1>1, <1>9 DEF Archives

-----------------------------------------------------------------------------
(* Types.                                                                  *)

SourceRecords ==
    [at : SourceLabels, protocol : Protocols, backup : Registries,
     was : Registries, report : {"none", "committed", "failed", "broken"}]

SourceType ==
    /\ source \in SourceRecords
    /\ registry \in Registries
    /\ pushes \in 0 .. MaxPushes
    /\ archives \in [Pushes -> Archives]
    /\ confirmed \in 0 .. pushes
    /\ speaks \in Installs

SessionsType ==
    /\ sessions \in [Sessions -> SessionRecords]
    /\ \A s \in Sessions : sessions[s].up <= Items(s)

TargetType ==
    /\ lock \in Sessions \cup {NoSession}
    /\ target \in Archives
    /\ baseline \in [transfer : 0 .. pushes, files : Archives]
    /\ own \subseteq Files

LEMMA TypeParts == TypeOK <=> SourceType /\ SessionsType /\ TargetType
BY DEF TypeOK, SourceType, SourceRecords, SessionsType, SessionRecords, TargetType

LEMMA IdleSourceType == IdleSource \in SourceRecords
BY DEF IdleSource, SourceRecords, SourceLabels, Protocols, Registries

LEMMA UnopenedType == Unopened \in SessionRecords
BY DEF Unopened, SessionRecords, SessionLabels, Messages

LEMMA NothingType == Nothing \in Archives
BY DEF Nothing, Archives

LEMMA OverType ==
    ASSUME NEW files \in Archives, NEW part \in Archives
    PROVE  Over(files, part) \in Archives
BY DEF Over, Archives

LEMMA InitType == Init => TypeOK
<1> SUFFICES ASSUME Init PROVE TypeOK
  OBVIOUS
<1>1. SourceType
  BY IdleSourceType, NothingType, BoundsAssumption
  DEF Init, SourceType, Registries
<1>2. SessionsType
  <2>1. \A s \in Sessions : sessions[s] = Unopened
    BY DEF Init
  <2>2. sessions \in [Sessions -> SessionRecords]
    BY UnopenedType DEF Init
  <2>3. ASSUME NEW s \in Sessions PROVE 0 <= Items(s)
    <3>1. archives[s[1]] \in Archives
      BY <1>1, SessionParts DEF SourceType
    <3>2. QED
      BY <3>1, SizeType DEF Items, Lead
  <2>4. QED
    BY <2>1, <2>2, <2>3 DEF SessionsType, Unopened
<1>3. TargetType
  BY NothingType DEF Init, TargetType
<1>4. QED
  BY <1>1, <1>2, <1>3, TypeParts

(* The session that a step changes, the others left alone.                 *)
LEMMA SessionTypeStable ==
    ASSUME TypeOK, UNCHANGED archives,
           NEW s \in Sessions, NEW r \in SessionRecords, r.up <= Items(s),
           sessions' = [sessions EXCEPT ![s] = r]
    PROVE  SessionsType'
<1>1. \A x \in Sessions : Items(x)' = Items(x)
  BY ItemsStable
<1>2. SessionsType
  BY TypeParts
<1>3. sessions' \in [Sessions -> SessionRecords]
  BY <1>2 DEF SessionsType
<1>4. \A x \in Sessions : sessions'[x] = IF x = s THEN r ELSE sessions[x]
  BY <1>2 DEF SessionsType
<1>5. \A x \in Sessions : sessions'[x].up <= Items(x)
  BY <1>2, <1>4 DEF SessionsType
<1>6. QED
  BY <1>1, <1>3, <1>5 DEF SessionsType

LEMMA SessionsUnchangedType ==
    ASSUME TypeOK, UNCHANGED <<archives, sessions>>
    PROVE  SessionsType'
<1>1. \A x \in Sessions : Items(x)' = Items(x)
  BY ItemsStable
<1>2. QED
  BY <1>1, TypeParts DEF SessionsType

LEMMA TargetUnchangedType ==
    ASSUME TypeOK, UNCHANGED <<pushes, targetVars>>
    PROVE  TargetType'
BY TypeParts DEF TargetType, targetVars

LEMMA TypeNext ==
    ASSUME SourceType', SessionsType', TargetType'
    PROVE  TypeOK'
BY DEF TypeOK, SourceType, SourceRecords, SessionsType, SessionRecords, TargetType

(* Steps of the source that leave all sessions alone.                      *)
LEMMA SourceAloneType ==
    ASSUME IInv,
           StartPush \/ Standardise \/ Collect \/ Fail
    PROVE  TypeOK'
<1>1. /\ TypeOK /\ SourceType /\ SessionsType /\ TargetType
      /\ ConnectionInv /\ \A s \in Sessions : SessionInv(s)
  BY TypeParts DEF IInv
<1>2. CASE StartPush
  <2>1. SourceType'
    BY <1>1, <1>2, IdleSourceType DEF StartPush, SourceType, SourceRecords, SourceLabels
  <2>2. QED
    BY <1>1, <1>2, <2>1, SessionsUnchangedType, TargetUnchangedType, TypeNext DEF StartPush
<1>3. CASE Standardise
  <2>1. SourceType'
    BY <1>1, <1>3, IdleSourceType
    DEF Standardise, SourceType, SourceRecords, SourceLabels, Registries
  <2>2. QED
    BY <1>1, <1>3, <2>1, SessionsUnchangedType, TargetUnchangedType, TypeNext DEF Standardise
<1>4. CASE Fail
  <2>1. SourceType'
    BY <1>1, <1>4, IdleSourceType DEF Fail, SourceType, SourceRecords, SourceLabels
  <2>2. QED
    BY <1>1, <1>4, <2>1, SessionsUnchangedType, TargetUnchangedType, TypeNext DEF Fail
<1>5. CASE Collect
  <2>1. CASE UNCHANGED <<pushes, archives>>
    <3>1. SourceType'
      BY <1>1, <1>5, <2>1 DEF Collect, SourceType, SourceRecords, SourceLabels
    <3>2. QED
      BY <1>1, <1>5, <2>1, <3>1, SessionsUnchangedType, TargetUnchangedType, TypeNext DEF Collect
  <2>2. CASE pushes' = pushes + 1
    <3>1. PICK archive \in Offered[pushes'] : archives' = [archives EXCEPT ![pushes'] = archive]
      BY <1>1, <1>5, <2>2 DEF Collect, SourceType
    <3>2. pushes' \in Pushes
      BY <1>1, <1>5, <2>2, BoundsAssumption DEF Collect, ConnectionInv, SourceType, Pushes
    <3>3. archive \in Archives
      BY <3>2, OfferedAssumption
    <3>4. SourceType'
      BY <1>1, <1>5, <2>2, <3>1, <3>2, <3>3
      DEF Collect, SourceType, SourceRecords, SourceLabels, Pushes
    <3>5. ASSUME NEW s \in Sessions PROVE sessions[s].up <= Items(s)'
      <4>1. CASE s[1] = pushes'
        <5>1. sessions[s] = Unopened
          BY <1>1, <2>2, <4>1 DEF SessionInv, SourceType
        <5>2. archives'[s[1]] \in Archives
          BY <3>4, SessionParts DEF SourceType
        <5>3. QED
          BY <5>1, <5>2, SizeType DEF Unopened, Items, Lead
      <4>2. CASE s[1] # pushes'
        <5>1. archives'[s[1]] = archives[s[1]]
          BY <1>1, <3>1, <4>2, SessionParts DEF SourceType
        <5>2. QED
          BY <1>1, <5>1, ItemsStable DEF SessionsType
      <4>3. QED
        BY <4>1, <4>2
    <3>6. SessionsType'
      BY <1>1, <1>5, <3>5 DEF Collect, SessionsType
    <3>7. TargetType'
      BY <1>1, <1>5, <2>2, BoundsAssumption DEF Collect, SourceType, TargetType, targetVars
    <3>8. QED
      BY <3>4, <3>6, <3>7, TypeNext
  <2>3. QED
    BY <1>5, <2>1, <2>2 DEF Collect
<1>6. QED
  BY <1>2, <1>3, <1>4, <1>5

(* Steps of the source that change its session.                            *)
LEMMA SourceConnectedType ==
    ASSUME IInv,
           \/ Connect \/ ReadCapability \/ FallBack \/ ReadReady \/ SendArchive
           \/ ReadCommitted
    PROVE  TypeOK'
<1>1. /\ TypeOK /\ SourceType /\ SessionsType /\ TargetType /\ ConnectionInv
  BY TypeParts DEF IInv
<1>2. Connected \/ source.at = "connect"
  BY DEF Connect, ReadCapability, FallBack, ReadReady, SendArchive, ReadCommitted, Connected
<1>3. Current \in Sessions /\ Current[2] = source.protocol
  BY <1>1, <1>2, CurrentIsSession
<1>4. /\ Items(Current) \in Nat /\ Lead(Current) \in Nat
      /\ Lead(Current) <= Items(Current) /\ 0 <= Items(Current)
  BY <1>1, <1>3, ItemsType
<1>5. sessions[Current] \in SessionRecords /\ sessions[Current].up <= Items(Current)
  BY <1>1, <1>3 DEF SessionsType
<1>6. SourceType' /\ TargetType'
  <2>1. source' \in SourceRecords
    <3>1. source \in SourceRecords
      BY <1>1 DEF SourceType
    <3>2. CASE Connect \/ ReadCapability
      BY <3>1, <3>2 DEF Connect, ReadCapability, SourceRecords, SourceLabels
    <3>3. CASE FallBack
      BY <3>1, <3>3 DEF FallBack, SourceRecords, SourceLabels, Protocols
    <3>4. CASE ReadReady \/ SendArchive
      BY <3>1, <3>4 DEF ReadReady, SendArchive, SourceRecords, SourceLabels
    <3>5. CASE ReadCommitted
      BY IdleSourceType, <3>5 DEF ReadCommitted, SourceRecords
    <3>6. QED
      BY <3>2, <3>3, <3>4, <3>5
  <2>2. TargetType'
    BY <1>1, TargetUnchangedType
    DEF Connect, ReadCapability, FallBack, ReadReady, SendArchive, ReadCommitted
  <2>3. UNCHANGED <<registry, pushes, archives, speaks>> /\ confirmed' \in {confirmed, pushes}
    BY DEF Connect, ReadCapability, FallBack, ReadReady, SendArchive, ReadCommitted
  <2>4. SourceType'
    BY <1>1, <2>1, <2>3 DEF SourceType
  <2>5. QED
    BY <2>2, <2>4
<1>7. UNCHANGED archives
  BY DEF Connect, ReadCapability, FallBack, ReadReady, SendArchive, ReadCommitted
<1>8. ASSUME NEW r \in SessionRecords, r.up <= Items(Current),
             sessions' = [sessions EXCEPT ![Current] = r]
      PROVE  TypeOK'
  BY <1>1, <1>3, <1>6, <1>7, <1>8, SessionTypeStable, TypeNext
<1>9. CASE Connect
  <2>1. [Unopened EXCEPT !.at = "starting", !.alive = TRUE] \in SessionRecords
    BY DEF Unopened, SessionRecords, SessionLabels, Messages
  <2>2. QED
    BY <1>4, <1>8, <1>9, <2>1 DEF Connect, Unopened
<1>10. CASE ReadCapability
  <2> DEFINE r == [sessions[Current] EXCEPT !.said = Silence,
                                            !.up = IF OutputEnded(Current) THEN @ ELSE Lead(Current)]
  <2>1. r \in SessionRecords /\ r.up <= Items(Current)
    BY <1>4, <1>5 DEF SessionRecords, Messages
  <2>2. sessions' = [sessions EXCEPT ![Current] = r]
    BY <1>1, <1>3, <1>10 DEF ReadCapability, SessionsType
  <2>3. QED
    BY <1>8, <2>1, <2>2
<1>11. CASE FallBack
  <2> DEFINE r == [sessions[Current] EXCEPT !.said = Silence, !.alive = FALSE]
  <2>1. r \in SessionRecords /\ r.up <= Items(Current)
    BY <1>5 DEF SessionRecords, Messages
  <2>2. sessions' = [sessions EXCEPT ![Current] = r]
    BY <1>1, <1>3, <1>11 DEF FallBack, SessionsType
  <2>3. QED
    BY <1>8, <2>1, <2>2
<1>12. CASE ReadReady
  <2> DEFINE r == [sessions[Current] EXCEPT !.said = Silence]
  <2>1. r \in SessionRecords /\ r.up <= Items(Current)
    BY <1>5 DEF SessionRecords, Messages
  <2>2. sessions' = [sessions EXCEPT ![Current] = r]
    BY <1>1, <1>3, <1>12 DEF ReadReady, SessionsType
  <2>3. QED
    BY <1>8, <2>1, <2>2
<1>13. CASE SendArchive
  <2> DEFINE r == [sessions[Current] EXCEPT !.up = Items(Current), !.closed = TRUE]
  <2> DEFINE n == Items(Current)
  <2>1. r \in SessionRecords /\ r.up <= Items(Current)
    <3>1. n \in Nat
      BY <1>4
    <3>2. r = [sessions[Current] EXCEPT !.up = n, !.closed = TRUE]
      OBVIOUS
    <3> HIDE DEF n, r
    <3>3. r \in SessionRecords /\ r.up = n
      BY <1>5, <3>1, <3>2 DEF SessionRecords
    <3>4. QED
      BY <3>1, <3>3 DEF n
  <2>2. sessions' = [sessions EXCEPT ![Current] = r]
    BY <1>1, <1>3, <1>13 DEF SendArchive, SessionsType
  <2>3. QED
    BY <1>8, <2>1, <2>2
<1>14. CASE ReadCommitted
  <2> DEFINE r == [sessions[Current] EXCEPT !.said = Silence, !.alive = FALSE]
  <2>1. r \in SessionRecords /\ r.up <= Items(Current)
    BY <1>5 DEF SessionRecords, Messages
  <2>2. sessions' = [sessions EXCEPT ![Current] = r]
    BY <1>1, <1>3, <1>14 DEF ReadCommitted, SessionsType
  <2>3. QED
    BY <1>8, <2>1, <2>2
<1>15. QED
  BY <1>9, <1>10, <1>11, <1>12, <1>13, <1>14

LEMMA SourceLostType ==
    ASSUME IInv, ReadEnd \/ Dismiss \/ Abort
    PROVE  TypeOK'
<1>1. /\ TypeOK /\ SourceType /\ SessionsType /\ TargetType /\ ConnectionInv
  BY TypeParts DEF IInv
<1>2. SourceType'
  BY <1>1, IdleSourceType
  DEF ReadEnd, Dismiss, Abort, LoseConnection, SourceType, SourceRecords, SourceLabels
<1>3. TargetType' /\ UNCHANGED archives
  BY <1>1, TargetUnchangedType DEF ReadEnd, Dismiss, Abort, LoseConnection
<1>4. ASSUME Connected, NEW r \in SessionRecords, r.up <= sessions[Current].up,
             sessions' = [sessions EXCEPT ![Current] = r]
      PROVE  SessionsType'
  <2>1. Current \in Sessions
    BY <1>1, <1>4, CurrentIsSession
  <2>2. r.up <= Items(Current)
    BY <1>1, <1>4, <2>1, ItemsType DEF SessionsType, SessionRecords
  <2>3. QED
    BY <1>1, <1>3, <1>4, <2>1, <2>2, SessionTypeStable
<1>5. ASSUME Connected, NEW r \in Broken(Current, {Silence}),
             sessions' = [sessions EXCEPT ![Current] = r]
      PROVE  SessionsType'
  <2>1. Current \in Sessions
    BY <1>1, <1>5, CurrentIsSession
  <2>2. {Silence} \in SUBSET Messages
    BY DEF Messages
  <2>3. r \in SessionRecords /\ r.up <= sessions[Current].up
    BY <1>1, <2>1, <2>2, BrokenRecord
  <2>4. QED
    BY <1>4, <1>5, <2>3
<1>6. CASE ReadEnd \/ Dismiss
  <2>1. Connected
    BY <1>6 DEF ReadEnd, Dismiss, Connected
  <2>2. PICK r \in Broken(Current, {Silence}) : sessions' = [sessions EXCEPT ![Current] = r]
    BY <1>6 DEF ReadEnd, Dismiss, LoseConnection
  <2>3. QED
    BY <1>2, <1>3, <1>5, <2>1, <2>2, TypeNext
<1>7. CASE Abort
  <2>1. CASE ~Connected
    <3>1. UNCHANGED sessions
      BY <1>7, <2>1 DEF Abort
    <3>2. QED
      BY <1>1, <1>2, <1>3, <3>1, SessionsUnchangedType, TypeNext
  <2>2. CASE Connected
    <3> DEFINE orphan == [sessions[Current] EXCEPT !.closed = TRUE, !.said = Silence]
    <3>1. PICK r \in Broken(Current, {Silence}) \cup {orphan} :
            sessions' = [sessions EXCEPT ![Current] = r]
      BY <1>7, <2>2 DEF Abort
    <3>2. CASE r = orphan
      <4>1. sessions[Current] \in SessionRecords
        BY <1>1, <2>2, CurrentIsSession DEF SessionsType
      <4>2. ASSUME NEW old \in SessionRecords
            PROVE  LET new == [old EXCEPT !.closed = TRUE, !.said = Silence]
                   IN  new \in SessionRecords /\ new.up = old.up
        BY DEF SessionRecords, Messages
      <4>3. orphan \in SessionRecords /\ orphan.up <= sessions[Current].up
        <5>1. orphan \in SessionRecords /\ orphan.up = sessions[Current].up
          BY <4>1, <4>2
        <5>2. sessions[Current].up \in Nat
          BY <4>1 DEF SessionRecords
        <5>3. QED
          BY <5>1, <5>2
      <4>4. QED
        BY <1>2, <1>3, <1>4, <2>2, <3>1, <3>2, <4>3, TypeNext
    <3>3. CASE r \in Broken(Current, {Silence})
      BY <1>2, <1>3, <1>5, <2>2, <3>1, <3>3, TypeNext
    <3>4. QED
      BY <3>1, <3>2, <3>3
  <2>3. QED
    BY <2>1, <2>2
<1>8. QED
  BY <1>6, <1>7

LEMMA SourceUnchangedType ==
    ASSUME TypeOK, UNCHANGED <<sourceVars, speaks>>
    PROVE  SourceType'
BY TypeParts DEF SourceType, sourceVars

(* Steps at the target.                                                    *)
LEMMA EndType ==
    ASSUME TypeOK, NEW s \in Sessions, NEW said \in Messages, End(s, said),
           UNCHANGED <<sourceVars, speaks, target, baseline, own>>
    PROVE  TypeOK'
<1>1. SourceType /\ SessionsType /\ TargetType
  BY TypeParts
<1> DEFINE r == [Unopened EXCEPT !.at = "ended", !.alive = sessions[s].alive, !.said = said]
<1>2. r \in SessionRecords /\ r.up = 0
  BY <1>1 DEF Unopened, SessionsType, SessionRecords, SessionLabels
<1>3. r.up <= Items(s)
  BY <1>2, ItemsType
<1>4. SessionsType'
  BY <1>2, <1>3, SessionTypeStable DEF End, sourceVars
<1>5. TargetType'
  BY <1>1 DEF End, TargetType, sourceVars
<1>6. QED
  BY <1>4, <1>5, SourceUnchangedType, TypeNext

LEMMA TargetStepType ==
    ASSUME IInv, NEW s \in Sessions, TargetStep(s) \/ Refuse(s) \/ Break(s)
    PROVE  TypeOK'
<1>1. SourceType /\ SessionsType /\ TargetType
  BY TypeParts DEF IInv
<1>0. TypeOK
  BY DEF IInv
<1>2. SourceType' /\ UNCHANGED archives /\ UNCHANGED pushes
  BY <1>0, SourceUnchangedType
  DEF TargetStep, StartReceive, RefuseReceive, Preflight, Receive, Apply, Answer, Refuse,
      Break, sourceVars
<1>3. sessions[s] \in SessionRecords /\ sessions[s].up <= Items(s)
  BY <1>1 DEF SessionsType
<1>4. ASSUME NEW label \in SessionLabels, NEW said \in Messages,
             sessions' = [sessions EXCEPT ![s].at = label, ![s].said = said]
      PROVE  SessionsType'
  <2> DEFINE r == [sessions[s] EXCEPT !.at = label, !.said = said]
  <2>1. r \in SessionRecords /\ r.up <= Items(s)
    BY <1>3 DEF SessionRecords
  <2>2. sessions' = [sessions EXCEPT ![s] = r]
    BY <1>1, <1>4 DEF SessionsType
  <2> HIDE DEF r
  <2>3. QED
    BY <1>2, <2>1, <2>2, <1>0, SessionTypeStable
<1>5. ASSUME NEW label \in SessionLabels, sessions' = [sessions EXCEPT ![s].at = label]
      PROVE  SessionsType'
  <2> DEFINE r == [sessions[s] EXCEPT !.at = label]
  <2>1. r \in SessionRecords /\ r.up <= Items(s)
    BY <1>3 DEF SessionRecords
  <2>2. sessions' = [sessions EXCEPT ![s] = r]
    BY <1>5
  <2> HIDE DEF r
  <2>3. QED
    BY <1>2, <2>1, <2>2, <1>0, SessionTypeStable
<1>6. {"none", "starting", "preflight", "receive", "apply", "answer", "ended"} = SessionLabels
  BY DEF SessionLabels
<1>7. Silence \in Messages /\ {"capability", "ready", "committed", "unsupported"} \subseteq Messages
  BY DEF Messages
<1>8. CASE StartReceive(s)
  <2>1. CASE s[2] \in speaks
    <3>1. SessionsType'
      BY <1>4, <1>6, <1>7, <1>8, <2>1 DEF StartReceive
    <3>2. TargetType'
      BY <1>1, <1>2, <1>8, <2>1 DEF StartReceive, TargetType
    <3>3. QED
      BY <1>2, <3>1, <3>2, TypeNext
  <2>2. CASE s[2] \notin speaks
    BY <1>7, <1>8, <2>2, <1>0, EndType DEF StartReceive
  <2>3. QED
    BY <2>1, <2>2
<1>9. CASE RefuseReceive(s)
  BY <1>7, <1>9, <1>0, EndType DEF RefuseReceive
<1>10. CASE Preflight(s)
  <2>1. CASE End(s, Silence)
    BY <1>7, <1>10, <2>1, <1>0, EndType DEF Preflight
  <2>2. CASE ~End(s, Silence)
    <3>1. /\ sessions' = [sessions EXCEPT ![s].at = "receive", ![s].said = "ready"]
          /\ UNCHANGED lock
      BY <1>10, <2>2 DEF Preflight, Say
    <3>2. SessionsType'
      BY <1>4, <1>6, <1>7, <3>1
    <3>3. TargetType'
      BY <1>1, <1>2, <1>10, <3>1 DEF Preflight, TargetType
    <3>4. QED
      BY <1>2, <3>2, <3>3, TypeNext
  <2>3. QED
    BY <2>1, <2>2
<1>11. CASE Receive(s)
  <2>1. CASE Accepts(s)
    <3>1. SessionsType'
      BY <1>5, <1>6, <1>11, <2>1 DEF Receive
    <3>2. TargetType'
      BY <1>1, <1>2, <1>11, <2>1 DEF Receive, TargetType
    <3>3. QED
      BY <1>2, <3>1, <3>2, TypeNext
  <2>2. CASE ~Accepts(s)
    BY <1>7, <1>11, <2>2, <1>0, EndType DEF Receive
  <2>3. QED
    BY <2>1, <2>2
<1>12. CASE Apply(s)
  <2>1. SessionsType'
    BY <1>5, <1>6, <1>12 DEF Apply
  <2>2. PICK part \in Received(s) :
          /\ target' = Over(target, part)
          /\ baseline' = [transfer |-> s[1], files |-> part]
          /\ own' = {f \in Files : part[f] = Absent}
    BY <1>12 DEF Apply
  <2>3. part \in Archives
    BY DEF Received
  <2>4. s[1] \in 0 .. pushes
    <3>1. SessionInv(s) /\ sessions[s] # Unopened
      BY <1>12 DEF IInv, Apply, Unopened
    <3>2. s[1] <= pushes
      BY <1>1, <3>1, SessionParts DEF SessionInv, SourceType, Pushes
    <3>3. QED
      BY <1>1, <3>2, SessionParts DEF SourceType, Pushes
  <2>5. TargetType'
    <3>1. target' \in Archives
      BY <1>1, <2>2, <2>3, OverType DEF TargetType
    <3>2. baseline' \in [transfer : 0 .. pushes, files : Archives]
      BY <2>2, <2>3, <2>4
    <3>3. QED
      BY <1>1, <1>2, <1>12, <2>2, <3>1, <3>2 DEF Apply, TargetType
  <2>6. QED
    BY <1>2, <2>1, <2>5, TypeNext
<1>13. CASE Answer(s)
  BY <1>7, <1>13, <1>0, EndType DEF Answer
<1>14. CASE Refuse(s)
  <2>1. sessions[s].said \in Messages
    BY <1>3 DEF SessionRecords
  <2>2. QED
    BY <1>14, <2>1, <1>0, EndType DEF Refuse
<1>15. CASE Break(s)
  <2>1. {sessions[s].said, Silence} \in SUBSET Messages
    BY <1>3, <1>7 DEF SessionRecords
  <2>2. PICK r \in Broken(s, {sessions[s].said, Silence}) : sessions' = [sessions EXCEPT ![s] = r]
    BY <1>15 DEF Break
  <2>3. r \in SessionRecords /\ r.up <= sessions[s].up
    BY <1>0, <2>1, BrokenRecord
  <2>4. r.up <= Items(s)
    BY <1>3, <2>3, <1>0, ItemsType DEF SessionRecords
  <2>5. SessionsType'
    BY <1>2, <2>2, <2>3, <2>4, <1>0, SessionTypeStable
  <2>6. QED
    BY <1>2, <1>15, <2>5, <1>0, TargetUnchangedType, TypeNext DEF Break
<1>16. QED
  BY <1>8, <1>9, <1>10, <1>11, <1>12, <1>13, <1>14, <1>15 DEF TargetStep

LEMMA EditTargetType ==
    ASSUME TypeOK, NEW edit \in Edited, EditTarget(edit)
    PROVE  TypeOK'
<1>1. SourceType /\ SessionsType /\ TargetType
  BY TypeParts
<1>2. edit[1] \in Files /\ edit[2] \in Values \cup {Absent}
  BY EditedAssumption
<1>3. target' \in Archives
  BY <1>1, <1>2 DEF EditTarget, TargetType, Archives
<1>4. TargetType'
  BY <1>1, <1>2, <1>3 DEF EditTarget, TargetType, sourceVars
<1>5. SessionsType'
  BY SessionsUnchangedType DEF EditTarget, sourceVars
<1>6. QED
  BY <1>4, <1>5, SourceUnchangedType, TypeNext DEF EditTarget

LEMMA TypeStep == IInv /\ [Next]_vars => TypeOK'
<1> SUFFICES ASSUME IInv, [Next]_vars PROVE TypeOK'
  OBVIOUS
<1>1. CASE UNCHANGED vars
  <2>1. TypeOK /\ UNCHANGED <<sourceVars, speaks, sessions, targetVars>>
    BY <1>1 DEF IInv, vars
  <2>2. UNCHANGED <<archives, sessions>> /\ UNCHANGED <<pushes, targetVars>>
    BY <2>1 DEF sourceVars
  <2>3. QED
    BY <2>1, <2>2, SourceUnchangedType, SessionsUnchangedType, TargetUnchangedType, TypeNext
<1>2. CASE Next
  <2>1. CASE \E s \in Sessions : TargetStep(s) \/ Refuse(s) \/ Break(s)
    BY <2>1, TargetStepType
  <2>2. CASE \E edit \in Edited : EditTarget(edit)
    BY <2>2, EditTargetType DEF IInv
  <2>3. QED
    BY <1>2, <2>1, <2>2, SourceAloneType, SourceConnectedType, SourceLostType
    DEF Next, SourceStep
<1>3. QED
  BY <1>1, <1>2

-----------------------------------------------------------------------------
(* The registry of the source and the edits at the target.                 *)

LEMMA BackupStep == IInv /\ [Next]_vars => BackupInv'
<1> SUFFICES ASSUME IInv, [Next]_vars PROVE BackupInv'
  OBVIOUS
<1>1. BackupInv /\ source \in SourceRecords /\ registry \in Registries
  BY TypeParts DEF IInv, SourceType
<1>2. CASE StartPush
  BY <1>2 DEF StartPush, BackupInv, IdleSource
<1>3. CASE Standardise
  BY <1>1, <1>3 DEF Standardise, BackupInv, IdleSource, SourceRecords, Registries
<1>4. CASE source'.at = "idle"
  BY <1>4 DEF BackupInv
<1>5. CASE /\ source.at \notin {"idle", "standardise"} /\ source'.at # "standardise"
           /\ UNCHANGED registry
           /\ \A field \in {"report", "was", "backup"} : source'[field] = source[field]
  BY <1>1, <1>5 DEF BackupInv
<1>6. CASE UNCHANGED <<source, registry>>
  BY <1>1, <1>6 DEF BackupInv
<1>7. CASE Collect \/ Connect \/ ReadCapability
  <2>1. source' \in {[source EXCEPT !.at = at] : at \in {"fail", "connect", "greeting", "ready", "send"}}
    BY <1>7 DEF Collect, Connect, ReadCapability
  <2>2. source.at \in {"collect", "connect", "greeting"} /\ UNCHANGED registry
    BY <1>7 DEF Collect, Connect, ReadCapability
  <2>3. QED
    BY <1>1, <1>5, <2>1, <2>2 DEF SourceRecords
<1>8. CASE FallBack \/ ReadReady \/ SendArchive
  BY <1>1, <1>5, <1>8 DEF FallBack, ReadReady, SendArchive, SourceRecords
<1>9. CASE ReadEnd \/ Dismiss
  BY <1>1, <1>5, <1>9 DEF ReadEnd, Dismiss, Connected, LoseConnection, SourceRecords
<1>10. CASE ReadCommitted \/ Fail \/ Abort
  BY <1>4, <1>10 DEF ReadCommitted, Fail, Abort, IdleSource
<1>11. CASE \/ \E s \in Sessions : TargetStep(s) \/ Refuse(s) \/ Break(s)
            \/ \E edit \in Edited : EditTarget(edit)
            \/ UNCHANGED vars
  BY <1>6, <1>11
  DEF TargetStep, StartReceive, RefuseReceive, Preflight, Receive, Apply, Answer, Refuse,
      Break, EditTarget, vars, sourceVars
<1>12. QED
  BY <1>2, <1>3, <1>7, <1>8, <1>9, <1>10, <1>11 DEF Next, SourceStep

(* Between transfers only users change files.                              *)
LEMMA OwnStep == IInv /\ [Next]_vars => OwnInv'
<1> SUFFICES ASSUME IInv, [Next]_vars PROVE OwnInv'
  OBVIOUS
<1>1. OwnInv /\ target \in Archives
  BY DEF IInv, TypeOK
<1>2. CASE UNCHANGED <<target, baseline, own>>
  BY <1>1, <1>2 DEF OwnInv
<1>3. CASE \E s \in Sessions : Apply(s)
  <2>1. PICK s \in Sessions : Apply(s)
    BY <1>3
  <2>2. PICK part \in Received(s) :
          /\ target' = Over(target, part)
          /\ baseline' = [transfer |-> s[1], files |-> part]
          /\ own' = {f \in Files : part[f] = Absent}
    BY <2>1 DEF Apply
  <2>3. QED
    BY <2>2 DEF OwnInv, Over
<1>4. CASE \E edit \in Edited : EditTarget(edit)
  <2>1. PICK edit \in Edited : EditTarget(edit)
    BY <1>4
  <2>2. \A f \in Files \ own' : f # edit[1]
    BY <2>1 DEF EditTarget
  <2>3. QED
    BY <1>1, <2>1, <2>2 DEF EditTarget, OwnInv, Archives
<1>5. CASE \E s \in Sessions : (TargetStep(s) /\ ~Apply(s)) \/ Refuse(s) \/ Break(s)
  BY <1>2, <1>5
  DEF TargetStep, StartReceive, RefuseReceive, Preflight, Receive, Answer, Refuse,
      Break, targetVars
<1>6. CASE StartPush \/ SourceStep \/ Dismiss \/ Abort \/ UNCHANGED vars
  BY <1>2, <1>6
  DEF StartPush, SourceStep, Standardise, Collect, Connect, ReadCapability, FallBack,
      ReadReady, SendArchive, ReadCommitted, ReadEnd, Dismiss, LoseConnection, Fail, Abort,
      vars, targetVars
<1>7. QED
  BY <1>3, <1>4, <1>5, <1>6 DEF Next

-----------------------------------------------------------------------------
(* The sessions.                                                           *)

LEMMA SessionsAfter ==
    ASSUME TypeOK, NEW s \in Sessions, NEW r, sessions' = [sessions EXCEPT ![s] = r]
    PROVE  /\ sessions'[s] = r
           /\ \A x \in Sessions : x # s => sessions'[x] = sessions[x]
BY DEF TypeOK

(* A session that a step leaves alone.                                     *)
LEMMA SameSession ==
    ASSUME IInv, NEW x \in Sessions,
           sessions'[x] = sessions[x],
           archives'[x[1]] = archives[x[1]],
           pushes' >= pushes, pushes' \in Nat,
           lock = x => lock' = x,
           baseline'.transfer = baseline.transfer,
           (x # Current \/ ~Connected)' => sessions[x].closed \/ sessions[x].at \in Inactive
    PROVE  SessionInv(x)'
<1>1. SessionInv(x)
  BY DEF IInv
<1>2. x[1] \in Nat /\ pushes \in Nat
  BY SessionNumbers DEF IInv
<1>3. Items(x)' = Items(x)
  BY ItemsStable
<1>4. Accepts(x) => Accepts(x)'
  BY <1>3 DEF Accepts
<1>5. QED
  BY <1>1, <1>2, <1>4 DEF SessionInv

(* The source works on its sessions only while it is connected.            *)
LEMMA SourceAloneSession ==
    ASSUME IInv, TypeOK', NEW x \in Sessions,
           StartPush \/ Standardise \/ Collect \/ Fail
    PROVE  SessionInv(x)'
<1>1. TypeOK /\ SessionInv(x) /\ x[1] \in Nat /\ pushes \in Nat
  BY SessionNumbers DEF IInv
<1>2. ~Connected /\ ~Connected' /\ UNCHANGED <<sessions, lock, baseline>>
  <2>1. source \in SourceRecords
    BY <1>1, TypeParts DEF SourceType
  <2>2. source'.at \in {"idle", "standardise", "collect", "connect", "fail"}
    BY <2>1 DEF StartPush, Standardise, Collect, Fail, IdleSource, SourceRecords
  <2>3. QED
    BY <2>2 DEF StartPush, Standardise, Collect, Fail, Connected, targetVars
<1>3. sessions[x].closed \/ sessions[x].at \in Inactive
  BY <1>1, <1>2 DEF SessionInv
<1>4. CASE UNCHANGED <<pushes, archives>>
  BY <1>1, <1>2, <1>3, <1>4, SameSession
<1>5. CASE pushes' = pushes + 1 /\ \E archive : archives' = [archives EXCEPT ![pushes'] = archive]
  <2>1. CASE x[1] = pushes'
    <3>1. sessions'[x] = Unopened
      BY <1>1, <1>2, <1>5, <2>1 DEF SessionInv
    <3>2. QED
      BY <1>1, <1>5, <2>1, <3>1, PlaceholdersAssumption
      DEF SessionInv, Unopened, Working, Unapplied, Inactive
  <2>2. CASE x[1] # pushes'
    <3>1. archives'[x[1]] = archives[x[1]]
      BY <1>1, <1>5, <2>2, SessionParts DEF TypeOK
    <3>2. QED
      BY <1>1, <1>2, <1>3, <1>5, <3>1, SameSession
  <2>3. QED
    BY <2>1, <2>2
<1>6. QED
  BY <1>1, <1>4, <1>5 DEF StartPush, Standardise, Collect, Fail, TypeOK

LEMMA SourceConnectedSession ==
    ASSUME IInv, TypeOK', NEW x \in Sessions,
           \/ Connect \/ ReadCapability \/ FallBack \/ ReadReady \/ SendArchive
           \/ ReadCommitted
    PROVE  SessionInv(x)'
<1>1. TypeOK /\ SessionInv(x) /\ ConnectionInv /\ x[1] \in Nat /\ pushes \in Nat
  BY SessionNumbers DEF IInv
<1>2. Connected \/ source.at = "connect"
  BY DEF Connect, ReadCapability, FallBack, ReadReady, SendArchive, ReadCommitted, Connected
<1>3. Current \in Sessions /\ Current[1] = pushes
  BY <1>1, <1>2, CurrentIsSession
<1>4. UNCHANGED <<pushes, archives, lock, baseline>>
  BY DEF Connect, ReadCapability, FallBack, ReadReady, SendArchive, ReadCommitted, targetVars
<1>5. \A y \in Sessions : y # Current => sessions'[y] = sessions[y]
  BY <1>1 DEF Connect, ReadCapability, FallBack, ReadReady, SendArchive, ReadCommitted, TypeOK
<1>6. CASE x # Current
  <2>1. sessions[x].closed \/ sessions[x].at \in Inactive
    BY <1>1, <1>6 DEF SessionInv
  <2>2. QED
    BY <1>1, <1>4, <1>5, <1>6, <2>1, SameSession
<1>7. Items(x)' = Items(x) /\ Lead(x) \in {0, 1}
  BY <1>4, ItemsStable DEF Lead
<1>8. sessions[x] \in SessionRecords
  BY <1>1 DEF TypeOK, SessionRecords
<1>9. CASE x = Current /\ Connect
  <2>1. sessions'[x] = [Unopened EXCEPT !.at = "starting", !.alive = TRUE]
    BY <1>1, <1>3, <1>9 DEF Connect, TypeOK
  <2>2. Connected' /\ Current' = Current
    BY <1>1, <1>4, <1>9 DEF Connect, Connected, Current, TypeOK
  <2>3. x[1] = pushes /\ ~(x[1] <= baseline.transfer)
    BY <1>1, <1>3, <1>9 DEF Connect, ConnectionInv, TypeOK
  <2>4. QED
    BY <1>1, <1>4, <1>9, <2>1, <2>2, <2>3, PlaceholdersAssumption
    DEF SessionInv, Unopened, Working, Unapplied, Inactive
<1>10. CASE x = Current /\ ReadCapability
  <2>1. /\ sessions'[x].at = sessions[x].at
        /\ sessions'[x].closed = sessions[x].closed
        /\ sessions'[x].said = Silence
        /\ sessions'[x].up = IF OutputEnded(x) THEN sessions[x].up ELSE Lead(x)
    BY <1>1, <1>3, <1>8, <1>10 DEF ReadCapability, TypeOK, SessionRecords
  <2>2. Connected' /\ Current' = Current /\ x[1] = pushes
    BY <1>1, <1>3, <1>4, <1>10 DEF ReadCapability, Connected, Current, TypeOK
  <2>3. sessions[x].at # "starting"
    BY <1>1, <1>10, PlaceholdersAssumption DEF ReadCapability, SessionInv
  <2>4. CASE OutputEnded(x)
    <3>1. sessions'[x].up = sessions[x].up
      BY <2>1, <2>4
    <3>2. Accepts(x) => Accepts(x)'
      BY <1>7, <3>1 DEF Accepts
    <3>3. QED
      BY <1>1, <1>4, <2>1, <2>2, <2>3, <3>1, <3>2, PlaceholdersAssumption DEF SessionInv, Unopened
  <2>5. CASE ~OutputEnded(x)
    <3>1. ~sessions[x].closed
      BY <1>1, <1>2, <1>10, <2>5 DEF ConnectionInv, ReadCapability, Connected
    <3>2. QED
      BY <1>1, <1>4, <2>1, <2>2, <2>3, <3>1, PlaceholdersAssumption DEF SessionInv
  <2>6. QED
    BY <2>4, <2>5
<1>11. CASE x = Current /\ (FallBack \/ ReadReady \/ ReadCommitted)
  <2>1. /\ sessions'[x].at = sessions[x].at
        /\ sessions'[x].closed = sessions[x].closed
        /\ sessions'[x].said = Silence
        /\ sessions'[x].up = sessions[x].up
    BY <1>1, <1>3, <1>8, <1>11 DEF FallBack, ReadReady, ReadCommitted, TypeOK, SessionRecords
  <2>2. Accepts(x) => Accepts(x)'
    BY <1>7, <2>1 DEF Accepts
  <2>3. x[1] = pushes
    BY <1>3, <1>11
  <2>4. (x # Current \/ ~Connected)' => sessions[x].at = "ended"
    BY <1>1, <1>4, <1>11
    DEF FallBack, ReadReady, ReadCommitted, SessionInv, Current, Connected, TypeOK
  <2>5. QED
    BY <1>1, <1>4, <2>1, <2>2, <2>3, <2>4, PlaceholdersAssumption DEF SessionInv, Inactive
<1>12. CASE x = Current /\ SendArchive
  <2>1. /\ sessions'[x].at = sessions[x].at
        /\ sessions'[x].closed
        /\ sessions'[x].said = sessions[x].said
        /\ sessions'[x].up = Items(x)
    BY <1>1, <1>3, <1>8, <1>12 DEF SendArchive, TypeOK, SessionRecords
  <2>2. x[1] = pushes /\ sessions[x].at # "starting" /\ ~sessions[x].closed
    BY <1>1, <1>2, <1>3, <1>12 DEF SendArchive, ConnectionInv, Connected
  <2>3. Accepts(x)'
    BY <1>1, <1>7, <2>1, ItemsType DEF Accepts
  <2>4. QED
    BY <1>1, <1>4, <2>1, <2>2, <2>3 DEF SessionInv
<1>13. QED
  BY <1>6, <1>9, <1>10, <1>11, <1>12

(* A session whose connection the step closes.                             *)
LEMMA ClosedSession ==
    ASSUME IInv, NEW x \in Sessions, x[1] <= pushes,
           UNCHANGED <<pushes, archives, lock, baseline>>,
           sessions'[x].at = sessions[x].at,
           sessions'[x].closed,
           sessions'[x].said \in {sessions[x].said, Silence},
           sessions'[x].up \in Nat,
           sessions'[x].up <= sessions[x].up,
           sessions[x].at = "apply" => sessions'[x].up = sessions[x].up
    PROVE  SessionInv(x)'
<1>1. SessionInv(x) /\ TypeOK
  BY DEF IInv
<1>2. sessions[x].up \in Nat /\ x[1] \in Nat /\ pushes \in Nat
  BY <1>1, SessionParts DEF TypeOK, Pushes
<1>3. Items(x)' = Items(x)
  BY ItemsStable
<1>4. sessions[x].at = "apply" => (Accepts(x) => Accepts(x)')
  BY <1>3 DEF Accepts
<1>5. sessions[x].up = 0 => sessions'[x].up = 0
  BY <1>2
<1>6. QED
  BY <1>1, <1>2, <1>4, <1>5, PlaceholdersAssumption DEF SessionInv

LEMMA SourceLostSession ==
    ASSUME IInv, TypeOK', NEW x \in Sessions, ReadEnd \/ Dismiss \/ Abort
    PROVE  SessionInv(x)'
<1>1. TypeOK /\ SessionInv(x) /\ ConnectionInv /\ x[1] \in Nat /\ pushes \in Nat
  BY SessionNumbers DEF IInv
<1>2. ~Connected' /\ UNCHANGED <<pushes, archives, lock, baseline>>
  <2>1. source \in SourceRecords
    BY <1>1, TypeParts DEF SourceType
  <2>2. source'.at \in {"idle", "fail"}
    BY <2>1 DEF ReadEnd, Dismiss, Abort, LoseConnection, IdleSource, SourceRecords
  <2>3. QED
    BY <2>2 DEF ReadEnd, Dismiss, Abort, LoseConnection, Connected, targetVars
<1>3. ASSUME sessions'[x] = sessions[x], x # Current \/ ~Connected
      PROVE  SessionInv(x)'
  <2>1. sessions[x].closed \/ sessions[x].at \in Inactive
    BY <1>1, <1>3 DEF SessionInv
  <2>2. QED
    BY <1>1, <1>2, <1>3, <2>1, SameSession
<1>4. CASE ~Connected
  <2>1. UNCHANGED sessions
    BY <1>4 DEF ReadEnd, Dismiss, Abort, Connected
  <2>2. QED
    BY <1>3, <1>4, <2>1
<1>5. CASE Connected
  <2>1. Current \in Sessions /\ Current[1] = pushes
    BY <1>1, <1>5, CurrentIsSession
  <2>2. sessions[Current] \in SessionRecords
    BY <1>1, <2>1 DEF TypeOK, SessionRecords
  <2> DEFINE orphan == [sessions[Current] EXCEPT !.closed = TRUE, !.said = Silence]
  <2>3. PICK r \in Broken(Current, {Silence}) \cup {orphan} :
          sessions' = [sessions EXCEPT ![Current] = r]
    BY <1>5 DEF ReadEnd, Dismiss, LoseConnection, Abort
  <2>4. /\ r.at = sessions[Current].at /\ r.closed /\ r.said = Silence
        /\ r.up \in Nat /\ r.up <= sessions[Current].up
        /\ r.at = "apply" => r.up = sessions[Current].up
    <3>1. CASE r \in Broken(Current, {Silence})
      <4>1. {Silence} \in SUBSET Messages
        BY DEF Messages
      <4>2. QED
        BY <1>1, <2>1, <3>1, <4>1, BrokenRecord DEF SessionRecords
    <3>2. CASE r = orphan
      <4>1. /\ r.at = sessions[Current].at /\ r.closed /\ r.said = Silence
            /\ r.up = sessions[Current].up
        BY <2>2, <3>2 DEF SessionRecords
      <4>2. sessions[Current].up \in Nat
        BY <2>2 DEF SessionRecords
      <4>3. QED
        BY <4>1, <4>2
    <3>3. QED
      BY <2>3, <3>1, <3>2
  <2>5. sessions'[Current] = r /\ (x # Current => sessions'[x] = sessions[x])
    BY <1>1, <2>1, <2>3, SessionsAfter
  <2>6. CASE x # Current
    BY <1>3, <2>5, <2>6
  <2>7. CASE x = Current
    BY <1>1, <1>2, <2>1, <2>4, <2>5, <2>7, ClosedSession
  <2>8. QED
    BY <2>6, <2>7
<1>6. QED
  BY <1>4, <1>5

(* A session that ends; the lock it gives back is its own.                 *)
LEMMA EndSession ==
    ASSUME IInv, NEW x \in Sessions, NEW s \in Sessions, NEW said,
           End(s, said), sessions[s].at # "none",
           UNCHANGED <<sourceVars, baseline>>
    PROVE  SessionInv(x)'
<1>1. TypeOK /\ SessionInv(x) /\ SessionInv(s) /\ x[1] \in Nat /\ pushes \in Nat
  BY SessionNumbers DEF IInv
<1>2. UNCHANGED <<pushes, archives, baseline>> /\ (Connected' <=> Connected) /\ Current' = Current
  BY DEF sourceVars, Connected, Current
<1>3. /\ sessions'[s] = [Unopened EXCEPT !.at = "ended", !.alive = sessions[s].alive, !.said = said]
      /\ x # s => sessions'[x] = sessions[x]
  BY <1>1, SessionsAfter DEF End
<1>4. CASE x = s
  <2>1. x[1] <= pushes
    BY <1>1, <1>4 DEF SessionInv, Unopened
  <2>2. QED
    <3>1. sessions'[x].at = "ended"
      BY <1>3, <1>4 DEF Unopened
    <3>2. QED
      BY <1>1, <1>2, <2>1, <3>1 DEF SessionInv, Working, Unapplied, Inactive
<1>5. CASE x # s
  <2>1. lock = x => lock' = x
    BY <1>5 DEF End
  <2>2. (x # Current \/ ~Connected)' => sessions[x].closed \/ sessions[x].at \in Inactive
    BY <1>1, <1>2 DEF SessionInv
  <2>3. QED
    BY <1>1, <1>2, <1>3, <1>5, <2>1, <2>2, SameSession
<1>6. QED
  BY <1>4, <1>5

LEMMA TargetStepSession ==
    ASSUME IInv, TypeOK', NEW x \in Sessions, NEW s \in Sessions,
           TargetStep(s) \/ Refuse(s) \/ Break(s)
    PROVE  SessionInv(x)'
<1>1. /\ TypeOK /\ SessionInv(x) /\ SessionInv(s) /\ ConnectionInv
      /\ x[1] \in Nat /\ s[1] \in Nat /\ pushes \in Nat
  <2>1. TypeOK /\ SessionInv(x) /\ SessionInv(s) /\ ConnectionInv
    BY DEF IInv
  <2>2. x[1] \in Nat /\ s[1] \in Nat
    BY SessionParts DEF Pushes
  <2>3. QED
    BY <2>1, <2>2 DEF TypeOK
<1>2. UNCHANGED <<pushes, archives>> /\ (Connected' <=> Connected) /\ Current' = Current
  BY DEF TargetStep, StartReceive, RefuseReceive, Preflight, Receive, Apply, Answer, Refuse,
         Break, sourceVars, Connected, Current
<1>3. (x # Current \/ ~Connected)' => sessions[x].closed \/ sessions[x].at \in Inactive
  BY <1>1, <1>2 DEF SessionInv
<1>4. Items(x)' = Items(x)
  BY <1>2, ItemsStable
<1>5. sessions[x] \in SessionRecords /\ sessions[s] \in SessionRecords
  BY <1>1 DEF TypeOK, SessionRecords
<1>6. \A y \in Sessions : y # s => sessions'[y] = sessions[y]
  BY <1>1
  DEF TargetStep, StartReceive, RefuseReceive, Preflight, Say, End, Receive, Apply, Answer,
      Refuse, Break, TypeOK
<1>7. ASSUME NEW said, End(s, said), sessions[s].at # "none", UNCHANGED <<sourceVars, baseline>>
      PROVE  SessionInv(x)'
  BY <1>7, EndSession
<1>8. ASSUME x # s, lock = x => lock' = x, UNCHANGED baseline
      PROVE  SessionInv(x)'
  BY <1>1, <1>2, <1>3, <1>6, <1>8, SameSession
<1>9. CASE RefuseReceive(s) \/ Answer(s) \/ Refuse(s)
  BY <1>7, <1>9 DEF RefuseReceive, Answer, Refuse
<1>10. CASE StartReceive(s)
  <2>1. CASE s[2] \notin speaks
    BY <1>7, <1>10, <2>1 DEF StartReceive
  <2>2. CASE s[2] \in speaks
    <3>1. /\ sessions'[s].at \in {"preflight", "receive"}
          /\ sessions'[s].said = "capability"
          /\ sessions'[s].up = sessions[s].up
          /\ sessions'[s].closed = sessions[s].closed
          /\ sessions[s].at = "starting"
          /\ lock = NoSession /\ lock' = s /\ UNCHANGED baseline
      BY <1>1, <1>5, <1>10, <2>2 DEF StartReceive, TypeOK, SessionRecords
    <3>2. CASE x # s
      BY <1>8, <3>1, <3>2, PlaceholdersAssumption
    <3>3. CASE x = s
      BY <1>1, <1>2, <1>3, <3>1, <3>3 DEF SessionInv, Unopened, Working, Unapplied, Inactive
    <3>4. QED
      BY <3>2, <3>3
  <2>3. QED
    BY <2>1, <2>2
<1>11. CASE Preflight(s)
  <2>1. CASE End(s, Silence)
    BY <1>7, <1>11, <2>1 DEF Preflight
  <2>2. CASE ~End(s, Silence)
    <3>1. /\ sessions'[s].at = "receive"
          /\ sessions'[s].said = "ready"
          /\ sessions'[s].up = sessions[s].up
          /\ sessions'[s].closed = sessions[s].closed
          /\ sessions[s].at = "preflight"
          /\ UNCHANGED <<lock, baseline>>
      BY <1>1, <1>5, <1>11, <2>2 DEF Preflight, Say, TypeOK, SessionRecords
    <3>2. CASE x # s
      BY <1>8, <3>1, <3>2
    <3>3. CASE x = s
      BY <1>1, <1>2, <1>3, <3>1, <3>3 DEF SessionInv, Unopened, Working, Unapplied, Inactive
    <3>4. QED
      BY <3>2, <3>3
  <2>3. QED
    BY <2>1, <2>2
<1>12. CASE Receive(s)
  <2>1. CASE ~Accepts(s)
    BY <1>7, <1>12, <2>1 DEF Receive
  <2>2. CASE Accepts(s)
    <3>0. /\ sessions' = [sessions EXCEPT ![s].at = "apply"]
          /\ sessions[s].at = "receive" /\ sessions[s].closed
          /\ UNCHANGED <<lock, baseline>>
      BY <1>12, <2>2 DEF Receive
    <3>1. /\ sessions'[s].at = "apply"
          /\ sessions'[s].said = sessions[s].said
          /\ sessions'[s].up = sessions[s].up
          /\ sessions'[s].closed
      BY <1>1, <1>5, <3>0 DEF TypeOK, SessionRecords
    <3>2. CASE x # s
      BY <1>8, <3>0, <3>2
    <3>3. CASE x = s
      <4>1. Accepts(x)'
        BY <1>4, <2>2, <3>1, <3>3 DEF Accepts
      <4>2. QED
        BY <1>1, <1>2, <1>3, <3>0, <3>1, <3>3, <4>1
        DEF SessionInv, Unopened, Working, Unapplied
    <3>4. QED
      BY <3>2, <3>3
  <2>3. QED
    BY <2>1, <2>2
<1>13. CASE Apply(s)
  <2>1. /\ sessions'[s].at = "answer"
        /\ sessions'[s].said = sessions[s].said
        /\ sessions'[s].up = sessions[s].up
        /\ sessions'[s].closed
        /\ sessions[s].at = "apply" /\ lock = s
        /\ UNCHANGED lock
        /\ baseline'.transfer = s[1]
    BY <1>1, <1>5, <1>13 DEF Apply, TypeOK, SessionRecords, SessionInv, Working
  <2>2. CASE x = s
    BY <1>1, <1>2, <2>1, <2>2 DEF SessionInv, Unopened, Working, Unapplied
  <2>3. CASE x # s
    <3>1. sessions[x].at \notin Working
      BY <1>1, <2>1, <2>3 DEF SessionInv
    <3>2. sessions[x].at = "starting" /\ x[1] <= s[1] => sessions[x].closed
      <4>1. SUFFICES ASSUME sessions[x].at = "starting", x[1] <= s[1], x = Current, Connected
                     PROVE  FALSE
        BY <1>1 DEF SessionInv, Inactive
      <4>2. s[1] = pushes
        <5>1. s[1] <= pushes
          BY <1>1, <2>1 DEF SessionInv, Unopened
        <5>2. x[1] = pushes
          BY <1>1, <4>1, CurrentIsSession
        <5>3. QED
          BY <1>1, <4>1, <5>1, <5>2
      <4>3. s[2] \in Protocols \ {source.protocol} /\ s = <<pushes, s[2]>>
        BY <1>1, <2>3, <4>1, <4>2, SessionParts DEF Current
      <4>4. sessions[s].at \in Inactive
        BY <1>1, <4>1, <4>3 DEF ConnectionInv
      <4>5. QED
        BY <2>1, <4>4 DEF Inactive
    <3>3. sessions'[x] = sessions[x]
      BY <1>6, <2>3
    <3>4. QED
      BY <1>1, <1>2, <1>3, <2>1, <3>1, <3>2, <3>3 DEF SessionInv, Working, Unapplied
  <2>4. QED
    BY <2>2, <2>3
<1>14. CASE Break(s)
  <2>1. UNCHANGED <<lock, baseline>> /\ sessions[s].alive
    BY <1>14 DEF Break, targetVars
  <2>2. CASE x # s
    BY <1>8, <2>1, <2>2
  <2>3. CASE x = s
    <3>1. {sessions[s].said, Silence} \in SUBSET Messages
      BY <1>5 DEF SessionRecords, Messages
    <3>2. PICK r \in Broken(s, {sessions[s].said, Silence}) : sessions' = [sessions EXCEPT ![s] = r]
      BY <1>14 DEF Break
    <3>3. /\ r \in SessionRecords /\ r.at = sessions[s].at /\ r.up <= sessions[s].up
          /\ r.closed /\ r.said \in {sessions[s].said, Silence}
          /\ r.at = "apply" => r.up = sessions[s].up
      BY <1>1, <3>1, <3>2, BrokenRecord
    <3>4. sessions'[s] = r /\ r.up \in Nat
      BY <1>1, <3>2, <3>3, SessionsAfter DEF SessionRecords
    <3>5. s[1] <= pushes
      BY <1>1, <2>1 DEF SessionInv, Unopened
    <3>6. QED
      BY <1>2, <2>1, <2>3, <3>3, <3>4, <3>5, ClosedSession
  <2>4. QED
    BY <2>2, <2>3
<1>15. QED
  BY <1>9, <1>10, <1>11, <1>12, <1>13, <1>14 DEF TargetStep

LEMMA SessionStep == IInv /\ [Next]_vars => (\A s \in Sessions : SessionInv(s))'
<1> SUFFICES ASSUME IInv, [Next]_vars, NEW x \in Sessions PROVE SessionInv(x)'
  OBVIOUS
<1>1. TypeOK'
  BY TypeStep
<1>2. ASSUME UNCHANGED <<source, pushes, archives, sessions, lock, baseline>>
      PROVE  SessionInv(x)'
  <2>1. SessionInv(x) /\ pushes \in Nat
    BY DEF IInv, TypeOK
  <2>2. (x # Current \/ ~Connected)' => sessions[x].closed \/ sessions[x].at \in Inactive
    BY <1>2, <2>1 DEF SessionInv, Connected, Current
  <2>3. QED
    BY <1>2, <2>1, <2>2, SameSession
<1>3. CASE UNCHANGED vars \/ \E edit \in Edited : EditTarget(edit)
  BY <1>2, <1>3 DEF vars, sourceVars, targetVars, EditTarget
<1>4. QED
  BY <1>1, <1>3, SourceAloneSession, SourceConnectedSession, SourceLostSession,
     TargetStepSession
  DEF Next, SourceStep

-----------------------------------------------------------------------------
(* The connection.                                                         *)

(* Steps that leave the source alone change what it knows of its own       *)
(* session and of the other one of this push only so far.                  *)
LEMMA ConnectionKept ==
    ASSUME IInv, UNCHANGED <<source, pushes>>,
           Connected \/ source.at = "connect" =>
               \A p \in Protocols : sessions[<<pushes, p>>].at \in Inactive =>
                                        sessions'[<<pushes, p>>].at \in Inactive,
           source.at = "connect" => baseline'.transfer < pushes,
           Connected =>
               /\ sessions'[Current].at = "starting" => sessions[Current].at = "starting"
               /\ sessions'[Current].closed => sessions[Current].closed \/ OutputEnded(Current)'
               /\ OutputEnded(Current) => OutputEnded(Current)'
               /\ sessions'[Current].said = "unsupported" => baseline'.transfer < pushes
               /\ sessions'[Current].said = "committed" => baseline'.transfer = pushes
    PROVE  ConnectionInv'
<1>1. ConnectionInv /\ Current' = Current /\ (Connected' <=> Connected)
  BY DEF IInv, Current, Connected
<1>2. CASE Connected
  <2>1. source.protocol \in Protocols
    BY DEF IInv, TypeOK
  <2>2. source.at \notin {"standardise", "collect", "connect"}
    BY <1>2 DEF Connected
  <2>3. \A p \in Protocols \ {source.protocol} : sessions'[<<pushes, p>>].at \in Inactive
    BY <1>1, <1>2 DEF ConnectionInv
  <2>4. pushes >= 1
    BY <1>1, <1>2 DEF ConnectionInv
  <2>5. source.at # "greeting" => sessions'[Current].at # "starting"
    BY <1>1, <1>2 DEF ConnectionInv
  <2>6. source.at # "answer" /\ ~OutputEnded(Current)' => ~sessions'[Current].closed
    BY <1>1, <1>2 DEF ConnectionInv
  <2>7. QED
    BY <1>1, <1>2, <2>2, <2>3, <2>4, <2>5, <2>6 DEF ConnectionInv
<1>3. CASE ~Connected
  BY <1>1, <1>3 DEF ConnectionInv
<1>4. QED
  BY <1>2, <1>3

LEMMA SourceConnection ==
    ASSUME IInv, TypeOK',
           StartPush \/ SourceStep \/ Dismiss \/ Abort
    PROVE  ConnectionInv'
<1>1. TypeOK /\ ConnectionInv /\ source \in SourceRecords /\ pushes \in Nat
  BY TypeParts DEF IInv, TypeOK, SourceType
<1>2. ASSUME source'.at \in {"idle", "fail"}
      PROVE  ConnectionInv'
  BY <1>2 DEF ConnectionInv, Connected
<1>3. CASE StartPush
  BY <1>1, <1>3 DEF StartPush, ConnectionInv, Connected, IdleSource
<1>4. CASE Standardise
  <2>1. source'.at \in {"collect", "fail", "idle"} /\ UNCHANGED pushes
        /\ source.at = "standardise"
    BY <1>1, <1>4 DEF Standardise, IdleSource, SourceRecords
  <2>2. QED
    BY <1>1, <1>2, <2>1 DEF ConnectionInv, Connected
<1>5. CASE Collect
  <2>1. CASE source'.at = "fail"
    BY <1>2, <2>1
  <2>2. CASE pushes' = pushes + 1 /\ source' = [source EXCEPT !.at = "connect"]
    <3>1. source'.at = "connect" /\ ~Connected' /\ UNCHANGED <<sessions, baseline>>
      BY <1>1, <1>5, <2>2 DEF SourceRecords, Connected, Collect, targetVars
    <3>2. baseline.transfer < pushes'
      BY <1>1, <2>2 DEF TypeOK
    <3>3. ASSUME NEW p \in Protocols PROVE sessions'[<<pushes', p>>].at \in Inactive
      <4>1. pushes' \in Pushes
        BY <1>1, <1>5, <2>2, BoundsAssumption DEF Collect, ConnectionInv, Pushes
      <4>2. <<pushes', p>> \in Sessions /\ <<pushes', p>>[1] = pushes'
        BY <4>1, SessionParts
      <4>3. SessionInv(<<pushes', p>>)
        BY <4>2 DEF IInv
      <4>4. sessions[<<pushes', p>>] = Unopened
        BY <1>1, <2>2, <4>2, <4>3 DEF SessionInv
      <4>5. QED
        BY <3>1, <4>4 DEF Unopened, Inactive
    <3>4. QED
      BY <3>1, <3>2, <3>3 DEF ConnectionInv
  <2>3. QED
    BY <1>1, <1>5, <2>1, <2>2 DEF Collect, SourceRecords
<1>6. CASE ReadCommitted \/ ReadEnd \/ Dismiss \/ Fail \/ Abort
  <2>1. source'.at \in {"idle", "fail"}
    BY <1>1, <1>6
    DEF ReadCommitted, ReadEnd, Dismiss, Fail, Abort, LoseConnection, IdleSource, SourceRecords
  <2>2. QED
    BY <1>2, <2>1
<1>7. ASSUME Connect \/ ReadCapability \/ FallBack \/ ReadReady \/ SendArchive
      PROVE  /\ Current \in Sessions /\ Current[1] = pushes /\ source.protocol \in Protocols
             /\ pushes \in Pushes /\ pushes >= 1
             /\ \A p \in Protocols : <<pushes, p>> \in Sessions
             /\ \A p \in Protocols \ {source.protocol} : <<pushes, p>> # Current
             /\ sessions[Current] \in SessionRecords
             /\ SessionInv(Current)
             /\ UNCHANGED <<pushes, baseline>>
  <2>1. Connected \/ source.at = "connect"
    BY <1>7 DEF Connect, ReadCapability, FallBack, ReadReady, SendArchive, Connected
  <2>2. /\ Current \in Sessions /\ Current[1] = pushes /\ source.protocol \in Protocols
        /\ pushes \in Pushes
    BY <1>1, <2>1, CurrentIsSession
  <2>3. \A p \in Protocols : <<pushes, p>> \in Sessions
    BY <2>2, SessionParts
  <2>4. \A p \in Protocols \ {source.protocol} : <<pushes, p>> # Current
    BY DEF Current
  <2>5. sessions[Current] \in SessionRecords /\ SessionInv(Current)
    BY <2>2 DEF IInv, TypeOK, SessionRecords
  <2>6. UNCHANGED <<pushes, baseline>>
    BY <1>7 DEF Connect, ReadCapability, FallBack, ReadReady, SendArchive, targetVars
  <2>7. QED
    BY <2>2, <2>3, <2>4, <2>5, <2>6 DEF Pushes
<1>8. CASE Connect
  <2>1. source'.at = "greeting" /\ source'.protocol = source.protocol
    BY <1>1, <1>8 DEF Connect, SourceRecords
  <2>2. Connected' /\ Current' = Current
    BY <1>7, <1>8, <2>1 DEF Connected, Current
  <2>3. sessions'[Current] = [Unopened EXCEPT !.at = "starting", !.alive = TRUE]
    BY <1>1, <1>7, <1>8 DEF Connect, TypeOK
  <2>4. ~sessions'[Current].closed /\ sessions'[Current].said = Silence
    BY <2>3 DEF Unopened
  <2>5. \A p \in Protocols \ {source.protocol} : sessions'[<<pushes, p>>].at \in Inactive
    BY <1>1, <1>7, <1>8 DEF Connect, ConnectionInv, TypeOK
  <2>6. QED
    BY <1>7, <1>8, <2>1, <2>2, <2>4, <2>5, PlaceholdersAssumption DEF ConnectionInv
<1>9. CASE ReadCapability
  <2>1. /\ source'.at \in {"ready", "send"} /\ source'.protocol = source.protocol
    BY <1>1, <1>9 DEF ReadCapability, SourceRecords
  <2>2. Connected' /\ Current' = Current
    BY <1>7, <1>9, <2>1 DEF Connected, Current
  <2>3. /\ sessions'[Current].at = sessions[Current].at
        /\ sessions'[Current].said = Silence
        /\ sessions'[Current].closed = sessions[Current].closed
        /\ sessions'[Current].alive = sessions[Current].alive
    BY <1>1, <1>7, <1>9 DEF ReadCapability, TypeOK, SessionRecords
  <2>4. sessions[Current].at # "starting"
    BY <1>7, <1>9, PlaceholdersAssumption DEF ReadCapability, SessionInv
  <2>5. ~OutputEnded(Current)' => ~sessions'[Current].closed
    <3>1. OutputEnded(Current)' <=> OutputEnded(Current)
      BY <2>2, <2>3 DEF OutputEnded
    <3>2. ~OutputEnded(Current) => ~sessions[Current].closed
      BY <1>1, <1>9 DEF ReadCapability, ConnectionInv, Connected
    <3>3. QED
      BY <2>3, <3>1, <3>2
  <2>6. \A p \in Protocols \ {source.protocol} : sessions'[<<pushes, p>>].at \in Inactive
    BY <1>1, <1>7, <1>9 DEF ReadCapability, ConnectionInv, Connected, TypeOK
  <2>7. QED
    BY <1>7, <1>9, <2>1, <2>2, <2>3, <2>4, <2>5, <2>6, PlaceholdersAssumption DEF ConnectionInv
<1>10. CASE FallBack
  <2>1. source'.at = "connect"
    BY <1>1, <1>10 DEF FallBack, SourceRecords
  <2>2. ~Connected'
    BY <2>1 DEF Connected
  <2>3. baseline.transfer < pushes /\ sessions[Current].at = "ended"
    BY <1>1, <1>7, <1>10 DEF FallBack, ConnectionInv, Connected, SessionInv
  <2>4. sessions'[Current].at = "ended"
    BY <1>1, <1>7, <1>10, <2>3 DEF FallBack, TypeOK, SessionRecords
  <2>5. \A p \in Protocols \ {source.protocol} : sessions'[<<pushes, p>>].at \in Inactive
    BY <1>1, <1>7, <1>10 DEF FallBack, ConnectionInv, Connected, TypeOK
  <2>6. \A p \in Protocols : sessions'[<<pushes, p>>].at \in Inactive
    BY <2>4, <2>5 DEF Current, Inactive
  <2>7. QED
    BY <1>7, <1>10, <2>1, <2>2, <2>3, <2>6 DEF ConnectionInv
<1>11. CASE ReadReady \/ SendArchive
  <2>1. source'.at \in {"send", "answer"} /\ source'.protocol = source.protocol
        /\ source.at \in {"ready", "send"} /\ (SendArchive => source'.at = "answer")
    BY <1>1, <1>11 DEF ReadReady, SendArchive, SourceRecords
  <2>2. Connected' /\ Current' = Current /\ Connected
    BY <1>7, <1>11, <2>1 DEF Connected, Current
  <2>3. /\ sessions'[Current].at = sessions[Current].at
        /\ sessions'[Current].said \in {sessions[Current].said, Silence}
        /\ sessions'[Current].alive = sessions[Current].alive
        /\ ReadReady => sessions'[Current].closed = sessions[Current].closed
    BY <1>1, <1>7, <1>11 DEF ReadReady, SendArchive, TypeOK, SessionRecords
  <2>4. source'.at # "answer" /\ ~OutputEnded(Current)' => ~sessions'[Current].closed
    <3>1. OutputEnded(Current)' <=> OutputEnded(Current)
      BY <2>2, <2>3 DEF OutputEnded
    <3>2. ~OutputEnded(Current) => ~sessions[Current].closed
      BY <1>1, <2>1, <2>2 DEF ConnectionInv
    <3>3. QED
      BY <1>11, <2>1, <2>3, <3>1, <3>2
  <2>5. \A p \in Protocols \ {source.protocol} : sessions'[<<pushes, p>>].at \in Inactive
    BY <1>1, <1>7, <1>11, <2>2 DEF ReadReady, SendArchive, ConnectionInv, TypeOK
  <2>6. QED
    BY <1>1, <1>7, <1>11, <2>1, <2>2, <2>3, <2>4, <2>5, PlaceholdersAssumption DEF ConnectionInv
<1>12. QED
  BY <1>3, <1>4, <1>5, <1>6, <1>8, <1>9, <1>10, <1>11 DEF SourceStep

(* What a session about to apply has not been overtaken by.                *)
LEMMA ApplyIsNewer ==
    ASSUME IInv, NEW s \in Sessions, sessions[s].at = "apply"
    PROVE  s[1] > baseline.transfer /\ s[1] <= pushes
<1>1. TypeOK /\ SessionInv(s)
  BY DEF IInv
<1>2. sessions[s].up \in Nat /\ s[1] \in Nat /\ pushes \in Nat /\ baseline.transfer \in Nat
  BY <1>1, SessionParts DEF TypeOK, Pushes
<1>3. s[1] <= pushes
  BY <1>1, <1>2 DEF SessionInv, Unopened
<1>4. sessions[s].up > 0
  <2>1. Accepts(s)
    BY <1>1 DEF SessionInv
  <2>2. QED
    BY <1>1, <1>2, <2>1, ItemsType DEF Accepts
<1>5. s[1] > baseline.transfer
  BY <1>1, <1>2, <1>4 DEF SessionInv, Unapplied
<1>6. QED
  BY <1>3, <1>5

LEMMA TargetConnection ==
    ASSUME IInv, NEW s \in Sessions, TargetStep(s) \/ Refuse(s) \/ Break(s)
    PROVE  ConnectionInv'
<1>1. /\ TypeOK /\ ConnectionInv /\ SessionInv(s) /\ sessions[s] \in SessionRecords
      /\ pushes \in Nat /\ baseline.transfer \in Nat
  BY DEF IInv, TypeOK, SessionRecords
<1>2. UNCHANGED <<source, pushes>>
  BY DEF TargetStep, StartReceive, RefuseReceive, Preflight, Receive, Apply, Answer, Refuse,
         Break, sourceVars
<1>3. \A y \in Sessions : y # s => sessions'[y] = sessions[y]
  BY <1>1
  DEF TargetStep, StartReceive, RefuseReceive, Preflight, Say, End, Receive, Apply, Answer,
      Refuse, Break, TypeOK
<1>4. ~Apply(s) => UNCHANGED baseline
  BY DEF TargetStep, StartReceive, RefuseReceive, Preflight, Receive, Answer, Refuse,
         Break, targetVars
<1>5. /\ sessions[s].at \in Inactive => sessions'[s].at = sessions[s].at
      /\ sessions'[s].at # "starting" \/ sessions[s].at = "starting"
      /\ sessions'[s].closed => sessions[s].closed \/ sessions'[s].at = "ended" \/ ~sessions'[s].alive
      /\ ~sessions[s].alive => ~sessions'[s].alive
      /\ \/ sessions'[s].said # "unsupported"
         \/ sessions[s].said = "unsupported" /\ ~Apply(s)
         \/ sessions[s].at = "starting" /\ sessions[s].alive /\ ~Apply(s)
      /\ \/ sessions'[s].said # "committed"
         \/ sessions[s].said = "committed" /\ ~Apply(s)
         \/ sessions[s].at = "answer" /\ ~Apply(s)
  <2>1. CASE \E said : /\ End(s, said) /\ sessions[s].at \notin Inactive
                       /\ said = "unsupported" => sessions[s].at = "starting" /\ sessions[s].alive
                       /\ said = "committed" => sessions[s].at = "answer"
    <3>1. PICK said : /\ End(s, said) /\ sessions[s].at \notin Inactive
                      /\ said = "unsupported" => sessions[s].at = "starting" /\ sessions[s].alive
                      /\ said = "committed" => sessions[s].at = "answer"
      BY <2>1
    <3>2. sessions'[s] = [Unopened EXCEPT !.at = "ended", !.alive = sessions[s].alive, !.said = said]
      BY <1>1, <3>1 DEF End, TypeOK
    <3>3. /\ sessions'[s].at = "ended" /\ sessions'[s].said = said
          /\ sessions'[s].alive = sessions[s].alive
      BY <3>2 DEF Unopened
    <3>4. sessions[s].at # "apply" \/ ~Apply(s)
      <4>1. Apply(s) => sessions'[s].at = "answer"
        BY <1>1 DEF Apply, TypeOK, SessionRecords
      <4>2. QED
        BY <3>3, <4>1
    <3>5. ~Apply(s)
      BY <3>4 DEF Apply
    <3>6. QED
      BY <3>1, <3>3, <3>5
  <2>2. CASE RefuseReceive(s)
    BY <2>1, <2>2, PlaceholdersAssumption DEF RefuseReceive, Inactive
  <2>3. CASE Answer(s)
    BY <2>1, <2>3, PlaceholdersAssumption DEF Answer, Inactive
  <2>4. CASE Refuse(s)
    <3>1. sessions[s].said \notin {"unsupported", "committed"}
      BY <1>1, <2>4 DEF Refuse, SessionInv
    <3>2. QED
      BY <2>1, <2>4, <3>1 DEF Refuse, Inactive
  <2>5. CASE StartReceive(s)
    <3>1. CASE s[2] \notin speaks
      BY <2>1, <2>5, <3>1, PlaceholdersAssumption DEF StartReceive, Inactive
    <3>2. CASE s[2] \in speaks
      <4>1. /\ sessions[s].at = "starting"
            /\ sessions' = [sessions EXCEPT ![s].at = IF s[2] = 2 THEN "preflight" ELSE "receive",
                                            ![s].said = "capability"]
        BY <2>5, <3>2 DEF StartReceive
      <4>2. /\ sessions'[s].at \in {"preflight", "receive"} /\ sessions'[s].said = "capability"
            /\ sessions'[s].closed = sessions[s].closed /\ sessions'[s].alive = sessions[s].alive
        BY <1>1, <4>1 DEF TypeOK, SessionRecords
      <4>3. QED
        BY <4>1, <4>2 DEF Inactive
    <3>3. QED
      BY <3>1, <3>2
  <2>6. CASE Preflight(s)
    <3>1. CASE End(s, Silence)
      BY <2>1, <2>6, <3>1, PlaceholdersAssumption DEF Preflight, Inactive
    <3>2. CASE ~End(s, Silence)
      <4>1. /\ sessions[s].at = "preflight"
            /\ sessions' = [sessions EXCEPT ![s].at = "receive", ![s].said = "ready"]
        BY <2>6, <3>2 DEF Preflight, Say
      <4>2. /\ sessions'[s].at = "receive" /\ sessions'[s].said = "ready"
            /\ sessions'[s].closed = sessions[s].closed /\ sessions'[s].alive = sessions[s].alive
        BY <1>1, <4>1 DEF TypeOK, SessionRecords
      <4>3. QED
        BY <4>1, <4>2 DEF Inactive
    <3>3. QED
      BY <3>1, <3>2
  <2>7. CASE Receive(s) \/ Apply(s)
    <3>1. CASE End(s, Silence) /\ Receive(s)
      BY <2>1, <3>1, PlaceholdersAssumption DEF Receive, Inactive
    <3>2. CASE ~(End(s, Silence) /\ Receive(s))
      <4>1. /\ sessions[s].at \in {"receive", "apply"}
            /\ \E at \in {"apply", "answer"} : sessions' = [sessions EXCEPT ![s].at = at]
        BY <2>7, <3>2 DEF Receive, Apply
      <4>2. /\ sessions'[s].at \in {"apply", "answer"} /\ sessions'[s].said = sessions[s].said
            /\ sessions'[s].closed = sessions[s].closed /\ sessions'[s].alive = sessions[s].alive
        BY <1>1, <4>1 DEF TypeOK, SessionRecords
      <4>3. sessions[s].said \notin {"unsupported", "committed"}
        BY <1>1, <4>1 DEF SessionInv
      <4>4. QED
        BY <4>1, <4>2, <4>3 DEF Inactive
    <3>3. QED
      BY <3>1, <3>2
  <2>8. CASE Break(s)
    <3>1. {sessions[s].said, Silence} \in SUBSET Messages
      BY <1>1 DEF SessionRecords, Messages
    <3>2. PICK r \in Broken(s, {sessions[s].said, Silence}) : sessions' = [sessions EXCEPT ![s] = r]
      BY <2>8 DEF Break
    <3>3. r.at = sessions[s].at /\ ~r.alive /\ r.said \in {sessions[s].said, Silence}
      BY <1>1, <3>1, <3>2, BrokenRecord
    <3>4. sessions'[s] = r
      BY <1>1, <3>2, SessionsAfter
    <3>5. r.said \in {"unsupported", "committed"} => sessions[s].at = "ended" /\ r.said = sessions[s].said
      BY <1>1, <3>3, PlaceholdersAssumption DEF SessionInv
    <3>6. sessions[s].at = "ended" => ~Apply(s)
      BY DEF Apply
    <3>7. QED
      BY <3>3, <3>4, <3>5, <3>6
  <2>9. QED
    BY <2>2, <2>3, <2>4, <2>5, <2>6, <2>7, <2>8 DEF TargetStep
<1>6. Apply(s) => /\ sessions[s].at = "apply" /\ baseline'.transfer = s[1]
                  /\ s[1] > baseline.transfer /\ s[1] <= pushes
  BY ApplyIsNewer DEF Apply
<1>7. s[1] \in Nat /\ s[2] \in Protocols /\ s = <<s[1], s[2]>>
  BY SessionParts DEF Pushes
<1>8. source.at = "connect" => baseline'.transfer < pushes
  <2>1. CASE ~Apply(s)
    BY <1>1, <1>4, <2>1 DEF ConnectionInv
  <2>2. CASE Apply(s)
    BY <1>1, <1>6, <1>7, <2>2 DEF ConnectionInv, Inactive
  <2>3. QED
    BY <2>1, <2>2
<1>9. ASSUME Connected
      PROVE  /\ sessions'[Current].at = "starting" => sessions[Current].at = "starting"
             /\ sessions'[Current].closed => sessions[Current].closed \/ OutputEnded(Current)'
             /\ OutputEnded(Current) => OutputEnded(Current)'
             /\ sessions'[Current].said = "unsupported" => baseline'.transfer < pushes
             /\ sessions'[Current].said = "committed" => baseline'.transfer = pushes
  <2>1. /\ Current \in Sessions /\ Current[1] = pushes /\ Current' = Current
        /\ Current[2] = source.protocol
    BY <1>1, <1>2, <1>9, CurrentIsSession DEF Current
  <2>2. CASE s = Current
    <3>1. ASSUME sessions[s].at = "starting", sessions[s].alive
          PROVE  baseline.transfer < pushes
      <4>1. ~sessions[s].closed
        BY <1>1, <1>9, <2>2, <3>1 DEF ConnectionInv, OutputEnded, Connected
      <4>2. QED
        BY <1>1, <1>7, <2>1, <2>2, <3>1, <4>1 DEF SessionInv, Unapplied
    <3>2. sessions[s].at = "answer" => baseline.transfer = pushes
      BY <1>1, <2>1, <2>2 DEF SessionInv
    <3>3. /\ sessions[s].said = "unsupported" => baseline.transfer < pushes
          /\ sessions[s].said = "committed" => baseline.transfer = pushes
      BY <1>1, <1>9, <2>2 DEF ConnectionInv
    <3>4. OutputEnded(Current)' <=> sessions'[s].at = "ended" \/ ~sessions'[s].alive
      BY <2>1, <2>2 DEF OutputEnded
    <3>5. OutputEnded(Current) <=> sessions[s].at = "ended" \/ ~sessions[s].alive
      BY <2>2 DEF OutputEnded
    <3>6. QED
      BY <1>4, <1>5, <2>2, <3>1, <3>2, <3>3, <3>4, <3>5 DEF Inactive
  <2>3. CASE s # Current
    <3>1. sessions'[Current] = sessions[Current] /\ (OutputEnded(Current)' <=> OutputEnded(Current))
      BY <1>3, <2>1, <2>3 DEF OutputEnded
    <3>2. Apply(s) => s[1] < pushes
      <4>1. SUFFICES ASSUME Apply(s), s[1] = pushes PROVE FALSE
        BY <1>1, <1>6, <1>7
      <4>2. s[2] \in Protocols \ {source.protocol}
        BY <1>7, <2>3, <4>1 DEF Current
      <4>3. sessions[s].at \in Inactive
        BY <1>1, <1>7, <1>9, <4>1, <4>2 DEF ConnectionInv
      <4>4. QED
        BY <1>6, <4>1, <4>3 DEF Inactive
    <3>3. /\ sessions[Current].said = "unsupported" => baseline.transfer < pushes
          /\ sessions[Current].said = "committed" => baseline.transfer = pushes
      BY <1>1, <1>9 DEF ConnectionInv
    <3>4. QED
      BY <1>1, <1>4, <1>6, <1>7, <3>1, <3>2, <3>3
  <2>4. QED
    BY <2>2, <2>3
<1>10. ASSUME Connected \/ source.at = "connect",
              NEW p \in Protocols, sessions[<<pushes, p>>].at \in Inactive
       PROVE  sessions'[<<pushes, p>>].at \in Inactive
  <2>1. <<pushes, p>> \in Sessions
    BY <1>1, <1>10, CurrentIsSession, SessionParts
  <2>2. QED
    BY <1>3, <1>5, <1>10, <2>1
<1>11. QED
  BY <1>2, <1>8, <1>9, <1>10, ConnectionKept

LEMMA ConnectionStep == IInv /\ [Next]_vars => ConnectionInv'
<1> SUFFICES ASSUME IInv, [Next]_vars PROVE ConnectionInv'
  OBVIOUS
<1>1. TypeOK'
  BY TypeStep
<1>2. CASE UNCHANGED vars \/ \E edit \in Edited : EditTarget(edit)
  <2>1. UNCHANGED <<source, pushes, sessions, baseline>>
    BY <1>2 DEF vars, sourceVars, targetVars, EditTarget
  <2>2. ConnectionInv
    BY DEF IInv
  <2>3. QED
    BY <2>1, <2>2 DEF ConnectionInv, Connected, Current, OutputEnded
<1>3. QED
  BY <1>1, <1>2, SourceConnection, TargetConnection DEF Next

-----------------------------------------------------------------------------
(* The theorems.                                                           *)

LEMMA InitIInv == Init => IInv
<1> SUFFICES ASSUME Init PROVE IInv
  OBVIOUS
<1>1. TypeOK
  BY InitType
<1>2. source.at = "idle" /\ pushes = 0
  BY DEF Init, IdleSource
<1>3. BackupInv /\ ConnectionInv /\ ~Connected
  BY <1>2 DEF BackupInv, ConnectionInv, Connected
<1>4. ASSUME NEW s \in Sessions PROVE SessionInv(s)
  <2>1. sessions[s] = Unopened /\ s[1] \in Nat
    BY SessionParts DEF Init, Pushes
  <2>2. QED
    BY <1>2, <2>1, PlaceholdersAssumption
    DEF SessionInv, Unopened, Working, Unapplied, Inactive
<1>5. OwnInv
  BY DEF Init, OwnInv
<1>6. QED
  BY <1>1, <1>3, <1>4, <1>5 DEF IInv

LEMMA IInvStep == IInv /\ [Next]_vars => IInv'
BY TypeStep, BackupStep, ConnectionStep, SessionStep, OwnStep DEF IInv

(* The inductive invariant: what source, sessions and target know of one   *)
(* another at every step of the two commands and of the connection.        *)
THEOREM InvariantHolds == Spec => []IInv
BY InitIInv, IInvStep, PTL DEF Spec

(* Every variable has its type: in particular no more is ever on its way   *)
(* to the target than the protocol of that session has to send             *)
(* (sync_transport.push_archive).                                          *)
THEOREM TypeCorrect == Spec => []TypeOK
<1>1. IInv => TypeOK
  BY DEF IInv
<1>2. QED
  BY <1>1, InvariantHolds, PTL

(* sync_transport_receive never applies an archive over a newer one.       *)
THEOREM NeverOlderHolds == Spec => []NeverOlder
<1>1. IInv => NeverOlder
  BY ApplyIsNewer DEF NeverOlder
<1>2. QED
  BY <1>1, InvariantHolds, PTL

(* apply_import refuses a push for conflicts only over files that the last *)
(* transfer did not bring or that users changed since.                     *)
THEOREM NoSpuriousConflictHolds == Spec => []NoSpuriousConflict
<1>1. IInv => NoSpuriousConflict
  <2>1. SUFFICES ASSUME IInv, NEW s \in Sessions
                 PROVE  Conflicts(archives[s[1]]) \subseteq own
    BY DEF NoSpuriousConflict
  <2>2. OwnInv
    BY <2>1 DEF IInv
  <2>3. QED
    BY <2>2 DEF OwnInv, Conflicts
<1>2. QED
  BY <1>1, InvariantHolds, PTL

(* sync_push puts the registry back before it reports a CodeluxError.      *)
THEOREM FailureKeepsRegistryHolds == Spec => FailureKeepsRegistry
<1> DEFINE Kept == source.at # "idle" /\ source'.report = "failed" =>
                      source.was \in {"missing", registry'}
<1>1. IInv /\ [Next]_vars => [Kept]_vars
  <2>1. SUFFICES ASSUME IInv, Next, source.at # "idle", source'.report = "failed"
                 PROVE  source.was \in {"missing", registry'}
    OBVIOUS
  <2>2. BackupInv /\ source \in SourceRecords
    BY <2>1, TypeParts DEF IInv, SourceType
  <2>3. source.report = "none"
    BY <2>1, <2>2 DEF BackupInv
  <2>4. Fail
    <3>1. source' # source
      BY <2>1, <2>3
    <3>2. ~\E s \in Sessions : TargetStep(s) \/ Refuse(s) \/ Break(s)
      BY <3>1
      DEF TargetStep, StartReceive, RefuseReceive, Preflight, Receive, Apply, Answer, Refuse,
          Break, sourceVars
    <3>3. ~(\E edit \in Edited : EditTarget(edit))
      BY <3>1 DEF EditTarget, sourceVars
    <3>4. ~(StartPush \/ Standardise \/ Collect \/ Connect \/ ReadCapability)
      BY <2>1, <2>2, <2>3
      DEF StartPush, Standardise, Collect, Connect, ReadCapability, IdleSource, SourceRecords
    <3>5. ~(FallBack \/ ReadReady \/ SendArchive \/ ReadCommitted \/ ReadEnd \/ Dismiss \/ Abort)
      BY <2>1, <2>2, <2>3
      DEF FallBack, ReadReady, SendArchive, ReadCommitted, ReadEnd, Dismiss, LoseConnection,
          Abort, IdleSource, SourceRecords
    <3>6. QED
      BY <2>1, <3>2, <3>3, <3>4, <3>5 DEF Next, SourceStep
  <2>5. registry' = IF source.backup = "missing" THEN registry ELSE source.backup
    BY <2>1, <2>4 DEF Fail, IdleSource
  <2>6. QED
    BY <2>1, <2>2, <2>5 DEF BackupInv
<1>2. QED
  BY <1>1, InvariantHolds, PTL DEF Spec, FailureKeepsRegistry

-----------------------------------------------------------------------------
(* Pushing implements OrderedDelivery.                                     *)

LEMMA OrderedInit == Init => Ordered!Init
BY DEF Init, Ordered!Init, Nothing, Pushes

LEMMA OrderedStep == IInv /\ [Next]_vars => [Ordered!Next]_(Ordered!abstractVars)
<1> SUFFICES ASSUME IInv, [Next]_vars
             PROVE  Ordered!Next \/ UNCHANGED <<pushes, archives, target, baseline.transfer, confirmed>>
  BY DEF Ordered!abstractVars
<1>1. TypeOK /\ TypeOK' /\ ConnectionInv
  BY TypeStep DEF IInv
<1>2. CASE Collect /\ ~UNCHANGED <<pushes, archives>>
  <2>1. /\ pushes' = pushes + 1
        /\ \E archive \in Offered[pushes'] : archives' = [archives EXCEPT ![pushes'] = archive]
    BY <1>2 DEF Collect
  <2>2. PICK archive \in Offered[pushes'] : archives' = [archives EXCEPT ![pushes'] = archive]
    BY <2>1
  <2>3. pushes' \in Pushes
    BY <1>1, <1>2, <2>1, BoundsAssumption DEF Collect, ConnectionInv, TypeOK, Pushes
  <2>4. archive \in Ordered!Archives
    BY <2>3, OfferedAssumption DEF Ordered!Archives, Archives
  <2>5. UNCHANGED <<target, baseline.transfer, confirmed>>
    BY <1>2 DEF Collect, targetVars
  <2>6. Ordered!Offer
    BY <2>1, <2>2, <2>4, <2>5 DEF Ordered!Offer
  <2>7. QED
    BY <2>6 DEF Ordered!Next
<1>3. CASE \E s \in Sessions : Apply(s)
  <2>1. PICK s \in Sessions : Apply(s)
    BY <1>3
  <2>2. PICK part \in Received(s) :
          /\ target' = Over(target, part)
          /\ baseline' = [transfer |-> s[1], files |-> part]
    BY <2>1 DEF Apply
  <2>3. Accepts(s)
    BY <2>1 DEF IInv, SessionInv, Apply
  <2>4. part = archives[s[1]]
    BY <1>1, <2>3, ReceivedWhole
  <2>5. s[1] \in baseline.transfer + 1 .. pushes
    <3>1. s[1] > baseline.transfer /\ s[1] <= pushes
      BY <2>1, ApplyIsNewer DEF Apply
    <3>2. s[1] \in Nat /\ baseline.transfer \in Nat /\ pushes \in Nat
      BY <1>1, SessionParts DEF TypeOK, Pushes
    <3>3. QED
      BY <3>1, <3>2
  <2>6. UNCHANGED <<pushes, archives, confirmed>>
    BY <2>1 DEF Apply, sourceVars
  <2>7. Ordered!Deliver
    BY <2>2, <2>4, <2>5, <2>6 DEF Ordered!Deliver, Over
  <2>8. QED
    BY <2>7 DEF Ordered!Next
<1>4. CASE ReadCommitted
  <2>1. baseline.transfer = pushes
    BY <1>1, <1>4 DEF ReadCommitted, ConnectionInv, Connected
  <2>2. Ordered!Confirm
    BY <1>4, <2>1 DEF ReadCommitted, targetVars, Ordered!Confirm
  <2>3. QED
    BY <2>2 DEF Ordered!Next
<1>5. CASE \E edit \in Edited : EditTarget(edit)
  <2>1. target' \in Ordered!Archives
    BY <1>1 DEF TypeOK, Ordered!Archives, Archives
  <2>2. Ordered!Edit
    BY <1>5, <2>1 DEF EditTarget, sourceVars, Ordered!Edit
  <2>3. QED
    BY <2>2 DEF Ordered!Next
<1>6. CASE \/ UNCHANGED vars
           \/ StartPush \/ Standardise \/ Connect \/ ReadCapability \/ FallBack \/ ReadReady
           \/ SendArchive \/ ReadEnd \/ Fail \/ Dismiss \/ Abort
           \/ Collect /\ UNCHANGED <<pushes, archives>>
  BY <1>6
  DEF vars, sourceVars, targetVars, StartPush, Standardise, Connect, ReadCapability, FallBack,
      ReadReady, SendArchive, ReadEnd, LoseConnection, Fail, Dismiss, Abort, Collect
<1>7. CASE \E s \in Sessions : (TargetStep(s) /\ ~Apply(s)) \/ Refuse(s) \/ Break(s)
  BY <1>7
  DEF TargetStep, StartReceive, RefuseReceive, Preflight, Receive, Answer, Refuse, Break,
      sourceVars, targetVars
<1>8. QED
  BY <1>2, <1>3, <1>4, <1>5, <1>6, <1>7 DEF Next, SourceStep

(* Whatever becomes of the connections and of the two commands, a transfer *)
(* reaches the target whole, at most once, never after a newer one, and is *)
(* reported as committed only when it did.                                 *)
THEOREM DeliveryIsOrderedHolds == Spec => DeliveryIsOrdered
<1>1. Init => Ordered!Init
  BY OrderedInit
<1>2. IInv /\ [Next]_vars => [Ordered!Next]_(Ordered!abstractVars)
  BY OrderedStep
<1>3. QED
  BY <1>1, <1>2, InvariantHolds, PTL DEF Spec, DeliveryIsOrdered, Ordered!Spec

=============================================================================
