----------------------------- MODULE SyncTransport -----------------------------
(***************************************************************************)
(* `sync push` over SSH: the command on the source machine (cli.sync_push, *)
(* sync_transport.push_archive), the command it starts on the target       *)
(* (cli.sync_transport_receive), and the connection between them.          *)
(*                                                                         *)
(* The connection may break, either command may fail or be killed, at any  *)
(* moment; what is on its way then is lost from some point on.  The user   *)
(* pushes again, perhaps while the earlier command still runs at the       *)
(* target.  Applying an archive is one step here: SyncImport takes it      *)
(* write by write and shows that it is atomic.                             *)
(***************************************************************************)
EXTENDS Integers, FiniteSets

CONSTANTS
    Files,          \* the files an archive may hold
    Values,         \* the contents a file may have
    Absent,         \* no such file
    Offered,        \* Offered[t]: the archives there may be to push at push t
    Edited,         \* what users at the target may do: <<file, content>>
    Installs,       \* the protocols a target may speak: {1, 2}, or {1}
    Silence,        \* nothing to read from the target
    NoSession,      \* nobody holds the lock of the target
    MaxPushes       \* bound: pushes that come to transfer an archive

Archives == [Files -> Values \cup {Absent}]

Nothing == [f \in Files |-> Absent]

Protocols == {1, 2}

Pushes == 1 .. MaxPushes

(* The commands started at the target: for a push, by protocol.            *)
Sessions == Pushes \X Protocols

ASSUME FilesAssumption == IsFiniteSet(Files) /\ Absent \notin Values

ASSUME OfferedAssumption ==
    /\ Offered \in [Pushes -> SUBSET Archives]
    /\ \A t \in Pushes : Nothing \notin Offered[t]

ASSUME EditedAssumption == Edited \subseteq Files \X (Values \cup {Absent})

ASSUME InstallsAssumption == Installs \subseteq SUBSET Protocols

ASSUME PlaceholdersAssumption ==
    /\ Silence \notin {"capability", "ready", "committed", "unsupported"}
    /\ NoSession \notin Sessions

ASSUME BoundsAssumption == MaxPushes \in Nat

VARIABLES
    source,     \* the push command
    registry,   \* providers.json on the source machine
    pushes,     \* archives sent or about to be, so far
    archives,   \* archives[t]: what push t transfers
    confirmed,  \* the last push that was reported as committed
    speaks,     \* the protocols of the target's Codelux
    sessions,   \* the commands at the target and their connections
    lock,       \* the session that holds the operation lock of the target
    target,     \* the files on the target machine
    baseline,   \* sync-state.json there: the last transfer and its files
    own         \* files at the target whose content is not from that transfer

sourceVars == <<source, registry, pushes, archives, confirmed>>
targetVars == <<lock, target, baseline, own>>
vars == <<sourceVars, speaks, sessions, targetVars>>

Registries == {"missing", "plain", "adopted"}

SourceLabels ==
    {"idle", "standardise", "collect", "connect", "greeting", "ready", "send",
     "answer", "fail"}

(* A session.  up: how much of what the source sent has arrived or will,   *)
(* counted in messages; closed: nothing more comes from the source; alive: *)
(* what the target writes can still reach the source; said: what it wrote  *)
(* last and the source has not read (neither writes twice in a row).       *)
SessionLabels ==
    {"none", "starting", "preflight", "receive", "apply", "answer", "ended"}

Messages == {"capability", "ready", "committed", "unsupported", Silence}

Unopened == [at |-> "none", up |-> 0, closed |-> FALSE, alive |-> FALSE, said |-> Silence]

(* backup: the registry to put back; was: the one before this push (for    *)
(* the properties); report: what the user was told of the last push.       *)
IdleSource ==
    [at |-> "idle", protocol |-> 2, backup |-> "missing", was |-> "missing", report |-> "none"]

Init ==
    /\ source = IdleSource
    /\ registry \in {"missing", "plain"}
    /\ pushes = 0
    /\ archives = [t \in Pushes |-> Nothing]
    /\ confirmed = 0
    /\ speaks \in Installs
    /\ sessions = [s \in Sessions |-> Unopened]
    /\ lock = NoSession
    /\ target = Nothing
    /\ baseline = [transfer |-> 0, files |-> Nothing]
    /\ own = {}

-----------------------------------------------------------------------------
(* Archives and messages.                                                  *)

(* The stream of an archive: the manifest, the files, the end marker.      *)
Size(archive) == 2 + Cardinality({f \in Files : archive[f] # Absent})

(* Protocol 2 sends the preflight line first.                              *)
Lead(s) == IF s[2] = 2 THEN 1 ELSE 0

Items(s) == Lead(s) + Size(archives[s[1]])

(* Mutant: a file that the manifest declares may be missing.               *)
AcceptsPrefix(s) == sessions[s].up > Lead(s)

(* Protocol 2 compares the size with the declared one; without it every    *)
(* file the manifest declares must be there, and the end marker may lack.  *)
Accepts(s) == sessions[s].up >= IF s[2] = 2 THEN Items(s) ELSE Items(s) - 1

(* What has arrived: the first files of the archive, as many as got        *)
(* through.                                                                *)
Received(s) ==
    LET archive == archives[s[1]]
        present == {f \in Files : archive[f] # Absent} IN
    {part \in Archives :
        /\ \A f \in Files : part[f] \in {archive[f], Absent}
        /\ LET arrived == {f \in present : part[f] # Absent}
               carried == sessions[s].up - Lead(s) - 1 IN
           Cardinality(arrived) = IF carried < Cardinality(present) THEN carried
                                  ELSE Cardinality(present)}

Over(files, part) == [f \in Files |-> IF part[f] = Absent THEN files[f] ELSE part[f]]

Conflicts(part) ==
    {f \in Files : part[f] # Absent /\ target[f] \notin {Absent, part[f], baseline.files[f]}}

Current == <<pushes, source.protocol>>

Connected == source.at \in {"greeting", "ready", "send", "answer"}

(* Nothing more will come from the target.                                 *)
OutputEnded(s) == sessions[s].at = "ended" \/ ~sessions[s].alive

(* What the target has certainly read of what was sent.                    *)
Read(s) ==
    CASE sessions[s].at \in {"none", "starting", "preflight"} -> 0
      [] sessions[s].at = "receive" -> Lead(s)
      [] OTHER -> sessions[s].up

(* Session s when its connection broke, with what arrives and what can     *)
(* still be read.                                                          *)
Lost(s, up, said) ==
    [sessions[s] EXCEPT !.alive = FALSE, !.closed = TRUE, !.up = up, !.said = said]

(* Messages on their way arrive up to some point, or nobody waits for them.*)
Broken(s, left) == {Lost(s, up, said) : up \in Read(s) .. sessions[s].up, said \in left}

-----------------------------------------------------------------------------
(* The source.                                                             *)

(* The operation lock of the source excludes a second push, and all other  *)
(* commands, until this one ends.                                          *)
StartPush ==
    /\ source.at = "idle"
    /\ pushes < MaxPushes
    /\ source' = [IdleSource EXCEPT !.at = "standardise", !.was = registry]
    /\ UNCHANGED <<registry, pushes, archives, confirmed, speaks, sessions, targetVars>>

(* Mutant: the backup is read after the registry was saved.                *)
StandardiseThenBackup ==
    /\ source.at = "standardise"
    /\ registry' = "adopted"
    /\ source' = [source EXCEPT !.at = "collect", !.backup = "adopted"]
    /\ UNCHANGED <<pushes, archives, confirmed, speaks, sessions, targetVars>>

(* _standardize_sync_source registers a Provider that a client uses and    *)
(* that nobody registered; there may be none, or one whose URL or key      *)
(* cannot be found.  A registry that was not there has no backup.  A write *)
(* that fails raises no CodeluxError, whether it took effect or not.       *)
Standardise ==
    /\ source.at = "standardise"
    /\ \/ source' = [source EXCEPT !.at = "collect"] /\ UNCHANGED registry
       \/ source' = [source EXCEPT !.at = "fail"] /\ UNCHANGED registry
       \/ /\ source' = [source EXCEPT !.at = "collect", !.backup = registry]
          /\ registry' = "adopted"
       \/ /\ source' = [IdleSource EXCEPT !.report = "broken"]
          /\ registry' \in {registry, "adopted"}
    /\ UNCHANGED <<pushes, archives, confirmed, speaks, sessions, targetVars>>

(* The source is checked, the files are read and the archive is built; or  *)
(* something about them is wrong.                                          *)
Collect ==
    /\ source.at = "collect"
    /\ \/ source' = [source EXCEPT !.at = "fail"] /\ UNCHANGED <<pushes, archives>>
       \/ /\ source' = [source EXCEPT !.at = "connect"]
          /\ pushes' = pushes + 1
          /\ \E archive \in Offered[pushes'] : archives' = [archives EXCEPT ![pushes'] = archive]
    /\ UNCHANGED <<registry, confirmed, speaks, sessions, targetVars>>

(* ssh is started; the connection may break before anything comes of it.   *)
Connect ==
    /\ source.at = "connect"
    /\ source' = [source EXCEPT !.at = "greeting"]
    /\ sessions' = [sessions EXCEPT ![Current] =
                      [Unopened EXCEPT !.at = "starting", !.alive = TRUE]]
    /\ UNCHANGED <<registry, pushes, archives, confirmed, speaks, targetVars>>

(* The capability has come: protocol 2 sends the preflight, protocol 1     *)
(* goes on to the archive.                                                 *)
ReadCapability ==
    /\ source.at = "greeting"
    /\ sessions[Current].said = "capability"
    /\ sessions' = [sessions EXCEPT ![Current].said = Silence,
                                    ![Current].up = IF OutputEnded(Current) THEN @
                                                    ELSE Lead(Current)]
    /\ source' = [source EXCEPT !.at = IF source.protocol = 2 THEN "ready" ELSE "send"]
    /\ UNCHANGED <<registry, pushes, archives, confirmed, speaks, targetVars>>

(* No capability, and the target says why: it knows protocol 1 only.       *)
FallBack ==
    /\ source.at = "greeting"
    /\ source.protocol = 2
    /\ sessions[Current].said = "unsupported"
    /\ source' = [source EXCEPT !.at = "connect", !.protocol = 1]
    /\ sessions' = [sessions EXCEPT ![Current].said = Silence, ![Current].alive = FALSE]
    /\ UNCHANGED <<registry, pushes, archives, confirmed, speaks, targetVars>>

ReadReady ==
    /\ source.at = "ready"
    /\ sessions[Current].said = "ready"
    /\ sessions' = [sessions EXCEPT ![Current].said = Silence]
    /\ source' = [source EXCEPT !.at = "send"]
    /\ UNCHANGED <<registry, pushes, archives, confirmed, speaks, targetVars>>

(* Mutant: stdin is not closed behind the archive.                         *)
SendArchiveOpenEnded ==
    /\ source.at = "send"
    /\ ~OutputEnded(Current)
    /\ sessions' = [sessions EXCEPT ![Current].up = Items(Current)]
    /\ source' = [source EXCEPT !.at = "answer"]
    /\ UNCHANGED <<registry, pushes, archives, confirmed, speaks, targetVars>>

(* Mutant: a preflight line is sent to a target of protocol 1 too.         *)
SendArchiveAndPreflight ==
    /\ source.at = "send"
    /\ ~OutputEnded(Current)
    /\ sessions' = [sessions EXCEPT ![Current].up = 1 + Size(archives[pushes]),
                                    ![Current].closed = TRUE]
    /\ source' = [source EXCEPT !.at = "answer"]
    /\ UNCHANGED <<registry, pushes, archives, confirmed, speaks, targetVars>>

(* The archive, then the end of the stream.  Whatever breaks half-way      *)
(* breaks while it is on its way.                                          *)
SendArchive ==
    /\ source.at = "send"
    /\ ~OutputEnded(Current)
    /\ sessions' = [sessions EXCEPT ![Current].up = Items(Current), ![Current].closed = TRUE]
    /\ source' = [source EXCEPT !.at = "answer"]
    /\ UNCHANGED <<registry, pushes, archives, confirmed, speaks, targetVars>>

(* The answer and, with it, exit code 0.                                   *)
ReadCommitted ==
    /\ source.at = "answer"
    /\ sessions[Current].said = "committed"
    /\ sessions' = [sessions EXCEPT ![Current].said = Silence, ![Current].alive = FALSE]
    /\ source' = [IdleSource EXCEPT !.report = "committed"]
    /\ confirmed' = pushes
    /\ UNCHANGED <<registry, pushes, archives, speaks, targetVars>>

(* Any error ends the push and kills ssh.                                  *)
LoseConnection ==
    /\ \E broken \in Broken(Current, {Silence}) : sessions' = [sessions EXCEPT ![Current] = broken]
    /\ source' = [source EXCEPT !.at = "fail"]
    /\ UNCHANGED <<registry, pushes, archives, confirmed, speaks, targetVars>>

(* The stream of the target has ended where a message was due.             *)
ReadEnd ==
    /\ Connected
    /\ OutputEnded(Current)
    /\ sessions[Current].said = Silence
    /\ LoseConnection

(* The capability does not do: a client is missing, a limit too low.       *)
Dismiss ==
    /\ source.at = "greeting"
    /\ sessions[Current].said = "capability"
    /\ LoseConnection

(* The source reports a CodeluxError: the registry is put back first,      *)
(* which may fail in its turn.                                             *)
Fail ==
    /\ source.at = "fail"
    /\ \/ /\ registry' = IF source.backup = "missing" THEN registry ELSE source.backup
          /\ source' = [IdleSource EXCEPT !.report = "failed"]
       \/ /\ source.backup # "missing"
          /\ registry' \in {registry, source.backup}
          /\ source' = [IdleSource EXCEPT !.report = "broken"]
    /\ UNCHANGED <<pushes, archives, confirmed, speaks, sessions, targetVars>>

(* The push ends without a CodeluxError: the user interrupts it, ssh       *)
(* cannot be started, the process is killed.  Nothing is put back.  If     *)
(* ssh outlives it, the target sees the end of its stream.                 *)
Abort ==
    /\ source.at # "idle"
    /\ source' = [IdleSource EXCEPT !.report = "broken"]
    /\ IF ~Connected THEN UNCHANGED sessions
       ELSE \E left \in Broken(Current, {Silence})
                        \cup {[sessions[Current] EXCEPT !.closed = TRUE, !.said = Silence]} :
               sessions' = [sessions EXCEPT ![Current] = left]
    /\ UNCHANGED <<registry, pushes, archives, confirmed, speaks, targetVars>>

-----------------------------------------------------------------------------
(* The target.                                                             *)

(* Session s ends, and with the process its lock.  What still comes from   *)
(* the source reaches nobody.                                              *)
End(s, said) ==
    /\ sessions' = [sessions EXCEPT ![s] =
                      [Unopened EXCEPT !.at = "ended", !.alive = sessions[s].alive, !.said = said]]
    /\ lock' = IF lock = s THEN NoSession ELSE lock

(* The target writes a message, which fails on a broken connection.        *)
Say(s, message, next) ==
    IF sessions[s].alive
    THEN /\ sessions' = [sessions EXCEPT ![s].at = next, ![s].said = message]
         /\ UNCHANGED lock
    ELSE End(s, Silence)

(* Mutant: the operation lock is not waited for.                           *)
StartReceiveUnlocked(s) ==
    /\ sessions[s].at = "starting"
    /\ s[2] \in speaks
    /\ sessions[s].alive
    /\ sessions' = [sessions EXCEPT ![s].at = IF s[2] = 2 THEN "preflight" ELSE "receive",
                                    ![s].said = "capability"]
    /\ lock' = s
    /\ UNCHANGED <<sourceVars, speaks, target, baseline, own>>

(* The command starts at the target, perhaps long after its connection     *)
(* broke: it takes the operation lock and writes its capability.           *)
StartReceive(s) ==
    /\ sessions[s].at = "starting"
    /\ lock = NoSession
    /\ \/ /\ s[2] \in speaks
          /\ sessions[s].alive
          /\ sessions' = [sessions EXCEPT ![s].at = IF s[2] = 2 THEN "preflight" ELSE "receive",
                                          ![s].said = "capability"]
          /\ lock' = s
       \/ /\ s[2] \notin speaks
          /\ End(s, IF sessions[s].alive THEN "unsupported" ELSE Silence)
    /\ UNCHANGED <<sourceVars, speaks, target, baseline, own>>

(* The lock is taken, by an earlier session or another command; a recovery *)
(* is owed; or the capability cannot be written.                           *)
RefuseReceive(s) ==
    /\ sessions[s].at = "starting"
    /\ End(s, Silence)
    /\ UNCHANGED <<sourceVars, speaks, target, baseline, own>>

(* The preflight is read, and answered, or the stream ends before it.      *)
Preflight(s) ==
    /\ sessions[s].at = "preflight"
    /\ \/ sessions[s].up > 0 /\ Say(s, "ready", "receive")
       \/ sessions[s].up = 0 /\ sessions[s].closed /\ End(s, Silence)
    /\ UNCHANGED <<sourceVars, speaks, target, baseline, own>>

(* The archive ends with the stream, which says nothing of why it ended.   *)
Receive(s) ==
    /\ sessions[s].at = "receive"
    /\ sessions[s].closed
    /\ IF Accepts(s)
       THEN sessions' = [sessions EXCEPT ![s].at = "apply"] /\ UNCHANGED lock
       ELSE End(s, Silence)
    /\ UNCHANGED <<sourceVars, speaks, target, baseline, own>>

(* Mutant: the baseline is recorded only when the source can be answered.  *)
ApplyIfHeard(s) ==
    /\ sessions[s].at = "apply"
    /\ \E part \in Received(s) :
          /\ target' = Over(target, part)
          /\ baseline' = IF sessions[s].alive THEN [transfer |-> s[1], files |-> part]
                                              ELSE baseline
          /\ own' = {f \in Files : part[f] = Absent}
    /\ sessions' = [sessions EXCEPT ![s].at = "answer"]
    /\ UNCHANGED <<sourceVars, speaks, lock>>

(* apply_import.  Whether the user has given permission for the conflicts, *)
(* if there are any, is left open.                                         *)
Apply(s) ==
    /\ sessions[s].at = "apply"
    /\ \E part \in Received(s) :
          /\ target' = Over(target, part)
          /\ baseline' = [transfer |-> s[1], files |-> part]
          /\ own' = {f \in Files : part[f] = Absent}
    /\ sessions' = [sessions EXCEPT ![s].at = "answer"]
    /\ UNCHANGED <<sourceVars, speaks, lock>>

(* Mutant: the lock is not given back.                                     *)
AnswerLocked(s) ==
    /\ sessions[s].at = "answer"
    /\ sessions' = [sessions EXCEPT ![s].at = "ended", ![s].said = "committed"]
    /\ UNCHANGED <<sourceVars, speaks, targetVars>>

Answer(s) ==
    /\ sessions[s].at = "answer"
    /\ End(s, IF sessions[s].alive THEN "committed" ELSE Silence)
    /\ UNCHANGED <<sourceVars, speaks, target, baseline, own>>

(* The target refuses (a client runs, the manifest is not the declared     *)
(* one, a conflict lacks permission), fails, or is killed.                 *)
Refuse(s) ==
    /\ sessions[s].at \in {"preflight", "receive", "apply", "answer"}
    /\ End(s, sessions[s].said)
    /\ UNCHANGED <<sourceVars, speaks, target, baseline, own>>

-----------------------------------------------------------------------------
(* The world.                                                              *)

Break(s) ==
    /\ sessions[s].alive
    /\ sessions[s].at = "ended" => sessions[s].said # Silence
    /\ \E broken \in Broken(s, {sessions[s].said, Silence}) : sessions' = [sessions EXCEPT ![s] = broken]
    /\ UNCHANGED <<sourceVars, speaks, targetVars>>

(* A file at the target changes while no command runs there.               *)
EditTarget(edit) ==
    /\ lock = NoSession
    /\ target[edit[1]] # edit[2]
    /\ target' = [target EXCEPT ![edit[1]] = edit[2]]
    /\ own' = own \cup {edit[1]}
    /\ UNCHANGED <<sourceVars, speaks, sessions, lock, baseline>>

SourceStep ==
    \/ Standardise \/ Collect \/ Connect \/ ReadCapability \/ FallBack \/ ReadReady
    \/ SendArchive \/ ReadCommitted \/ ReadEnd \/ Fail

TargetStep(s) ==
    \/ StartReceive(s) \/ RefuseReceive(s) \/ Preflight(s) \/ Receive(s)
    \/ Apply(s) \/ Answer(s)

Next ==
    \/ StartPush \/ SourceStep \/ Dismiss \/ Abort
    \/ \E s \in Sessions : TargetStep(s) \/ Refuse(s) \/ Break(s)
    \/ \E edit \in Edited : EditTarget(edit)

Spec == Init /\ [][Next]_vars

(* A command that can go on goes on; that one refuses or fails is never    *)
(* counted on, nor that a command starts over a connection that broke.     *)
(* ReadEnd is fair because ssh notices a dead peer (ServerAliveInterval,   *)
(* ServerAliveCountMax); of the target's sshd the same is assumed.         *)
FairSpec ==
    /\ Spec
    /\ WF_vars(SourceStep)
    /\ \A s \in Sessions :
          /\ WF_vars(sessions[s].at # "starting" /\ TargetStep(s))
          /\ WF_vars(sessions[s].alive /\ TargetStep(s))

-----------------------------------------------------------------------------
(* Properties.                                                             *)

(* The type of every variable.  No more is on its way to a session than    *)
(* what its protocol has to send.                                          *)
TypeOK ==
    /\ source \in [at : SourceLabels, protocol : Protocols, backup : Registries,
                   was : Registries, report : {"none", "committed", "failed", "broken"}]
    /\ registry \in Registries
    /\ pushes \in 0 .. MaxPushes
    /\ archives \in [Pushes -> Archives]
    /\ confirmed \in 0 .. pushes
    /\ speaks \in Installs
    /\ sessions \in [Sessions -> [at : SessionLabels, up : Nat, closed : BOOLEAN,
                                  alive : BOOLEAN, said : Messages]]
    /\ \A s \in Sessions : sessions[s].up <= Items(s)
    /\ lock \in Sessions \cup {NoSession}
    /\ target \in Archives
    /\ baseline \in [transfer : 0 .. pushes, files : Archives]
    /\ own \subseteq Files

(* A session about to apply brings a transfer newer than any applied so    *)
(* far: a push given up half-way, whose command still runs at the target,  *)
(* never undoes the push that came after it, and the fallback to protocol  *)
(* 1 never applies what protocol 2 has applied.                            *)
NeverOlder ==
    \A s \in Sessions : sessions[s].at = "apply" => s[1] > baseline.transfer

(* A push is refused for conflicts only over files that users changed at   *)
(* the target, or that the last transfer did not bring: a transfer whose   *)
(* answer was lost does not turn the retry into a conflict with itself.    *)
NoSpuriousConflict ==
    \A s \in Sessions : sessions[s].at = "apply" =>
        Conflicts(archives[s[1]]) \subseteq own

(* A push that reports an error, at whatever point of either side, leaves  *)
(* the registry of the source as it found it, the detected Provider not    *)
(* registered; except a registry that was not there.                       *)
FailureKeepsRegistry ==
    [][source.at # "idle" /\ source'.report = "failed" =>
          source.was \in {"missing", registry'}]_vars

(* Every push ends: never do both sides wait for each other.               *)
PushEnds == source.at # "idle" ~> source.at = "idle"

(* No broken or abandoned connection keeps the target locked.              *)
TargetReleased == lock # NoSession ~> lock = NoSession

Ordered == INSTANCE OrderedDelivery WITH
             offered <- pushes, contents <- archives, newest <- baseline.transfer

(* Every step of the two commands and of the connection is a step of an    *)
(* ordered delivery, whole, at most once and reported truthfully, or       *)
(* changes nothing of it.                                                  *)
DeliveryIsOrdered == Ordered!Spec
===============================================================================
