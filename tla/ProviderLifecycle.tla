--------------------------- MODULE ProviderLifecycle ---------------------------
(***************************************************************************)
(* The Provider commands (src/codelux/cli.py): add, update, remove, switch *)
(* and switch official, over the registry, the files of the clients and    *)
(* the snapshots that earlier commands left.                               *)
(*                                                                         *)
(* A change of a client is one step here: ProviderTransaction takes it     *)
(* write by write and shows that it is atomic.  What stays of it is its    *)
(* snapshot, which is there also when the change failed and was undone.    *)
(* add and update ask questions between reading and writing (`asked`), and *)
(* users and clients write the files whenever no command is about to.      *)
(***************************************************************************)
EXTENDS ClientConfig, Sequences

CONSTANTS
    Offered,        \* Offered[c]: the bindings entered for client c
    StartFiles,     \* StartFiles[c]: what client c may start with
    Edited(_, _),   \* Edited(c, file): what users and clients make of a file
    Overrides,      \* whether the environment may override a client
    MaxSnapshots,   \* bound: changes of clients
    MaxEdits,       \* bound: edits
    MaxFailures     \* bound: changes that fail

ASSUME OfferedAssumption == Offered \in [Clients -> SUBSET Bindings]

ASSUME OverridesAssumption == Overrides \subseteq BOOLEAN

(* Clients start with files of the forms they write, and edits keep to     *)
(* these forms.                                                            *)
ASSUME FilesAssumption ==
    \A c \in Clients :
        /\ StartFiles[c] \subseteq ClientFiles(c)
        /\ \A file \in ClientFiles(c) : Edited(c, file) \subseteq ClientFiles(c)

VARIABLES
    registry,   \* providers.json
    files,      \* files[c]: the configuration files of client c
    snapshots,  \* backups/, by created_at; never removed
    asked,      \* the command that waits for answers, or None
    clean,      \* clean[c]: not edited since a command set client c up
    edits, failures     \* used up so far

vars == <<registry, files, snapshots, asked, clean, edits, failures>>

Init ==
    /\ registry = [providers |-> [n \in Names |-> [c \in Clients |-> None]],
                   current |-> [c \in Clients |-> None]]
    /\ \E claude \in StartFiles["claude"], codex \in StartFiles["codex"] :
          files = [c \in Clients |-> IF c = "claude" THEN claude ELSE codex]
    /\ snapshots = <<>>
    /\ asked = None
    /\ clean = [c \in Clients |-> Inspect(c, files[c], registry, FALSE).state \in OfficialStates]
    /\ edits = 0 /\ failures = 0

Idle == asked = None

View(c, overridden) == Inspect(c, files[c], registry, overridden)

Certain(view) == view.state \notin {"unknown", "external_override"}

(* What the registry ought to call it: the Provider of a custom state.     *)
InUse(view) == IF view.state = "custom" THEN view.provider ELSE None

(* Mutant: the Provider is written with its new binding only.              *)
WithBindingAlone(reg, n, c, binding) ==
    [reg EXCEPT !.providers[n] = [d \in Clients |-> IF d = c THEN binding ELSE None]]

WithBinding(reg, n, c, binding) == [reg EXCEPT !.providers[n][c] = binding]

WithCurrent(reg, c, n) == [reg EXCEPT !.current[c] = n]

-----------------------------------------------------------------------------
(* Mutant: the registry is written first, and stays when the client fails. *)
ApplyRegistryFirst(c, target, change, reg) ==
    /\ Len(snapshots) < MaxSnapshots
    /\ snapshots' = Append(snapshots, [client |-> c, target |-> target,
                                       state |-> change.state, files |-> change.before])
    /\ registry' = reg
    /\ \/ files' = [files EXCEPT ![c] = change.after]
          /\ clean' = [clean EXCEPT ![c] = TRUE] /\ UNCHANGED failures
       \/ failures < MaxFailures /\ failures' = failures + 1 /\ UNCHANGED <<files, clean>>
    /\ UNCHANGED edits

(* The outcomes of a change: done, with the registry written after it;     *)
(* failed before anything was written; failed at the second file of Codex; *)
(* or put back from its backup, which may not be what was there before.    *)
Apply(c, target, change, reg) ==
    /\ Len(snapshots) < MaxSnapshots
    /\ snapshots' = Append(snapshots, [client |-> c, target |-> target,
                                       state |-> change.state, files |-> change.before])
    /\ \/ /\ files' = [files EXCEPT ![c] = change.after]
          /\ registry' = reg
          /\ clean' = [clean EXCEPT ![c] = TRUE]
          /\ UNCHANGED failures
       \/ /\ failures < MaxFailures
          /\ failures' = failures + 1
          /\ \E left \in {files[c], change.before}
                       \cup IF c = "codex" THEN {[files[c] EXCEPT !.config = change.before.config]}
                                           ELSE {} :
                files' = [files EXCEPT ![c] = left]
          /\ UNCHANGED <<registry, clean>>
    /\ UNCHANGED edits

RegistryOnly(reg) ==
    /\ registry' = reg
    /\ UNCHANGED <<files, snapshots, edits, failures>>

(* add: what is checked before the questions.                              *)
AskAdd(c, n, overridden) ==
    /\ Idle
    /\ Binding(registry, n, c) = None
    /\ Certain(View(c, overridden)) \/ (c = "codex" /\ Fresh(files[c]))
    /\ asked' = [by |-> "add", client |-> c, name |-> n, active |-> TRUE,
                 overridden |-> overridden]
    /\ UNCHANGED <<registry, files, snapshots, clean, edits, failures>>

(* add, answered: a client that already is what the new binding says is    *)
(* adopted, any other is switched to it.                                   *)
AnswerAdd(binding) ==
    /\ ~Idle
    /\ asked.by = "add"
    /\ LET c == asked.client
           n == asked.name
           added == WithBinding(registry, n, c, binding)
           chosen == WithCurrent(added, c, n)
           change == PrepareProvider(c, files[c], n, binding, TRUE, registry, asked.overridden) IN
       /\ BoundTo(registry, c, binding) = {}
       /\ IF Inspect(c, files[c], added, asked.overridden) = ObservedCustom(n)
          THEN /\ RegistryOnly(chosen)
               /\ clean' = [clean EXCEPT ![c] = TRUE]
          ELSE change # Refused /\ Apply(c, n, change, chosen)
    /\ asked' = None

(* update: nothing is drifted when the questions are asked.                *)
AskUpdate(c, n, overridden) ==
    /\ Idle
    /\ Binding(registry, n, c) # None
    /\ LET view == View(c, overridden) IN
       /\ Certain(view)
       /\ registry.current[c] = InUse(view)
       /\ asked' = [by |-> "update", client |-> c, name |-> n, active |-> InUse(view) = n,
                    overridden |-> overridden]
    /\ UNCHANGED <<registry, files, snapshots, clean, edits, failures>>

(* Mutant: the client is left for the user to switch again.                *)
AnswerUpdateRegistry(binding) ==
    /\ ~Idle
    /\ asked.by = "update"
    /\ RegistryOnly(WithBinding(registry, asked.name, asked.client, binding))
    /\ asked' = None
    /\ UNCHANGED clean

(* update, answered: the client follows when the Provider was its own.     *)
AnswerUpdate(binding) ==
    /\ ~Idle
    /\ asked.by = "update"
    /\ LET c == asked.client
           n == asked.name
           updated == WithBinding(registry, n, c, binding)
           change == PrepareProvider(c, files[c], n, binding, TRUE, registry, asked.overridden) IN
       IF asked.active
       THEN change # Refused /\ Apply(c, n, change, updated)
       ELSE RegistryOnly(updated) /\ UNCHANGED clean
    /\ asked' = None

(* The questions are not answered, or the answer is refused.               *)
Abandon ==
    /\ ~Idle
    /\ asked' = None
    /\ UNCHANGED <<registry, files, snapshots, clean, edits, failures>>

(* _provider_has_history.                                                  *)
HasHistory(n, cs) ==
    \E i \in 1 .. Len(snapshots) : snapshots[i].target = n /\ snapshots[i].client \in cs

(* Mutant: what the client itself says is not looked at.                   *)
NotInUseByRegistry(c, n, overridden) == registry.current[c] # n

NotInUse(c, n, overridden) ==
    LET view == View(c, overridden) IN
    /\ Certain(view)
    /\ view.state = "custom" => view.provider # None
    /\ registry.current[c] = InUse(view)
    /\ InUse(view) # n

(* remove, for one client or for all.                                      *)
Remove(n, cs, force, overridden) ==
    /\ Idle
    /\ BoundClients(registry, n) # {}
    /\ LET targets == cs \cap BoundClients(registry, n) IN
       /\ \A c \in targets : NotInUse(c, n, overridden)
       /\ force \/ ~HasHistory(n, cs)
       /\ RegistryOnly([providers |-> [registry.providers EXCEPT ![n] =
                            [c \in Clients |-> IF c \in cs THEN None ELSE @[c]]],
                        current |-> [c \in Clients |->
                            IF c \in cs /\ registry.current[c] = n THEN None
                            ELSE registry.current[c]]])
    /\ UNCHANGED <<asked, clean>>

(* switch: also the repair of a client whose state is unknown.             *)
Switch(c, n, shared, overridden) ==
    /\ Idle
    /\ Binding(registry, n, c) # None
    /\ View(c, overridden).state # "external_override"
    /\ LET change == PrepareProvider(c, files[c], n, Binding(registry, n, c), shared,
                                     registry, overridden) IN
       /\ change # Refused
       /\ Apply(c, n, change, WithCurrent(registry, c, n))
    /\ UNCHANGED asked

-----------------------------------------------------------------------------
(* _latest_official_manifest.  A Codex snapshot of unknown state holds a   *)
(* login when its auth.json does.                                          *)
HoldsLogin(snapshot, c) ==
    /\ snapshot.client = c
    /\ \/ snapshot.state = "official_login"
       \/ c = "codex" /\ snapshot.state = "unknown" /\ HasLogin(snapshot.files)

HoldsApiKey(snapshot, c) ==
    /\ snapshot.client = c
    /\ snapshot.state = "official_api_key"
    /\ ~(c = "codex" /\ KeyRegistered(registry, snapshot.files.auth))

LoginSnapshots(c) == {i \in 1 .. Len(snapshots) : HoldsLogin(snapshots[i], c)}

ApiKeySnapshots(c) == {i \in 1 .. Len(snapshots) : HoldsApiKey(snapshots[i], c)}

Newest(s) == CHOOSE i \in s : \A j \in s : j <= i

(* The newest login, or else the newest key.                               *)
OfficialSnapshots(c) == IF LoginSnapshots(c) # {} THEN LoginSnapshots(c) ELSE ApiKeySnapshots(c)

(* Mutant: the login Codex holds is not looked at.                         *)
OfficialFromSnapshots(c, shared, overridden) ==
    LET candidates == OfficialSnapshots(c) IN
    IF candidates = {} THEN Refused
    ELSE PrepareRestore(c, files[c], snapshots[Newest(candidates)].files, shared,
                        registry, overridden)

(* switch official: a login Codex holds is kept, else a snapshot restored, *)
(* and Claude with a registered Provider can do without one.               *)
OfficialChange(c, shared, overridden) ==
    LET view == View(c, overridden)
        candidates == OfficialSnapshots(c) IN
    IF c = "codex" /\ HasLogin(files[c]) THEN CodexNative(files[c], shared, registry, overridden)
    ELSE IF candidates # {}
    THEN PrepareRestore(c, files[c], snapshots[Newest(candidates)].files, shared,
                        registry, overridden)
    ELSE IF c = "claude" /\ view.state = "custom" /\ view.provider # None
    THEN ClaudeNative(files[c], registry, overridden)
    ELSE Refused

SwitchOfficial(c, shared, overridden) ==
    /\ Idle
    /\ View(c, overridden).state \notin OfficialStates
    /\ LET change == OfficialChange(c, shared, overridden) IN
       /\ change # Refused
       /\ Apply(c, None, change, WithCurrent(registry, c, None))
    /\ UNCHANGED asked

-----------------------------------------------------------------------------
(* A user or a client writes its files.                                    *)
Edit(c) ==
    /\ edits < MaxEdits
    /\ edits' = edits + 1
    /\ \E file \in Edited(c, files[c]) \ {files[c]} : files' = [files EXCEPT ![c] = file]
    /\ clean' = [clean EXCEPT ![c] = FALSE]
    /\ UNCHANGED <<registry, snapshots, asked, failures>>

Next ==
    \/ \E c \in Clients, n \in Names, overridden \in Overrides :
          \/ AskAdd(c, n, overridden)
          \/ AskUpdate(c, n, overridden)
          \/ \E shared \in BOOLEAN : Switch(c, n, shared, overridden)
    \/ \E c \in Clients : ~Idle /\ asked.client = c /\
          \E binding \in Offered[c] : AnswerAdd(binding) \/ AnswerUpdate(binding)
    \/ Abandon
    \/ \E n \in Names, force \in BOOLEAN, overridden \in Overrides :
          \E cs \in {{"claude"}, {"codex"}, BoundClients(registry, n)} :
              Remove(n, cs, force, overridden)
    \/ \E c \in Clients, shared \in BOOLEAN, overridden \in Overrides :
          SwitchOfficial(c, shared, overridden)
    \/ \E c \in Clients : Edit(c)

Spec == Init /\ [][Next]_vars

-----------------------------------------------------------------------------
(* Properties.                                                             *)

Snapshots ==
    [client : Clients, target : Names \cup {None}, state : ConfigStates,
     files : ClaudeFiles \cup CodexFiles]

Questions ==
    [by : {"add", "update"}, client : Clients, name : Names, active : BOOLEAN,
     overridden : BOOLEAN]

(* The registry is one that load_registry accepts, the files and snapshots *)
(* are of the clients' forms.                                              *)
TypeOK ==
    /\ ValidRegistry(registry)
    /\ files \in [Clients -> ClaudeFiles \cup CodexFiles]
    /\ \A c \in Clients : files[c] \in ClientFiles(c)
    /\ snapshots \in Seq(Snapshots)
    /\ \A i \in 1 .. Len(snapshots) : snapshots[i].files \in ClientFiles(snapshots[i].client)
    /\ asked \in Questions \cup {None}
    /\ clean \in [Clients -> BOOLEAN]
    /\ edits \in Nat /\ failures \in Nat

(* One credential is registered twice, or is also the user's own: the      *)
(* client's files alone do not say which.  `add` refuses the first, but    *)
(* `update` does not ask, and neither asks for the second.                 *)
Clash(c) ==
    \/ \E n \in Names : Binding(registry, n, c) # None
                        /\ BoundTo(registry, c, Binding(registry, n, c)) # {n}
    \/ c = "codex" /\ files[c].auth \in Keys /\ Selected(files[c].config) = OpenAI
       /\ KeyRegistered(registry, files[c].auth)

(* status: the health it reports of a client.                              *)
Drifted(c) ==
    LET view == View(c, FALSE) IN
    view.state = "unknown" \/ registry.current[c] # InUse(view)

(* A client that nobody edited since a command set it up never drifts from *)
(* the registry, whatever other commands ran or failed meanwhile, and is   *)
(* official when the registry names no Provider for it.                    *)
StaysInAgreement ==
    \A c \in Clients :
        clean[c] /\ ~Clash(c) =>
            /\ ~Drifted(c)
            /\ registry.current[c] = None => View(c, FALSE).state \in OfficialStates

(* remove changes nothing of what any client is observed to use.           *)
RemoveIsUnseen ==
    [][(\E n \in Names, c \in Clients :
            Binding(registry, n, c) # None /\ Binding(registry', n, c) = None)
          => \A c \in Clients : View(c, FALSE)' = View(c, FALSE)]_vars

(* switch official gives Codex the login it holds, or the last one that    *)
(* any command found there, whatever became of the command and whatever    *)
(* config.toml said beside it (the environment overriding neither).        *)
OfficialLoginReturns ==
    [][LET held == {i \in 1 .. Len(snapshots) :
                       /\ snapshots[i].client = "codex" /\ HasLogin(snapshots[i].files)
                       /\ snapshots[i].state # "external_override"}
           last == snapshots'[Len(snapshots')] IN
       Len(snapshots') > Len(snapshots) /\ failures' = failures
       /\ last.client = "codex" /\ last.target = None =>
          IF HasLogin(files["codex"])
          THEN files'["codex"].auth = files["codex"].auth
          ELSE held # {} =>
                  files'["codex"].auth = snapshots[Newest(held)].files.auth]_vars

(* A change that fails leaves every client in the state it was observed    *)
(* in, wherever it failed and whatever the backup did not say of a file    *)
(* that was missing.                                                       *)
FailureIsUnseen ==
    [][failures' > failures => \A c \in Clients : View(c, FALSE)' = View(c, FALSE)]_vars

(* "The root selector and appended table are owned; all other existing     *)
(* lines retain their original content and order" (codex.py): a Provider   *)
(* that a command writes into config.toml leaves other tables alone.       *)
OtherLinesRetained ==
    [][LET config == files["codex"].config
           last == snapshots'[Len(snapshots')] IN
       Len(snapshots') > Len(snapshots) /\ last.client = "codex" /\ last.target # None
       /\ config \notin {Missing, Garbage} =>
          files'["codex"].config.inner = config.inner]_vars
===============================================================================
