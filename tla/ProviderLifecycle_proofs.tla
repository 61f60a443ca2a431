----------------------- MODULE ProviderLifecycle_proofs -----------------------
(***************************************************************************)
(* Proofs about ProviderLifecycle: what the adapters make of the clients'  *)
(* files keeps its form, a client that only commands touched agrees with   *)
(* the registry, and what remove, a failure and a return to the official   *)
(* login may change.                                                       *)
(***************************************************************************)
EXTENDS ProviderLifecycle, Extrema, FiniteSetTheorems

-----------------------------------------------------------------------------
(* The inductive invariant.                                                *)

(* A snapshot whose state says that the client was official holds files    *)
(* that say so too, and one that holds a login has a config to return to.  *)
SnapshotOK(c, state, file) ==
    IF c = "claude" THEN state \in OfficialStates => file \in Settings /\ file.url = None
    ELSE /\ HasLogin(file) =>
               /\ file.config \in Configs
               /\ state \in {"official_login", "unknown", "external_override"}
         /\ state = "official_login" => HasLogin(file)
         /\ state = "official_api_key" =>
               /\ file.config \in Configs /\ Selected(file.config) = OpenAI
               /\ file.auth \in Keys

SnapshotInv ==
    \A i \in 1 .. Len(snapshots) :
        SnapshotOK(snapshots[i].client, snapshots[i].state, snapshots[i].files)

(* The registry has not changed since update asked its questions.          *)
AskedInv ==
    asked # None /\ asked.by = "update" =>
        /\ Binding(registry, asked.name, asked.client) # None
        /\ asked.active <=> registry.current[asked.client] = asked.name

TypeInv == TypeOK /\ SnapshotInv /\ AskedInv

(* The files name no Provider.                                             *)
LoginSelected(file) ==
    /\ HasLogin(file)
    /\ \/ Selected(file.config) = OpenAI
       \/ file.config.root = Custom /\ file.config.tables[Custom] = Official

KeySelected(file) == file.auth \in Keys /\ Selected(file.config) = OpenAI

PlainOfficial(c, file) ==
    IF c = "claude" THEN file = Missing \/ (file \in Settings /\ file.url = None)
    ELSE Readable(file) /\ (LoginSelected(file) \/ KeySelected(file))

(* The files hold the binding of Provider n; of a config.toml with a       *)
(* profile, the selector may have gone there, which leaves the root with   *)
(* openai and is a Clash.                                                  *)
Holds(c, file, n, binding) ==
    IF c = "claude" THEN file = binding
    ELSE /\ Readable(file)
         /\ \/ /\ Selected(file.config) \in {n, Custom}
               /\ file.config.tables[Selected(file.config)] = binding.url
            \/ Selected(file.config) = OpenAI
         /\ file.auth = binding.key

SetUp(c, file, reg) ==
    IF reg.current[c] = None THEN PlainOfficial(c, file)
    ELSE Holds(c, file, reg.current[c], Binding(reg, reg.current[c], c))

AgreeInv ==
    /\ TypeInv
    /\ \A c \in Clients : clean[c] => SetUp(c, files[c], registry)

(* What the adapters prepare: forms that the clients know, a snapshot that *)
(* says what it holds, and a backup of the file that was read, in which    *)
(* what was missing or malformed may count as empty.                       *)
Backs(c, file, before) ==
    \/ before = file
    \/ c = "claude" /\ file \in {Missing, Garbage} /\ before = NoSettings
    \/ c = "codex" /\ Fresh(file) /\ before = [config |-> NoConfig, auth |-> Garbage]

SoundChange(c, file, change) ==
    /\ change.before \in ClientFiles(c) /\ change.after \in ClientFiles(c)
    /\ change.state \in ConfigStates
    /\ SnapshotOK(c, change.state, change.before)
    /\ Backs(c, file, change.before)

-----------------------------------------------------------------------------
(* The constants.                                                          *)

LEMMA Marks ==
    /\ Custom # OpenAI /\ Custom # None /\ OpenAI # None
    /\ None # Official /\ None # Partial
    /\ Missing # Garbage /\ Missing # Odd /\ Garbage # Odd
    /\ Names \cap {Custom, OpenAI, None} = {}
    /\ Urls \cap {None, Official, Partial} = {}
    /\ Keys \cap {None, Missing, Garbage, Odd} = {}
    /\ Logins \cap {Missing, Garbage, Odd} = {}
    /\ Keys \cap Logins = {}
<1> DEFINE marks == <<Custom, OpenAI, None, Official, Partial, Missing, Garbage, Odd, Refused>>
<1>1. /\ \A i, j \in 1 .. 9 : marks[i] = marks[j] => i = j
      /\ \A i \in 1 .. 9 : marks[i] \notin Names \cup Urls \cup Keys \cup Logins
      /\ Keys \cap Logins = {}
  BY DistinctAssumption
<1>2. /\ marks[1] = Custom /\ marks[2] = OpenAI /\ marks[3] = None
      /\ marks[4] = Official /\ marks[5] = Partial /\ marks[6] = Missing
      /\ marks[7] = Garbage /\ marks[8] = Odd
  OBVIOUS
<1> HIDE DEF marks
<1>3. \A i, j \in 1 .. 8 : marks[i] = marks[j] => i = j
  BY <1>1
<1>4. \A i \in 1 .. 8 : marks[i] \notin Names \cup Urls \cup Keys \cup Logins
  BY <1>1
<1>5. /\ marks[1] # marks[2] /\ marks[1] # marks[3] /\ marks[2] # marks[3]
      /\ marks[3] # marks[4] /\ marks[3] # marks[5]
      /\ marks[6] # marks[7] /\ marks[6] # marks[8] /\ marks[7] # marks[8]
  BY <1>3
<1>6. QED
  BY <1>1, <1>2, <1>4, <1>5

(* A binding is the pair of its fields, and settings that Claude can have. *)
LEMMA BindingFields ==
    ASSUME NEW binding \in Bindings
    PROVE  /\ binding.url \in Urls /\ binding.key \in Keys
           /\ binding = [url |-> binding.url, key |-> binding.key]
           /\ binding \in Settings /\ binding # None
BY FormsAssumption DEF Bindings, Settings

LEMMA BindingType ==
    ASSUME NEW reg \in Registries, NEW n \in Names, NEW c \in Clients
    PROVE  /\ Binding(reg, n, c) \in Bindings \cup {None}
           /\ reg.current[c] \in Names \cup {None}
BY DEF Binding, Registries

LEMMA CurrentBinding ==
    ASSUME NEW reg, ValidRegistry(reg), NEW c \in Clients, reg.current[c] # None
    PROVE  reg.current[c] \in Names /\ Binding(reg, reg.current[c], c) \in Bindings
<1>1. reg \in Registries /\ Binding(reg, reg.current[c], c) # None
  BY DEF ValidRegistry
<1>2. reg.current[c] \in Names
  BY <1>1 DEF Registries
<1>3. QED
  BY <1>1, <1>2, BindingType

LEMMA NoSettingsForm == NoSettings \in Settings /\ NoSettings.url = None
BY DEF NoSettings, Settings

LEMMA NoConfigForm ==
    /\ NoConfig \in Configs /\ NoConfig.inner = None
    /\ NoConfig \notin {Missing, Garbage}
<1>1. NoConfig \in Configs /\ NoConfig.inner = None
  BY DEF NoConfig, Configs, Selectors
<1>2. QED
  BY <1>1, FormsAssumption

LEMMA CodexFields ==
    ASSUME NEW file \in CodexFiles
    PROVE  /\ file.config \in Configs \cup {Missing, Garbage}
           /\ file.auth \in Keys \cup Logins \cup {Missing, Garbage, Odd}
           /\ file = [config |-> file.config, auth |-> file.auth]
           /\ Readable(file) => file.config \in Configs
BY DEF CodexFiles, Readable

LEMMA ConfigFields ==
    ASSUME NEW config \in Configs
    PROVE  /\ config.root \in Selectors /\ config.inner \in Selectors
           /\ config.tables \in [Aliases -> Urls \cup {None, Official, Partial}]
           /\ Selected(config) \in Aliases \cup {OpenAI}
           /\ config \notin {Missing, Garbage}
BY FormsAssumption DEF Configs, Selectors, Selected

-----------------------------------------------------------------------------
(* Patches of config.toml.                                                 *)

LEMMA SelectingForm ==
    ASSUME NEW config \in Configs, NEW selector \in Selectors,
           Selecting(config, selector) # Refused
    PROVE  /\ Selecting(config, selector) \in Configs
           /\ Selecting(config, selector).tables = config.tables
           /\ selector # None =>
                 \/ Selecting(config, selector).root = selector
                 \/ Selecting(config, selector).root = None
BY DEF Selecting, Configs

LEMMA PatchForm ==
    ASSUME NEW config \in Configs, NEW alias \in Aliases, NEW url \in Urls,
           PatchConfig(config, alias, url) # Refused
    PROVE  /\ PatchConfig(config, alias, url) \in Configs
           /\ PatchConfig(config, alias, url).tables[alias] = url
           /\ Selected(PatchConfig(config, alias, url)) \in {alias, OpenAI}
<1> DEFINE tables == [config.tables EXCEPT ![alias] = url]
           written == [config EXCEPT !.tables = tables]
           new == PatchConfig(config, alias, url)
<1>1. config.tables \in [Aliases -> Urls \cup {None, Official, Partial}]
  BY DEF Configs
<1>2. tables \in [Aliases -> Urls \cup {None, Official, Partial}] /\ tables[alias] = url
  BY <1>1
<1> HIDE DEF tables
<1>3. /\ written \in Configs /\ written.tables = tables
      /\ written.root = config.root /\ written.inner = config.inner
  BY <1>2 DEF Configs
<1>4. [config EXCEPT !.tables[alias] = url] = written
  BY DEF tables, Configs
<1>5. alias \in Selectors /\ alias # None
  BY Marks DEF Selectors, Aliases
<1> HIDE DEF written
<1>6. \/ new = Selecting(written, alias)
      \/ new = [written EXCEPT !.root = alias]
      \/ new = written /\ config.root = None
  BY <1>4 DEF PatchConfig
<1>7. CASE new = Selecting(written, alias)
  <2>1. new \in Configs /\ new.tables = tables /\ new.root \in {alias, None}
    BY <1>3, <1>5, <1>7, SelectingForm
  <2>2. QED
    BY <1>2, <1>5, <2>1 DEF Selected
<1>8. CASE new = [written EXCEPT !.root = alias]
  BY <1>2, <1>3, <1>5, <1>8 DEF Configs, Selected
<1>9. CASE new = written /\ config.root = None
  BY <1>2, <1>3, <1>9 DEF Selected
<1>10. QED
  BY <1>6, <1>7, <1>8, <1>9

LEMMA OfficialForm ==
    ASSUME NEW config \in Configs, NEW shared \in BOOLEAN,
           OfficialConfig(config, shared) # Refused
    PROVE  /\ OfficialConfig(config, shared) \in Configs
           /\ \/ Selected(OfficialConfig(config, shared)) = OpenAI
              \/ /\ OfficialConfig(config, shared).root = Custom
                 /\ OfficialConfig(config, shared).tables[Custom] = Official
<1> DEFINE selected == Selecting(config, Custom)
           new == OfficialConfig(config, shared)
<1>1. /\ OpenAI \in Selectors /\ Custom \in Selectors /\ Custom \in Aliases
      /\ OpenAI # None /\ Custom # None
  BY Marks DEF Selectors, Aliases
<1>2. CASE ~shared
  <2>1. new = Selecting(config, OpenAI)
    BY <1>2 DEF OfficialConfig
  <2>2. new \in Configs /\ new.root \in {OpenAI, None}
    BY <1>1, <2>1, SelectingForm
  <2>3. QED
    BY <2>2 DEF Selected
<1>3. CASE shared
  <2>1. /\ selected # Refused /\ selected.root = Custom
        /\ new = [selected EXCEPT !.tables[Custom] = Official]
    BY <1>3 DEF OfficialConfig
  <2>2. selected \in Configs
    BY <1>1, <2>1, SelectingForm
  <2> HIDE DEF selected
  <2>3. new \in Configs /\ new.root = Custom /\ new.tables[Custom] = Official
    BY <1>1, <2>1, <2>2 DEF Configs
  <2>4. QED
    BY <2>3
<1>4. QED
  BY <1>2, <1>3

-----------------------------------------------------------------------------
(* What is observed.                                                       *)

LEMMA InspectState ==
    ASSUME NEW c, NEW file, NEW reg, NEW overridden
    PROVE  Inspect(c, file, reg, overridden).state \in ConfigStates
<1>1. \A state \in ConfigStates : Observed(state).state \in ConfigStates
  BY DEF Observed
<1>2. \A n : ObservedCustom(n).state \in ConfigStates
  BY DEF ObservedCustom, ConfigStates
<1>3. {"unknown", "external_override", "official_api_key", "official_login"} \subseteq ConfigStates
  BY DEF ConfigStates
<1>4. InspectClaude(file, reg, overridden).state \in ConfigStates
  BY <1>1, <1>2, <1>3 DEF InspectClaude
<1>5. InspectCodex(file, reg, overridden).state \in ConfigStates
  BY <1>1, <1>2, <1>3 DEF InspectCodex
<1>6. QED
  BY <1>4, <1>5 DEF Inspect

LEMMA ObservedFields ==
    /\ \A state : Observed(state).state = state /\ Observed(state).provider = None
    /\ \A n : ObservedCustom(n).state = "custom" /\ ObservedCustom(n).provider = n
BY DEF Observed, ObservedCustom

LEMMA ClaudeOfficial ==
    ASSUME NEW file \in ClaudeFiles, NEW reg, NEW overridden,
           InspectClaude(file, reg, overridden).state \in OfficialStates
    PROVE  ~overridden /\ (file = Missing \/ (file \in Settings /\ file.url = None))
BY ObservedFields DEF InspectClaude, OfficialStates, ClaudeFiles

LEMMA CodexOfficial ==
    ASSUME NEW file \in CodexFiles, NEW reg, NEW overridden
    PROVE  /\ InspectCodex(file, reg, overridden).state = "official_login" =>
                 /\ ~overridden /\ Readable(file) /\ LoginSelected(file)
           /\ InspectCodex(file, reg, overridden).state = "official_api_key" =>
                 /\ ~overridden /\ Readable(file) /\ KeySelected(file)
                 /\ ~KeyRegistered(reg, file.auth)
           /\ HasLogin(file) =>
                 InspectCodex(file, reg, overridden).state
                    \in {"official_login", "unknown", "external_override"}
<1> DEFINE selector == Selected(file.config)
           table == IF selector = OpenAI THEN None ELSE file.config.tables[selector]
           n == LogicalProvider(selector, [url |-> table, key |-> file.auth], reg)
           view == InspectCodex(file, reg, overridden)
<1>1. \/ view = Observed("unknown") \/ view = Observed("external_override")
      \/ /\ ~overridden /\ Readable(file) /\ HasLogin(file) /\ view = Observed("official_login")
         /\ selector = OpenAI \/ (selector = Custom /\ table = Official)
      \/ /\ ~overridden /\ Readable(file) /\ file.auth \in Keys /\ ~HasLogin(file)
         /\ \/ selector = OpenAI /\ ~KeyRegistered(reg, file.auth)
               /\ view = Observed("official_api_key")
            \/ view = ObservedCustom(n)
  BY DEF InspectCodex
<1>2. selector = Custom /\ table = Official =>
         file.config.root = Custom /\ file.config.tables[Custom] = Official
  BY Marks DEF Selected
<1>3. QED
  BY <1>1, <1>2, ObservedFields DEF LoginSelected, KeySelected

-----------------------------------------------------------------------------
(* What the adapters prepare.                                              *)

LEMMA ClaudeProviderSound ==
    ASSUME NEW file \in ClaudeFiles, NEW binding \in Bindings, NEW reg, NEW overridden,
           ClaudeProvider(file, binding, reg, overridden) # Refused
    PROVE  /\ SoundChange("claude", file, ClaudeProvider(file, binding, reg, overridden))
           /\ ClaudeProvider(file, binding, reg, overridden).after = binding
<1> DEFINE before == IF file \in {Missing, Garbage} THEN NoSettings ELSE file
           view == InspectClaude(file, reg, overridden)
           change == ClaudeProvider(file, binding, reg, overridden)
<1>1. /\ change.before = before /\ change.after = binding /\ change.state = view.state
  BY DEF ClaudeProvider, Change
<1>2. before \in ClaudeFiles /\ binding \in ClaudeFiles
  BY NoSettingsForm, BindingFields DEF ClaudeFiles
<1>3. view.state \in ConfigStates
  BY InspectState DEF Inspect
<1>4. view.state \in OfficialStates => before \in Settings /\ before.url = None
  BY ClaudeOfficial, NoSettingsForm, Marks
<1>5. Backs("claude", file, before)
  BY DEF Backs
<1> HIDE DEF before, view, change
<1>6. SoundChange("claude", file, change)
  BY <1>1, <1>2, <1>3, <1>4, <1>5 DEF SoundChange, SnapshotOK, ClientFiles
<1>7. QED
  BY <1>1, <1>6 DEF change

LEMMA ClaudeNativeSound ==
    ASSUME NEW file \in ClaudeFiles, NEW reg, NEW overridden,
           ClaudeNative(file, reg, overridden) # Refused
    PROVE  /\ SoundChange("claude", file, ClaudeNative(file, reg, overridden))
           /\ ClaudeNative(file, reg, overridden).after = NoSettings
<1> DEFINE before == IF file = Missing THEN NoSettings ELSE file
           view == InspectClaude(file, reg, overridden)
           change == ClaudeNative(file, reg, overridden)
<1>1. /\ change.before = before /\ change.after = NoSettings /\ change.state = view.state
  BY DEF ClaudeNative, Change
<1>2. before \in ClaudeFiles /\ NoSettings \in ClaudeFiles
  BY NoSettingsForm DEF ClaudeFiles
<1>3. view.state \in ConfigStates
  BY InspectState DEF Inspect
<1>4. view.state \in OfficialStates => before \in Settings /\ before.url = None
  BY ClaudeOfficial, NoSettingsForm
<1>5. Backs("claude", file, before)
  BY DEF Backs
<1> HIDE DEF before, view, change
<1>6. SoundChange("claude", file, change)
  BY <1>1, <1>2, <1>3, <1>4, <1>5 DEF SoundChange, SnapshotOK, ClientFiles
<1>7. QED
  BY <1>1, <1>6 DEF change

LEMMA ClaudeRestoreSound ==
    ASSUME NEW file \in ClaudeFiles, NEW backup \in ClaudeFiles, NEW reg, NEW overridden
    PROVE  /\ SoundChange("claude", file, ClaudeRestore(file, backup, reg, overridden))
           /\ ClaudeRestore(file, backup, reg, overridden).after = backup
<1> DEFINE before == IF file = Missing THEN NoSettings ELSE file
           view == InspectClaude(file, reg, overridden)
           change == ClaudeRestore(file, backup, reg, overridden)
<1>1. /\ change.before = before /\ change.after = backup /\ change.state = view.state
  BY DEF ClaudeRestore, Change
<1>2. before \in ClaudeFiles
  BY NoSettingsForm DEF ClaudeFiles
<1>3. view.state \in ConfigStates
  BY InspectState DEF Inspect
<1>4. view.state \in OfficialStates => before \in Settings /\ before.url = None
  BY ClaudeOfficial, NoSettingsForm
<1>5. Backs("claude", file, before)
  BY DEF Backs
<1> HIDE DEF before, view, change
<1>6. SoundChange("claude", file, change)
  BY <1>1, <1>2, <1>3, <1>4, <1>5 DEF SoundChange, SnapshotOK, ClientFiles
<1>7. QED
  BY <1>1, <1>6 DEF change

(* The snapshot of Codex files that are what they were observed to be.     *)
LEMMA CodexBackup ==
    ASSUME NEW file \in CodexFiles, NEW reg, NEW overridden,
           HasLogin(file) => file.config \in Configs
    PROVE  /\ SnapshotOK("codex", InspectCodex(file, reg, overridden).state, file)
           /\ InspectCodex(file, reg, overridden).state \in ConfigStates
<1>1. InspectCodex(file, reg, overridden).state \in ConfigStates
  BY InspectState DEF Inspect
<1>2. QED
  BY <1>1, CodexOfficial, CodexFields DEF SnapshotOK, LoginSelected, KeySelected

LEMMA CodexProviderSound ==
    ASSUME NEW file \in CodexFiles, NEW n \in Names, NEW binding \in Bindings,
           NEW shared \in BOOLEAN, NEW reg, NEW overridden,
           CodexProvider(file, n, binding, shared, reg, overridden) # Refused
    PROVE  LET change == CodexProvider(file, n, binding, shared, reg, overridden) IN
           /\ SoundChange("codex", file, change)
           /\ Holds("codex", change.after, n, binding)
<1> DEFINE before == IF Fresh(file) THEN [config |-> NoConfig, auth |-> Garbage] ELSE file
           alias == IF shared THEN Custom ELSE n
           config == PatchConfig(before.config, alias, binding.url)
           after == [config |-> config, auth |-> binding.key]
           state == RecordedState(file, reg, overridden)
           change == CodexProvider(file, n, binding, shared, reg, overridden)
<1>1. /\ Readable(file) \/ Fresh(file)
      /\ config # Refused
      /\ change.before = before /\ change.after = after /\ change.state = state
  BY DEF CodexProvider, Change
<1>2. before \in CodexFiles /\ before.config \in Configs
  <2>1. CASE Fresh(file)
    BY <2>1, NoConfigForm DEF CodexFiles
  <2>2. CASE ~Fresh(file)
    BY <1>1, <2>2, CodexFields
  <2>3. QED
    BY <2>1, <2>2
<1>3. alias \in Aliases /\ alias \in {n, Custom} /\ alias # OpenAI
  BY Marks DEF Aliases
<1>4. binding.url \in Urls /\ binding.key \in Keys
  BY BindingFields
<1> HIDE DEF alias
<1>5. /\ config \in Configs /\ config.tables[alias] = binding.url
      /\ Selected(config) \in {alias, OpenAI}
  BY <1>1, <1>2, <1>3, <1>4, PatchForm
<1> HIDE DEF config
<1>6. after \in CodexFiles /\ after.config = config /\ after.auth = binding.key /\ Readable(after)
  <2>1. config \notin {Missing, Garbage} /\ binding.key \notin {Missing, Garbage}
    BY <1>4, <1>5, ConfigFields, Marks
  <2>2. QED
    BY <1>4, <1>5, <2>1 DEF CodexFiles, Readable
<1>7. SnapshotOK("codex", state, before) /\ state \in ConfigStates
  <2>1. CASE Fresh(file)
    <3>1. ~HasLogin(file) /\ ~Readable(file) /\ before.auth = Garbage
      BY <2>1, Marks DEF Fresh, HasLogin, Readable
    <3>2. state = "unknown" /\ ~HasLogin(before)
      BY <3>1, ObservedFields, Marks DEF RecordedState, InspectCodex, HasLogin
    <3>3. QED
      BY <3>2 DEF SnapshotOK, ConfigStates
  <2>2. CASE ~Fresh(file)
    <3>1. /\ SnapshotOK("codex", InspectCodex(file, reg, overridden).state, file)
          /\ InspectCodex(file, reg, overridden).state \in ConfigStates
      BY <1>2, <2>2, CodexBackup
    <3>2. \/ state = InspectCodex(file, reg, overridden).state
          \/ state = "official_login" /\ HasLogin(file)
      BY DEF RecordedState
    <3>3. QED
      BY <1>2, <2>2, <3>1, <3>2 DEF SnapshotOK, ConfigStates
  <2>3. QED
    BY <2>1, <2>2
<1>8. Backs("codex", file, before)
  BY DEF Backs
<1> HIDE DEF before, after, state, change
<1>9. SoundChange("codex", file, change)
  BY <1>1, <1>2, <1>6, <1>7, <1>8 DEF SoundChange, ClientFiles
<1>10. Holds("codex", change.after, n, binding)
  BY <1>1, <1>3, <1>5, <1>6 DEF Holds
<1>11. QED
  BY <1>9, <1>10 DEF change

LEMMA CodexNativeSound ==
    ASSUME NEW file \in CodexFiles, NEW shared \in BOOLEAN, NEW reg, NEW overridden,
           CodexNative(file, shared, reg, overridden) # Refused
    PROVE  LET change == CodexNative(file, shared, reg, overridden) IN
           /\ SoundChange("codex", file, change)
           /\ change.after.auth = file.auth
           /\ PlainOfficial("codex", change.after)
<1> DEFINE config == OfficialConfig(file.config, shared)
           after == [file EXCEPT !.config = config]
           state == InspectCodex(file, reg, overridden).state
           change == CodexNative(file, shared, reg, overridden)
<1>1. /\ Readable(file) /\ HasLogin(file) /\ config # Refused
      /\ change.before = file /\ change.after = after /\ change.state = state
  BY DEF CodexNative, Change
<1>2. file.config \in Configs /\ file.auth \in Logins
  BY <1>1, CodexFields DEF HasLogin
<1>3. /\ config \in Configs
      /\ \/ Selected(config) = OpenAI
         \/ config.root = Custom /\ config.tables[Custom] = Official
  BY <1>1, <1>2, OfficialForm
<1> HIDE DEF config
<1>4. after.config = config /\ after.auth = file.auth /\ after \in CodexFiles
  BY <1>2, <1>3 DEF CodexFiles
<1> HIDE DEF after
<1>5. Readable(after) /\ HasLogin(after)
  BY <1>2, <1>3, <1>4, ConfigFields, Marks DEF Readable, HasLogin
<1>6. SnapshotOK("codex", state, file) /\ state \in ConfigStates
  BY <1>2, CodexBackup
<1> HIDE DEF state, change
<1>7. SoundChange("codex", file, change)
  BY <1>1, <1>4, <1>6 DEF SoundChange, ClientFiles, Backs
<1>8. PlainOfficial("codex", change.after)
  BY <1>1, <1>3, <1>4, <1>5 DEF PlainOfficial, LoginSelected
<1>9. QED
  BY <1>1, <1>4, <1>7, <1>8 DEF change

(* A restore is prepared where Codex holds no login.                       *)
LEMMA CodexRestoreSound ==
    ASSUME NEW file \in CodexFiles, NEW backup \in CodexFiles, NEW shared \in BOOLEAN,
           NEW reg, NEW overridden,
           ~HasLogin(file), HasLogin(backup) => backup.config \in Configs,
           CodexRestore(file, backup, shared, reg, overridden) # Refused
    PROVE  LET change == CodexRestore(file, backup, shared, reg, overridden) IN
           /\ SoundChange("codex", file, change)
           /\ change.after.auth = backup.auth
           /\ HasLogin(backup) \/ (backup.config \in Configs /\ KeySelected(backup)) =>
                 PlainOfficial("codex", change.after)
<1> DEFINE config == IF HasLogin(backup) THEN OfficialConfig(backup.config, shared)
                                         ELSE backup.config
           after == [backup EXCEPT !.config = config]
           state == InspectCodex(file, reg, overridden).state
           change == CodexRestore(file, backup, shared, reg, overridden)
<1>1. /\ config # Refused
      /\ change.before = file /\ change.after = after /\ change.state = state
  BY DEF CodexRestore, Change
<1>2. /\ config \in Configs \cup {Missing, Garbage}
      /\ HasLogin(backup) => config \in Configs
      /\ HasLogin(backup) =>
            \/ Selected(config) = OpenAI
            \/ config.root = Custom /\ config.tables[Custom] = Official
      /\ ~HasLogin(backup) => config = backup.config
  <2>1. CASE HasLogin(backup)
    BY <1>1, <2>1, OfficialForm
  <2>2. CASE ~HasLogin(backup)
    BY <2>2, CodexFields
  <2>3. QED
    BY <2>1, <2>2
<1> HIDE DEF config
<1>3. after.config = config /\ after.auth = backup.auth /\ after \in CodexFiles
  BY <1>2, CodexFields DEF CodexFiles
<1> HIDE DEF after
<1>4. HasLogin(backup) => Readable(after) /\ HasLogin(after)
  BY <1>2, <1>3, ConfigFields, Marks DEF Readable, HasLogin
<1>5. backup.config \in Configs /\ KeySelected(backup) =>
         HasLogin(backup) \/ (Readable(after) /\ KeySelected(after))
  BY <1>2, <1>3, ConfigFields, Marks DEF Readable, KeySelected
<1>6. SnapshotOK("codex", state, file) /\ state \in ConfigStates
  BY CodexBackup
<1> HIDE DEF state, change
<1>7. SoundChange("codex", file, change)
  BY <1>1, <1>3, <1>6 DEF SoundChange, ClientFiles, Backs
<1>8. HasLogin(backup) => PlainOfficial("codex", change.after)
  BY <1>1, <1>2, <1>3, <1>4 DEF PlainOfficial, LoginSelected
<1>9. Readable(after) /\ KeySelected(after) => PlainOfficial("codex", change.after)
  BY <1>1 DEF PlainOfficial
<1>10. QED
  BY <1>1, <1>3, <1>5, <1>7, <1>8, <1>9 DEF change

(* A Provider is prepared for either client.                               *)
LEMMA ProviderSound ==
    ASSUME NEW c \in Clients, NEW file \in ClientFiles(c), NEW n \in Names,
           NEW binding \in Bindings, NEW shared \in BOOLEAN, NEW reg, NEW overridden,
           PrepareProvider(c, file, n, binding, shared, reg, overridden) # Refused
    PROVE  LET change == PrepareProvider(c, file, n, binding, shared, reg, overridden) IN
           /\ SoundChange(c, file, change)
           /\ Holds(c, change.after, n, binding)
<1> DEFINE change == PrepareProvider(c, file, n, binding, shared, reg, overridden)
<1>1. CASE c = "claude"
  <2>1. change = ClaudeProvider(file, binding, reg, overridden) /\ file \in ClaudeFiles
    BY <1>1 DEF PrepareProvider, ClientFiles
  <2>2. SoundChange("claude", file, change) /\ change.after = binding
    BY <2>1, ClaudeProviderSound
  <2>3. QED
    BY <1>1, <2>2 DEF Holds
<1>2. CASE c = "codex"
  <2>1. change = CodexProvider(file, n, binding, shared, reg, overridden) /\ file \in CodexFiles
    BY <1>2 DEF PrepareProvider, ClientFiles
  <2>2. SoundChange("codex", file, change) /\ Holds("codex", change.after, n, binding)
    BY <2>1, CodexProviderSound
  <2>3. QED
    BY <1>2, <2>2
<1>3. QED
  BY <1>1, <1>2 DEF Clients

-----------------------------------------------------------------------------
(* What a change that failed leaves.                                       *)

Left(c, file, before) ==
    {file, before} \cup IF c = "codex" THEN {[file EXCEPT !.config = before.config]} ELSE {}

LEMMA LeftForm ==
    ASSUME NEW c \in Clients, NEW file \in ClientFiles(c), NEW before \in ClientFiles(c),
           Backs(c, file, before), NEW left \in Left(c, file, before)
    PROVE  /\ left \in ClientFiles(c)
           /\ \/ left = file
              \/ c = "claude" /\ file \in {Missing, Garbage} /\ left = NoSettings
              \/ c = "codex" /\ Fresh(file) /\ ~Readable(left) /\ left.config = NoConfig
<1>1. CASE c = "claude"
  BY <1>1 DEF Left, Backs
<1>2. CASE c = "codex"
  <2>1. file \in CodexFiles /\ before \in CodexFiles
    BY <1>2 DEF ClientFiles
  <2>2. CASE before = file
    <3>1. [file EXCEPT !.config = file.config] = file
      BY <2>1 DEF CodexFiles
    <3>2. QED
      BY <1>2, <2>2, <3>1 DEF Left
  <2>3. CASE Fresh(file) /\ before = [config |-> NoConfig, auth |-> Garbage]
    <3>1. file = [config |-> Missing, auth |-> Missing]
      BY <2>1, <2>3, CodexFields DEF Fresh
    <3>2. [file EXCEPT !.config = before.config] = [config |-> NoConfig, auth |-> Missing]
      BY <2>3, <3>1
    <3>3. left \in {file, [config |-> NoConfig, auth |-> Garbage],
                    [config |-> NoConfig, auth |-> Missing]}
      BY <1>2, <2>3, <3>2 DEF Left
    <3>4. QED
      BY <1>2, <2>1, <2>3, <3>3, NoConfigForm DEF ClientFiles, CodexFiles, Readable
  <2>4. QED
    BY <1>2, <2>2, <2>3 DEF Backs
<1>3. QED
  BY <1>1, <1>2 DEF Clients

(* It is set up as it was, and observed as it was, unless settings.json    *)
(* was malformed.                                                          *)
LEMMA LeftSetUp ==
    ASSUME NEW c \in Clients, NEW file \in ClientFiles(c), NEW before \in ClientFiles(c),
           Backs(c, file, before), NEW left \in Left(c, file, before),
           NEW reg, ValidRegistry(reg), SetUp(c, file, reg)
    PROVE  SetUp(c, left, reg)
<1>1. \/ left = file
      \/ c = "claude" /\ file \in {Missing, Garbage} /\ left = NoSettings
      \/ c = "codex" /\ Fresh(file)
  BY LeftForm
<1>2. ASSUME c = "claude", file \in {Missing, Garbage}, left = NoSettings
      PROVE  SetUp(c, left, reg)
  <2>1. CASE reg.current[c] = None
    BY <1>2, <2>1, NoSettingsForm DEF SetUp, PlainOfficial
  <2>2. CASE reg.current[c] # None
    <3>1. Binding(reg, reg.current[c], c) \in Bindings
      BY <2>2, CurrentBinding
    <3>2. file \in Settings
      BY <1>2, <2>2, <3>1, BindingFields DEF SetUp, Holds
    <3>3. QED
      BY <1>2, <3>2, FormsAssumption
  <2>3. QED
    BY <2>1, <2>2
<1>3. ASSUME c = "codex", Fresh(file)
      PROVE  FALSE
  BY <1>3 DEF SetUp, PlainOfficial, Holds, Fresh, Readable
<1>4. QED
  BY <1>1, <1>2, <1>3

LEMMA LeftUnseen ==
    ASSUME NEW c \in Clients, NEW file \in ClientFiles(c), NEW before \in ClientFiles(c),
           Backs(c, file, before), NEW left \in Left(c, file, before),
           NEW reg, NEW overridden, c = "claude" => file # Garbage
    PROVE  Inspect(c, left, reg, overridden) = Inspect(c, file, reg, overridden)
<1>1. \/ left = file
      \/ c = "claude" /\ file = Missing /\ left = NoSettings
      \/ c = "codex" /\ Fresh(file) /\ ~Readable(left)
  BY LeftForm
<1>2. CASE c = "claude" /\ file = Missing /\ left = NoSettings
  <2>1. NoSettings \notin {Missing, Garbage, Odd}
    BY NoSettingsForm, FormsAssumption
  <2>2. QED
    BY <1>2, <2>1, Marks DEF Inspect, InspectClaude
<1>3. CASE c = "codex" /\ Fresh(file) /\ ~Readable(left)
  BY <1>3 DEF Inspect, InspectCodex, Fresh, Readable
<1>4. QED
  BY <1>1, <1>2, <1>3

-----------------------------------------------------------------------------
(* A change of a client keeps the invariants.                              *)

LEMMA ApplyOutcome ==
    ASSUME TypeOK, NEW c \in Clients, NEW target, NEW change, NEW reg,
           SoundChange(c, files[c], change), Apply(c, target, change, reg)
    PROVE  /\ edits' = edits
           /\ snapshots' = Append(snapshots, [client |-> c, target |-> target,
                                              state |-> change.state, files |-> change.before])
           /\ \/ /\ files' = [files EXCEPT ![c] = change.after] /\ registry' = reg
                 /\ clean' = [clean EXCEPT ![c] = TRUE] /\ failures' = failures
              \/ /\ UNCHANGED <<registry, clean>> /\ failures' = failures + 1
                 /\ \E left \in Left(c, files[c], change.before) :
                       files' = [files EXCEPT ![c] = left]
BY DEF Apply, Left

LEMMA ApplyType ==
    ASSUME TypeOK, SnapshotInv, NEW c \in Clients, NEW target \in Names \cup {None},
           NEW change, NEW reg, ValidRegistry(reg), SoundChange(c, files[c], change),
           Apply(c, target, change, reg), asked' = None
    PROVE  TypeInv'
<1> DEFINE new == [client |-> c, target |-> target, state |-> change.state,
                   files |-> change.before]
<1>1. /\ change.before \in ClientFiles(c) /\ change.after \in ClientFiles(c)
      /\ change.state \in ConfigStates /\ SnapshotOK(c, change.state, change.before)
      /\ Backs(c, files[c], change.before)
  BY DEF SoundChange
<1>2. /\ ValidRegistry(registry) /\ files \in [Clients -> ClaudeFiles \cup CodexFiles]
      /\ \A d \in Clients : files[d] \in ClientFiles(d)
      /\ snapshots \in Seq(Snapshots) /\ Len(snapshots) \in Nat
      /\ \A i \in 1 .. Len(snapshots) : snapshots[i].files \in ClientFiles(snapshots[i].client)
      /\ clean \in [Clients -> BOOLEAN] /\ edits \in Nat /\ failures \in Nat
  BY DEF TypeOK
<1>3. \A d \in Clients : ClientFiles(d) \subseteq ClaudeFiles \cup CodexFiles
  BY DEF ClientFiles
<1>4. new \in Snapshots /\ snapshots' = Append(snapshots, new) /\ edits' = edits
  BY <1>1, <1>3, ApplyOutcome DEF Snapshots
<1>5. new.client = c /\ new.state = change.state /\ new.files = change.before
  OBVIOUS
<1> HIDE DEF new
<1>6. /\ snapshots' \in Seq(Snapshots) /\ Len(snapshots') = Len(snapshots) + 1
      /\ \A i \in 1 .. Len(snapshots) : snapshots'[i] = snapshots[i]
      /\ snapshots'[Len(snapshots) + 1] = new
  BY <1>2, <1>4
<1>7. \A i \in 1 .. Len(snapshots') : i \in 1 .. Len(snapshots) \/ i = Len(snapshots) + 1
  BY <1>2, <1>6
<1>8. /\ \A i \in 1 .. Len(snapshots') :
            snapshots'[i].files \in ClientFiles(snapshots'[i].client)
      /\ SnapshotInv'
  BY <1>1, <1>2, <1>5, <1>6, <1>7 DEF SnapshotInv
<1>9. /\ files' \in [Clients -> ClaudeFiles \cup CodexFiles]
      /\ \A d \in Clients : files'[d] \in ClientFiles(d)
      /\ ValidRegistry(registry') /\ clean' \in [Clients -> BOOLEAN] /\ failures' \in Nat
  <2>1. CASE /\ files' = [files EXCEPT ![c] = change.after] /\ registry' = reg
             /\ clean' = [clean EXCEPT ![c] = TRUE] /\ failures' = failures
    BY <1>1, <1>2, <1>3, <2>1
  <2>2. ASSUME NEW left \in Left(c, files[c], change.before),
               files' = [files EXCEPT ![c] = left],
               UNCHANGED <<registry, clean>>, failures' = failures + 1
        PROVE  /\ files' \in [Clients -> ClaudeFiles \cup CodexFiles]
               /\ \A d \in Clients : files'[d] \in ClientFiles(d)
               /\ ValidRegistry(registry') /\ clean' \in [Clients -> BOOLEAN] /\ failures' \in Nat
    <3>1. left \in ClientFiles(c)
      BY <1>1, <1>2, LeftForm
    <3>2. QED
      BY <1>2, <1>3, <2>2, <3>1
  <2>3. \/ /\ files' = [files EXCEPT ![c] = change.after] /\ registry' = reg
           /\ clean' = [clean EXCEPT ![c] = TRUE] /\ failures' = failures
        \/ /\ UNCHANGED <<registry, clean>> /\ failures' = failures + 1
           /\ \E left \in Left(c, files[c], change.before) :
                 files' = [files EXCEPT ![c] = left]
    BY ApplyOutcome
  <2>4. QED
    BY <2>1, <2>2, <2>3
<1>10. TypeOK'
  BY <1>2, <1>4, <1>6, <1>8, <1>9 DEF TypeOK
<1>11. QED
  BY <1>8, <1>10 DEF TypeInv, AskedInv

LEMMA ApplyAgrees ==
    ASSUME AgreeInv, NEW c \in Clients, NEW target, NEW change, NEW reg,
           SoundChange(c, files[c], change), Apply(c, target, change, reg),
           SetUp(c, change.after, reg),
           \A d \in Clients : d # c /\ SetUp(d, files[d], registry) => SetUp(d, files[d], reg),
           TypeInv'
    PROVE  AgreeInv'
<1>1. /\ change.before \in ClientFiles(c) /\ Backs(c, files[c], change.before)
  BY DEF SoundChange
<1>2. /\ ValidRegistry(registry) /\ files \in [Clients -> ClaudeFiles \cup CodexFiles]
      /\ files[c] \in ClientFiles(c)
      /\ clean \in [Clients -> BOOLEAN]
  BY DEF AgreeInv, TypeInv, TypeOK
<1>3. CASE /\ files' = [files EXCEPT ![c] = change.after] /\ registry' = reg
           /\ clean' = [clean EXCEPT ![c] = TRUE]
  <2>1. ASSUME NEW d \in Clients, clean'[d]
        PROVE  SetUp(d, files'[d], reg)
    BY <1>2, <1>3, <2>1 DEF AgreeInv
  <2>2. QED
    BY <1>3, <2>1 DEF AgreeInv
<1>4. ASSUME NEW left \in Left(c, files[c], change.before),
             files' = [files EXCEPT ![c] = left], UNCHANGED <<registry, clean>>
      PROVE  AgreeInv'
  <2>1. ASSUME NEW d \in Clients, clean[d]
        PROVE  SetUp(d, files'[d], registry)
    <3>1. SetUp(d, files[d], registry)
      BY <2>1 DEF AgreeInv
    <3>2. CASE d = c
      <4>1. SetUp(d, left, registry)
        BY <1>1, <1>2, <3>1, <3>2, LeftSetUp
      <4>2. QED
        BY <1>2, <1>4, <3>2, <4>1
    <3>3. CASE d # c
      BY <1>2, <1>4, <3>1, <3>3
    <3>4. QED
      BY <3>2, <3>3
  <2>2. QED
    BY <1>4, <2>1 DEF AgreeInv
<1>5. \/ /\ files' = [files EXCEPT ![c] = change.after] /\ registry' = reg
         /\ clean' = [clean EXCEPT ![c] = TRUE]
      \/ /\ UNCHANGED <<registry, clean>>
         /\ \E left \in Left(c, files[c], change.before) :
               files' = [files EXCEPT ![c] = left]
  <2>1. TypeOK
    BY DEF AgreeInv, TypeInv
  <2>2. QED
    BY <2>1, ApplyOutcome
<1>6. QED
  BY <1>3, <1>4, <1>5

-----------------------------------------------------------------------------
(* Changes of the registry.                                                *)

LEMMA BindingAdded ==
    ASSUME NEW reg, ValidRegistry(reg), NEW n \in Names, NEW c \in Clients,
           NEW binding \in Bindings
    PROVE  /\ ValidRegistry(WithBinding(reg, n, c, binding))
           /\ WithBinding(reg, n, c, binding).current = reg.current
           /\ \A m \in Names, d \in Clients :
                 Binding(WithBinding(reg, n, c, binding), m, d) =
                    IF m = n /\ d = c THEN binding ELSE Binding(reg, m, d)
<1> DEFINE new == WithBinding(reg, n, c, binding)
           providers == [reg.providers EXCEPT ![n][c] = binding]
<1>1. reg \in Registries /\ binding # None
  BY BindingFields DEF ValidRegistry
<1>2. /\ providers \in [Names -> [Clients -> Bindings \cup {None}]]
      /\ \A m \in Names, d \in Clients :
            providers[m][d] = IF m = n /\ d = c THEN binding ELSE reg.providers[m][d]
  BY <1>1 DEF Registries
<1>3. new = [reg EXCEPT !.providers = providers]
  BY <1>1 DEF WithBinding, Registries
<1> HIDE DEF providers
<1>4. new \in Registries /\ new.providers = providers /\ new.current = reg.current
  BY <1>1, <1>2, <1>3 DEF Registries
<1> HIDE DEF new
<1>5. \A m \in Names, d \in Clients :
         Binding(new, m, d) = IF m = n /\ d = c THEN binding ELSE Binding(reg, m, d)
  BY <1>2, <1>4 DEF Binding
<1>6. ASSUME NEW d \in Clients, new.current[d] # None
      PROVE  Binding(new, new.current[d], d) # None
  BY <1>1, <1>4, <1>5, <1>6, CurrentBinding DEF ValidRegistry
<1>7. ValidRegistry(new)
  BY <1>4, <1>6 DEF ValidRegistry
<1>8. QED
  BY <1>4, <1>5, <1>7 DEF new

LEMMA CurrentReads ==
    ASSUME NEW reg, ValidRegistry(reg), NEW c \in Clients, NEW n \in Names \cup {None},
           NEW d \in Clients
    PROVE  /\ WithCurrent(reg, c, n) \in Registries
           /\ WithCurrent(reg, c, n).current[d] = IF d = c THEN n ELSE reg.current[d]
           /\ \A m : Binding(WithCurrent(reg, c, n), m, d) = Binding(reg, m, d)
<1> DEFINE new == WithCurrent(reg, c, n)
<1>1. reg \in Registries
  BY DEF ValidRegistry
<1>2. /\ new \in Registries /\ new.providers = reg.providers
      /\ new.current = [reg.current EXCEPT ![c] = n]
  BY <1>1 DEF WithCurrent, Registries
<1>3. new.current[d] = IF d = c THEN n ELSE reg.current[d]
  BY <1>1, <1>2 DEF Registries
<1> HIDE DEF new
<1>4. \A m : Binding(new, m, d) = Binding(reg, m, d)
  BY <1>2 DEF Binding
<1>5. QED
  BY <1>2, <1>3, <1>4 DEF new

LEMMA CurrentSet ==
    ASSUME NEW reg, ValidRegistry(reg), NEW c \in Clients, NEW n \in Names \cup {None},
           n # None => Binding(reg, n, c) # None
    PROVE  ValidRegistry(WithCurrent(reg, c, n))
<1> DEFINE new == WithCurrent(reg, c, n)
<1>1. /\ new \in Registries
      /\ \A d \in Clients : new.current[d] = IF d = c THEN n ELSE reg.current[d]
      /\ \A d \in Clients : \A m : Binding(new, m, d) = Binding(reg, m, d)
  BY CurrentReads
<1> HIDE DEF new
<1>2. ValidRegistry(new)
  BY <1>1 DEF ValidRegistry
<1>3. QED
  BY <1>2 DEF new

(* A client is set up as it was when its current Provider and the binding  *)
(* of that stay.                                                           *)
LEMMA SameSetUp ==
    ASSUME NEW d, NEW file, NEW reg, NEW reg2, SetUp(d, file, reg),
           reg2.current[d] = reg.current[d],
           reg.current[d] # None =>
              Binding(reg2, reg.current[d], d) = Binding(reg, reg.current[d], d)
    PROVE  SetUp(d, file, reg2)
BY DEF SetUp

LEMMA RegistryOnlyType ==
    ASSUME TypeInv, NEW reg, ValidRegistry(reg), RegistryOnly(reg),
           clean' \in [Clients -> BOOLEAN], asked' = None
    PROVE  TypeInv'
<1>1. /\ registry' = reg /\ UNCHANGED <<files, snapshots, edits, failures>>
  BY DEF RegistryOnly
<1>2. QED
  BY <1>1 DEF TypeInv, TypeOK, SnapshotInv, AskedInv

LEMMA RegistryOnlyAgrees ==
    ASSUME AgreeInv, NEW reg, RegistryOnly(reg), TypeInv',
           \A d \in Clients : clean'[d] => SetUp(d, files[d], reg)
    PROVE  AgreeInv'
<1>1. /\ registry' = reg /\ UNCHANGED <<files, snapshots, edits, failures>>
  BY DEF RegistryOnly
<1>2. QED
  BY <1>1 DEF AgreeInv

-----------------------------------------------------------------------------
(* The official snapshot.                                                  *)

LEMMA NewestIsOne ==
    ASSUME NEW s \in SUBSET (1 .. Len(snapshots)), s # {}, Len(snapshots) \in Nat
    PROVE  Newest(s) \in s
<1>1. s \subseteq 0 .. Len(snapshots)
  OBVIOUS
<1>2. \E i \in s : \A j \in s : j <= i
  BY <1>1, Greatest
<1>3. QED
  BY <1>2 DEF Newest

LEMMA OfficialSnapshot ==
    ASSUME TypeInv, NEW c \in Clients, OfficialSnapshots(c) # {}
    PROVE  LET i == Newest(OfficialSnapshots(c)) IN
           /\ i \in 1 .. Len(snapshots) /\ snapshots[i].client = c
           /\ snapshots[i].files \in ClientFiles(c)
           /\ c = "claude" => snapshots[i].files \in Settings /\ snapshots[i].files.url = None
           /\ c = "codex" =>
                 /\ snapshots[i].files.config \in Configs
                 /\ HasLogin(snapshots[i].files) \/ KeySelected(snapshots[i].files)
<1> DEFINE i == Newest(OfficialSnapshots(c))
           s == snapshots[i]
<1>1. Len(snapshots) \in Nat
  BY DEF TypeInv, TypeOK
<1>2. OfficialSnapshots(c) \subseteq 1 .. Len(snapshots)
  BY DEF OfficialSnapshots, LoginSnapshots, ApiKeySnapshots
<1>3. i \in OfficialSnapshots(c) /\ i \in 1 .. Len(snapshots)
  BY <1>1, <1>2, NewestIsOne
<1> HIDE DEF i
<1>4. HoldsLogin(s, c) \/ HoldsApiKey(s, c)
  BY <1>3 DEF OfficialSnapshots, LoginSnapshots, ApiKeySnapshots
<1>5. /\ s.files \in ClientFiles(s.client) /\ SnapshotOK(s.client, s.state, s.files)
  BY <1>3 DEF TypeInv, TypeOK, SnapshotInv
<1> HIDE DEF s
<1>6. s.client = c
  BY <1>4 DEF HoldsLogin, HoldsApiKey
<1>7. ASSUME c = "claude"
      PROVE  s.files \in Settings /\ s.files.url = None
  BY <1>4, <1>5, <1>6, <1>7 DEF HoldsLogin, HoldsApiKey, SnapshotOK, OfficialStates
<1>8. ASSUME c = "codex"
      PROVE  s.files.config \in Configs /\ (HasLogin(s.files) \/ KeySelected(s.files))
  BY <1>4, <1>5, <1>6, <1>8 DEF HoldsLogin, HoldsApiKey, SnapshotOK, KeySelected
<1>9. QED
  BY <1>3, <1>5, <1>6, <1>7, <1>8 DEF s, i

LEMMA OfficialChangeSound ==
    ASSUME TypeInv, NEW c \in Clients, NEW shared \in BOOLEAN, NEW overridden,
           OfficialChange(c, shared, overridden) # Refused
    PROVE  LET change == OfficialChange(c, shared, overridden) IN
           /\ SoundChange(c, files[c], change)
           /\ PlainOfficial(c, change.after)
<1> DEFINE change == OfficialChange(c, shared, overridden)
           i == Newest(OfficialSnapshots(c))
           backup == snapshots[i].files
<1>1. files[c] \in ClientFiles(c)
  BY DEF TypeInv, TypeOK
<1>2. \/ c = "codex" /\ HasLogin(files[c])
         /\ change = CodexNative(files[c], shared, registry, overridden)
      \/ (c = "codex" => ~HasLogin(files[c])) /\ OfficialSnapshots(c) # {}
         /\ change = PrepareRestore(c, files[c], backup, shared, registry, overridden)
      \/ c = "claude" /\ change = ClaudeNative(files[c], registry, overridden)
  BY DEF OfficialChange
<1> HIDE DEF change, i, backup
<1>3. CASE c = "codex" /\ change = CodexNative(files[c], shared, registry, overridden)
  <2>1. files[c] \in CodexFiles /\ change # Refused
    BY <1>1, <1>3 DEF ClientFiles, change
  <2>2. SoundChange("codex", files[c], change) /\ PlainOfficial("codex", change.after)
    BY <1>3, <2>1, CodexNativeSound
  <2>3. QED
    BY <1>3, <2>2 DEF change
<1>4. CASE c = "claude" /\ change = ClaudeNative(files[c], registry, overridden)
  <2>1. files[c] \in ClaudeFiles /\ change # Refused
    BY <1>1, <1>4 DEF ClientFiles, change
  <2>2. SoundChange("claude", files[c], change) /\ change.after = NoSettings
    BY <1>4, <2>1, ClaudeNativeSound
  <2>3. QED
    BY <1>4, <2>2, NoSettingsForm DEF PlainOfficial, change
<1>5. CASE (c = "codex" => ~HasLogin(files[c])) /\ OfficialSnapshots(c) # {}
           /\ change = PrepareRestore(c, files[c], backup, shared, registry, overridden)
  <2>1. /\ i \in 1 .. Len(snapshots) /\ snapshots[i].client = c /\ backup \in ClientFiles(c)
        /\ c = "claude" => backup \in Settings /\ backup.url = None
        /\ c = "codex" =>
              backup.config \in Configs /\ (HasLogin(backup) \/ KeySelected(backup))
    BY <1>5, OfficialSnapshot DEF i, backup
  <2>2. CASE c = "claude"
    <3>1. change = ClaudeRestore(files[c], backup, registry, overridden)
      BY <1>5, <2>2 DEF PrepareRestore
    <3>2. files[c] \in ClaudeFiles /\ backup \in ClaudeFiles
      BY <1>1, <2>1, <2>2 DEF ClientFiles
    <3>3. SoundChange("claude", files[c], change) /\ change.after = backup
      BY <3>1, <3>2, ClaudeRestoreSound
    <3>4. QED
      BY <2>1, <2>2, <3>3 DEF PlainOfficial, change
  <2>3. CASE c = "codex"
    <3>1. change = CodexRestore(files[c], backup, shared, registry, overridden)
      BY <1>5, <2>3 DEF PrepareRestore
    <3>2. files[c] \in CodexFiles /\ backup \in CodexFiles /\ change # Refused
      BY <1>1, <2>1, <2>3 DEF ClientFiles, change
    <3>3. /\ SoundChange("codex", files[c], change)
          /\ HasLogin(backup) \/ (backup.config \in Configs /\ KeySelected(backup)) =>
                PlainOfficial("codex", change.after)
      BY <1>5, <2>1, <2>3, <3>1, <3>2, CodexRestoreSound
    <3>4. QED
      BY <2>1, <2>3, <3>3 DEF change
  <2>4. QED
    BY <2>2, <2>3 DEF Clients
<1>6. QED
  BY <1>2, <1>3, <1>4, <1>5

-----------------------------------------------------------------------------
(* What each command relies on.                                            *)

LEMMA SwitchFacts ==
    ASSUME TypeInv, NEW c \in Clients, NEW n \in Names, NEW shared \in BOOLEAN,
           NEW overridden, Switch(c, n, shared, overridden)
    PROVE  LET change == PrepareProvider(c, files[c], n, Binding(registry, n, c), shared,
                                         registry, overridden) IN
           /\ Apply(c, n, change, WithCurrent(registry, c, n)) /\ asked' = None
           /\ Binding(registry, n, c) \in Bindings
           /\ ValidRegistry(WithCurrent(registry, c, n))
           /\ SoundChange(c, files[c], change)
           /\ Holds(c, change.after, n, Binding(registry, n, c))
<1> DEFINE change == PrepareProvider(c, files[c], n, Binding(registry, n, c), shared,
                                     registry, overridden)
<1>1. /\ change # Refused /\ Apply(c, n, change, WithCurrent(registry, c, n))
      /\ asked' = None /\ Binding(registry, n, c) # None
  BY DEF Switch, Idle
<1>2. ValidRegistry(registry) /\ registry \in Registries /\ files[c] \in ClientFiles(c)
  BY DEF TypeInv, TypeOK, ValidRegistry
<1>3. Binding(registry, n, c) \in Bindings
  BY <1>1, <1>2, BindingType
<1>4. ValidRegistry(WithCurrent(registry, c, n))
  BY <1>1, <1>2, CurrentSet
<1>5. SoundChange(c, files[c], change) /\ Holds(c, change.after, n, Binding(registry, n, c))
  BY <1>1, <1>2, <1>3, ProviderSound
<1> HIDE DEF change
<1>6. QED
  BY <1>1, <1>3, <1>4, <1>5 DEF change

(* A Provider of which the questions have been answered.                   *)
LEMMA AnswerFacts ==
    ASSUME TypeInv, NEW binding \in Bindings, ~Idle
    PROVE  LET c == asked.client
               n == asked.name
               change == PrepareProvider(c, files[c], n, binding, TRUE, registry,
                                         asked.overridden) IN
           /\ c \in Clients /\ n \in Names /\ files[c] \in ClientFiles(c)
           /\ ValidRegistry(registry)
           /\ ValidRegistry(WithBinding(registry, n, c, binding))
           /\ ValidRegistry(WithCurrent(WithBinding(registry, n, c, binding), c, n))
           /\ change # Refused =>
                 SoundChange(c, files[c], change) /\ Holds(c, change.after, n, binding)
<1> DEFINE c == asked.client
           n == asked.name
           added == WithBinding(registry, n, c, binding)
           change == PrepareProvider(c, files[c], n, binding, TRUE, registry, asked.overridden)
<1>1. c \in Clients /\ n \in Names
  BY DEF TypeInv, TypeOK, Idle, Questions
<1>2. ValidRegistry(registry) /\ files[c] \in ClientFiles(c)
  BY <1>1 DEF TypeInv, TypeOK
<1> HIDE DEF c, n
<1>3. ValidRegistry(added) /\ Binding(added, n, c) # None
  BY <1>1, <1>2, BindingAdded, BindingFields
<1>4. ValidRegistry(WithCurrent(added, c, n))
  BY <1>1, <1>3, CurrentSet
<1>5. change # Refused =>
         SoundChange(c, files[c], change) /\ Holds(c, change.after, n, binding)
  BY <1>1, <1>2, ProviderSound
<1> HIDE DEF change, added
<1>6. QED
  BY <1>1, <1>2, <1>3, <1>4, <1>5 DEF c, n, added, change

(* remove takes bindings away, none of them in use.                        *)
Removed(n, cs) ==
    [providers |-> [registry.providers EXCEPT ![n] =
                       [c \in Clients |-> IF c \in cs THEN None ELSE @[c]]],
     current |-> [c \in Clients |->
                    IF c \in cs /\ registry.current[c] = n THEN None
                    ELSE registry.current[c]]]

LEMMA RemoveFacts ==
    ASSUME TypeInv, NEW n \in Names, NEW cs \in SUBSET Clients, NEW force, NEW overridden,
           Remove(n, cs, force, overridden)
    PROVE  /\ RegistryOnly(Removed(n, cs)) /\ asked' = None /\ clean' = clean
           /\ ValidRegistry(Removed(n, cs))
           /\ \A m \in Names, c \in Clients :
                 Binding(Removed(n, cs), m, c) =
                    IF m = n /\ c \in cs THEN None ELSE Binding(registry, m, c)
           /\ \A c \in Clients : Removed(n, cs).current[c] = registry.current[c]
           /\ \A c \in cs : registry.current[c] # n
           /\ \A c \in cs : Binding(registry, n, c) # None => NotInUse(c, n, overridden)
<1> DEFINE reg == Removed(n, cs)
<1>1. /\ RegistryOnly(reg) /\ asked' = None /\ clean' = clean
      /\ \A c \in cs \cap BoundClients(registry, n) : NotInUse(c, n, overridden)
  BY DEF Remove, Removed, Idle
<1>2. ValidRegistry(registry) /\ registry \in Registries
  BY DEF TypeInv, TypeOK, ValidRegistry
<1>3. \A c \in cs : Binding(registry, n, c) # None => NotInUse(c, n, overridden)
  BY <1>1 DEF BoundClients
<1>4. \A c \in cs : registry.current[c] # n
  <2>1. SUFFICES ASSUME NEW c \in cs, registry.current[c] = n PROVE FALSE
    OBVIOUS
  <2>2. Binding(registry, n, c) # None
    BY <1>2, <2>1, Marks DEF ValidRegistry
  <2>3. QED
    BY <1>3, <2>1, <2>2 DEF NotInUse
<1>5. /\ reg.providers \in [Names -> [Clients -> Bindings \cup {None}]]
      /\ \A m \in Names, c \in Clients :
            reg.providers[m][c] =
               IF m = n /\ c \in cs THEN None ELSE registry.providers[m][c]
  BY <1>2 DEF Registries, Removed
<1>6. /\ reg = [providers |-> reg.providers, current |-> reg.current]
      /\ reg.current \in [Clients -> Names \cup {None}]
      /\ \A c \in Clients : reg.current[c] = registry.current[c]
  <2>1. /\ reg = [providers |-> reg.providers, current |-> reg.current]
        /\ reg.current = [c \in Clients |->
                            IF c \in cs /\ registry.current[c] = n THEN None
                            ELSE registry.current[c]]
    BY DEF Removed
  <2> HIDE DEF reg
  <2>2. QED
    BY <1>2, <1>4, <2>1 DEF Registries
<1> HIDE DEF reg
<1>7. \A m \in Names, c \in Clients :
         Binding(reg, m, c) = IF m = n /\ c \in cs THEN None ELSE Binding(registry, m, c)
  BY <1>5 DEF Binding
<1>8. ValidRegistry(reg)
  <2>1. reg \in Registries
    BY <1>5, <1>6 DEF Registries
  <2>2. ASSUME NEW c \in Clients, reg.current[c] # None
        PROVE  Binding(reg, reg.current[c], c) # None
    <3>1. /\ registry.current[c] \in Names /\ Binding(registry, registry.current[c], c) # None
          /\ reg.current[c] = registry.current[c]
      BY <1>2, <1>6, <2>2, CurrentBinding DEF ValidRegistry
    <3>2. QED
      BY <1>4, <1>7, <3>1
  <2>3. QED
    BY <2>1, <2>2 DEF ValidRegistry
<1>9. QED
  BY <1>1, <1>3, <1>4, <1>6, <1>7, <1>8 DEF reg

-----------------------------------------------------------------------------
(* A client that is observed to use a Provider holds its binding, and, if  *)
(* no credential is shared, the reverse.                                   *)

LEMMA ObservedHolds ==
    ASSUME NEW c \in Clients, NEW file \in ClientFiles(c), NEW reg, ValidRegistry(reg),
           NEW n \in Names, NEW overridden,
           Inspect(c, file, reg, overridden) = ObservedCustom(n)
    PROVE  Holds(c, file, n, Binding(reg, n, c)) /\ Binding(reg, n, c) # None
<1>1. /\ \A state : Observed(state) # ObservedCustom(n)
      /\ \A m : ObservedCustom(m) = ObservedCustom(n) => m = n
      /\ n # None
  <2>1. n # None
    BY Marks
  <2>2. /\ \A state : Observed(state).provider = None
        /\ \A m : ObservedCustom(m).provider = m
    BY ObservedFields
  <2>3. QED
    BY <2>1, <2>2
<1>2. CASE c = "claude"
  <2> DEFINE settings == IF file = Missing THEN NoSettings ELSE file
             matches == BoundTo(reg, "claude", settings)
             m == IF matches = {} THEN None ELSE CHOOSE k \in matches : TRUE
  <2>1. InspectClaude(file, reg, overridden) = ObservedCustom(n)
    BY <1>2 DEF Inspect
  <2>2. settings.url # None /\ ObservedCustom(m) = ObservedCustom(n)
    BY <1>1, <2>1 DEF InspectClaude
  <2>3. n \in matches
    BY <1>1, <2>2
  <2>4. settings = file
    BY <2>2, NoSettingsForm
  <2>5. Binding(reg, n, "claude") = file
    BY <2>3, <2>4 DEF BoundTo
  <2>6. file # None
    <3>1. file \in Settings
      BY <1>2, <1>1, <2>1, <2>2, <2>4, NoSettingsForm
         DEF ClientFiles, ClaudeFiles, InspectClaude
    <3>2. file.url # None /\ file.key # None
      BY <1>1, <2>1, <2>2, <2>4 DEF InspectClaude
    <3>3. file \in Bindings
      BY <3>1, <3>2 DEF Settings, Bindings
    <3>4. QED
      BY <3>3, BindingFields
  <2>7. QED
    BY <1>2, <2>5, <2>6 DEF Holds
<1>3. CASE c = "codex"
  <2> DEFINE selector == Selected(file.config)
             table == IF selector = OpenAI THEN None ELSE file.config.tables[selector]
             binding == [url |-> table, key |-> file.auth]
             m == LogicalProvider(selector, binding, reg)
  <2>1. InspectCodex(file, reg, overridden) = ObservedCustom(n)
    BY <1>3 DEF Inspect
  <2>2. /\ Readable(file) /\ selector # OpenAI /\ m \in BoundTo(reg, "codex", binding)
        /\ ObservedCustom(m) = ObservedCustom(n)
    BY <1>1, <2>1 DEF InspectCodex
  <2>3. m = n /\ Binding(reg, n, "codex") = binding
    BY <1>1, <2>2 DEF BoundTo
  <2>4. selector \in {n, Custom}
    BY <2>3 DEF LogicalProvider
  <2>5. binding.url = file.config.tables[selector] /\ binding.key = file.auth
    BY <2>2
  <2>6. binding # None
    <3>1. table # None /\ file.auth \in Keys
      BY <1>1, <2>1, <2>2 DEF InspectCodex
    <3>2. table \in Urls \cup {Official, Partial}
      <4>1. file.config \in Configs
        BY <1>3, <2>2, CodexFields DEF ClientFiles
      <4>2. selector \in Aliases
        BY <2>2, <4>1, ConfigFields
      <4>3. QED
        BY <2>2, <3>1, <4>1, <4>2, ConfigFields
    <3>3. QED
      BY <3>1, <3>2, FormsAssumption
  <2>7. QED
    BY <1>3, <2>2, <2>3, <2>4, <2>5, <2>6 DEF Holds
<1>4. QED
  BY <1>2, <1>3 DEF Clients

(* A client that is set up agrees with the registry.                       *)
LEMMA SetUpAgrees ==
    ASSUME TypeOK, NEW c \in Clients, SetUp(c, files[c], registry), ~Clash(c)
    PROVE  /\ ~Drifted(c)
           /\ registry.current[c] = None => View(c, FALSE).state \in OfficialStates
<1> DEFINE file == files[c]
           n == registry.current[c]
<1>1. ValidRegistry(registry) /\ registry \in Registries /\ file \in ClientFiles(c)
  BY DEF TypeOK, ValidRegistry
<1>2. ASSUME n = None
      PROVE  View(c, FALSE) \in {Observed(state) : state \in OfficialStates}
  <2>1. PlainOfficial(c, file)
    BY <1>2 DEF SetUp
  <2>2. CASE c = "claude"
    <3>1. file = Missing \/ (file \in Settings /\ file.url = None)
      BY <2>1, <2>2 DEF PlainOfficial
    <3>2. file \notin {Garbage, Odd}
      BY <3>1, FormsAssumption, Marks
    <3>3. InspectClaude(file, registry, FALSE) \in {Observed("official_api_key"),
                                                    Observed("official_login")}
      BY <3>1, <3>2, NoSettingsForm DEF InspectClaude
    <3>4. QED
      BY <2>2, <3>3 DEF View, Inspect, OfficialStates
  <2>3. CASE c = "codex"
    <3>1. Readable(file) /\ (LoginSelected(file) \/ KeySelected(file))
      BY <2>1, <2>3 DEF PlainOfficial
    <3>2. CASE LoginSelected(file)
      <4>1. \/ Selected(file.config) = OpenAI
            \/ Selected(file.config) = Custom /\ file.config.tables[Custom] = Official
        BY <3>2, Marks DEF LoginSelected, Selected
      <4>2. Official # None /\ Custom # OpenAI /\ HasLogin(file)
        BY <3>2, Marks DEF LoginSelected
      <4>3. InspectCodex(file, registry, FALSE) = Observed("official_login")
        BY <3>1, <4>1, <4>2 DEF InspectCodex
      <4>4. QED
        BY <2>3, <4>3 DEF View, Inspect, OfficialStates
    <3>3. CASE KeySelected(file)
      <4>1. Selected(file.config) = OpenAI /\ file.auth \in Keys /\ ~HasLogin(file)
        BY <3>3, Marks DEF KeySelected, HasLogin
      <4>2. ~KeyRegistered(registry, file.auth)
        BY <2>3, <4>1 DEF Clash
      <4>3. InspectCodex(file, registry, FALSE) = Observed("official_api_key")
        BY <3>1, <4>1, <4>2 DEF InspectCodex
      <4>4. QED
        BY <2>3, <4>3 DEF View, Inspect, OfficialStates
    <3>4. QED
      BY <3>1, <3>2, <3>3
  <2>4. QED
    BY <2>2, <2>3 DEF Clients
<1>3. ASSUME n # None
      PROVE  View(c, FALSE) = ObservedCustom(n)
  <2> DEFINE binding == Binding(registry, n, c)
  <2>1. n \in Names /\ binding \in Bindings /\ Holds(c, file, n, binding)
    BY <1>1, <1>3, CurrentBinding DEF SetUp
  <2>2. BoundTo(registry, c, binding) = {n}
    BY <2>1, BindingFields DEF Clash
  <2>3. /\ binding.url \in Urls /\ binding.key \in Keys /\ binding \in Settings
        /\ binding = [url |-> binding.url, key |-> binding.key]
    BY <2>1, BindingFields
  <2> HIDE DEF binding
  <2>4. CASE c = "claude"
    <3>1. file = binding /\ file \notin {Missing, Garbage, Odd}
      BY <2>1, <2>3, <2>4, FormsAssumption DEF Holds
    <3>2. file.url # None /\ file.key # None
      BY <2>3, <3>1, Marks
    <3>3. Cardinality(BoundTo(registry, c, file)) = 1
      BY <2>2, <3>1, FS_Singleton
    <3>4. (CHOOSE m \in BoundTo(registry, c, file) : TRUE) = n
      BY <2>2, <3>1
    <3>5. InspectClaude(file, registry, FALSE) = ObservedCustom(n)
      BY <2>2, <2>4, <3>1, <3>2, <3>3, <3>4 DEF InspectClaude
    <3>6. QED
      BY <2>4, <3>5 DEF View, Inspect
  <2>5. CASE c = "codex"
    <3> DEFINE selector == Selected(file.config)
               table == IF selector = OpenAI THEN None ELSE file.config.tables[selector]
    <3>1. /\ Readable(file) /\ selector \in {n, Custom} /\ file.auth = binding.key
          /\ file.config.tables[selector] = binding.url
      <4>1. file.auth = binding.key
        BY <2>1, <2>5 DEF Holds
      <4>2. file.auth \in Keys /\ KeyRegistered(registry, file.auth)
        BY <2>1, <2>3, <2>5, <4>1, BindingFields DEF KeyRegistered, binding
      <4>3. selector # OpenAI
        BY <2>5, <4>2 DEF Clash
      <4>4. QED
        BY <2>1, <2>5, <4>3 DEF Holds
    <3>2. selector # OpenAI /\ table = binding.url /\ table # None
      BY <2>1, <2>3, <3>1, Marks
    <3>3. [url |-> table, key |-> file.auth] = binding
      BY <2>3, <3>1, <3>2
    <3>4. LogicalProvider(selector, binding, registry) = n
      BY <1>3, <2>5, <3>1 DEF LogicalProvider
    <3>5. ~HasLogin(file) /\ file.auth \in Keys
      BY <2>3, <3>1, Marks DEF HasLogin
    <3>6. n \in BoundTo(registry, "codex", binding)
      BY <2>2, <2>5
    <3>7. InspectCodex(file, registry, FALSE) = ObservedCustom(n)
      BY <3>1, <3>2, <3>3, <3>4, <3>5, <3>6 DEF InspectCodex
    <3>8. QED
      BY <2>5, <3>7 DEF View, Inspect
  <2>6. QED
    BY <2>4, <2>5 DEF Clients
<1>4. CASE n = None
  <2>1. View(c, FALSE).state \in OfficialStates
    BY <1>2, <1>4, ObservedFields
  <2>2. QED
    BY <1>4, <2>1 DEF Drifted, InUse, OfficialStates
<1>5. CASE n # None
  <2>1. View(c, FALSE).state = "custom" /\ View(c, FALSE).provider = n
    BY <1>3, <1>5, ObservedFields
  <2>2. QED
    BY <1>5, <2>1 DEF Drifted, InUse
<1>6. QED
  BY <1>4, <1>5

-----------------------------------------------------------------------------
(* The type invariant: every step keeps it.                                *)

LEMMA InitType == Init => TypeInv
<1> SUFFICES ASSUME Init PROVE TypeInv
  OBVIOUS
<1>1. /\ registry = [providers |-> [n \in Names |-> [c \in Clients |-> None]],
                     current |-> [c \in Clients |-> None]]
      /\ snapshots = <<>> /\ asked = None /\ edits = 0 /\ failures = 0
      /\ clean = [c \in Clients |->
                    Inspect(c, files[c], registry, FALSE).state \in OfficialStates]
  BY DEF Init
<1>2. /\ registry \in Registries
      /\ \A c \in Clients : registry.current[c] = None
  BY <1>1 DEF Registries
<1>3. PICK claude \in StartFiles["claude"], codex \in StartFiles["codex"] :
         files = [c \in Clients |-> IF c = "claude" THEN claude ELSE codex]
  BY DEF Init
<1>4. claude \in ClientFiles("claude") /\ codex \in ClientFiles("codex")
  BY <1>3, FilesAssumption DEF Clients
<1>5. /\ \A c \in Clients : files[c] \in ClientFiles(c)
      /\ files \in [Clients -> ClaudeFiles \cup CodexFiles]
  BY <1>3, <1>4 DEF Clients, ClientFiles
<1>6. clean \in [Clients -> BOOLEAN]
  BY <1>1
<1>7. snapshots \in Seq(Snapshots) /\ Len(snapshots) = 0
  BY <1>1
<1>8. TypeOK
  BY <1>1, <1>2, <1>5, <1>6, <1>7 DEF TypeOK, ValidRegistry
<1>9. QED
  BY <1>1, <1>7, <1>8 DEF TypeInv, SnapshotInv, AskedInv

LEMMA AskType ==
    ASSUME TypeInv, NEW c \in Clients, NEW n \in Names, NEW overridden \in BOOLEAN,
           AskAdd(c, n, overridden) \/ AskUpdate(c, n, overridden)
    PROVE  TypeInv'
<1>1. UNCHANGED <<registry, files, snapshots, clean, edits, failures>>
  BY DEF AskAdd, AskUpdate
<1>2. asked' \in Questions
  <2>1. PICK by \in {"add", "update"}, active \in BOOLEAN :
           asked' = [by |-> by, client |-> c, name |-> n, active |-> active,
                     overridden |-> overridden]
    BY DEF AskAdd, AskUpdate
  <2>2. QED
    BY <2>1 DEF Questions
<1>3. asked'.by = "update" =>
         /\ Binding(registry, asked'.name, asked'.client) # None
         /\ asked'.active <=> registry.current[asked'.client] = asked'.name
  <2>1. CASE AskAdd(c, n, overridden)
    BY <2>1 DEF AskAdd
  <2>2. CASE AskUpdate(c, n, overridden)
    BY <2>2 DEF AskUpdate
  <2>3. QED
    BY <2>1, <2>2
<1>4. TypeOK' /\ SnapshotInv'
  BY <1>1, <1>2 DEF TypeInv, TypeOK, SnapshotInv
<1>5. AskedInv'
  BY <1>1, <1>3 DEF AskedInv
<1>6. QED
  BY <1>4, <1>5 DEF TypeInv

LEMMA AnswerAddType ==
    ASSUME TypeInv, NEW binding \in Bindings, AnswerAdd(binding)
    PROVE  TypeInv'
<1> DEFINE c == asked.client
           n == asked.name
           added == WithBinding(registry, n, c, binding)
           chosen == WithCurrent(added, c, n)
           change == PrepareProvider(c, files[c], n, binding, TRUE, registry, asked.overridden)
<1>1. /\ ~Idle /\ asked' = None
      /\ \/ RegistryOnly(chosen) /\ clean' = [clean EXCEPT ![c] = TRUE]
         \/ change # Refused /\ Apply(c, n, change, chosen)
  BY DEF AnswerAdd
<1>2. /\ c \in Clients /\ n \in Names /\ ValidRegistry(chosen)
      /\ change # Refused => SoundChange(c, files[c], change)
  BY <1>1, AnswerFacts
<1> HIDE DEF c, n, added, chosen, change
<1>3. CASE RegistryOnly(chosen) /\ clean' = [clean EXCEPT ![c] = TRUE]
  <2>1. clean' \in [Clients -> BOOLEAN]
    BY <1>3 DEF TypeInv, TypeOK
  <2>2. QED
    BY <1>1, <1>2, <1>3, <2>1, RegistryOnlyType
<1>4. CASE change # Refused /\ Apply(c, n, change, chosen)
  BY <1>1, <1>2, <1>4, ApplyType DEF TypeInv
<1>5. QED
  BY <1>1, <1>3, <1>4

LEMMA AnswerUpdateType ==
    ASSUME TypeInv, NEW binding \in Bindings, AnswerUpdate(binding)
    PROVE  TypeInv'
<1> DEFINE c == asked.client
           n == asked.name
           updated == WithBinding(registry, n, c, binding)
           change == PrepareProvider(c, files[c], n, binding, TRUE, registry, asked.overridden)
<1>1. /\ ~Idle /\ asked' = None
      /\ \/ RegistryOnly(updated) /\ clean' = clean
         \/ change # Refused /\ Apply(c, n, change, updated)
  BY DEF AnswerUpdate
<1>2. /\ c \in Clients /\ n \in Names /\ ValidRegistry(updated)
      /\ change # Refused => SoundChange(c, files[c], change)
  BY <1>1, AnswerFacts
<1> HIDE DEF c, n, updated, change
<1>3. CASE RegistryOnly(updated) /\ clean' = clean
  <2>1. clean' \in [Clients -> BOOLEAN]
    BY <1>3 DEF TypeInv, TypeOK
  <2>2. QED
    BY <1>1, <1>2, <1>3, <2>1, RegistryOnlyType
<1>4. CASE change # Refused /\ Apply(c, n, change, updated)
  BY <1>1, <1>2, <1>4, ApplyType DEF TypeInv
<1>5. QED
  BY <1>1, <1>3, <1>4

LEMMA RemoveType ==
    ASSUME TypeInv, NEW n \in Names, NEW cs \in SUBSET Clients, NEW force, NEW overridden,
           Remove(n, cs, force, overridden)
    PROVE  TypeInv'
<1>1. /\ RegistryOnly(Removed(n, cs)) /\ asked' = None /\ clean' = clean
      /\ ValidRegistry(Removed(n, cs))
  BY RemoveFacts
<1>2. clean' \in [Clients -> BOOLEAN]
  BY <1>1 DEF TypeInv, TypeOK
<1>3. QED
  BY <1>1, <1>2, RegistryOnlyType

LEMMA SwitchType ==
    ASSUME TypeInv, NEW c \in Clients, NEW n \in Names, NEW shared \in BOOLEAN,
           NEW overridden, Switch(c, n, shared, overridden)
    PROVE  TypeInv'
<1> DEFINE change == PrepareProvider(c, files[c], n, Binding(registry, n, c), shared,
                                     registry, overridden)
<1>1. /\ Apply(c, n, change, WithCurrent(registry, c, n)) /\ asked' = None
      /\ ValidRegistry(WithCurrent(registry, c, n)) /\ SoundChange(c, files[c], change)
  BY SwitchFacts
<1>2. QED
  BY <1>1, ApplyType DEF TypeInv

LEMMA OfficialFacts ==
    ASSUME TypeInv, NEW c \in Clients, NEW shared \in BOOLEAN, NEW overridden,
           SwitchOfficial(c, shared, overridden)
    PROVE  LET change == OfficialChange(c, shared, overridden) IN
           /\ change # Refused /\ Apply(c, None, change, WithCurrent(registry, c, None))
           /\ asked' = None
           /\ ValidRegistry(WithCurrent(registry, c, None))
           /\ SoundChange(c, files[c], change)
<1>1. /\ OfficialChange(c, shared, overridden) # Refused /\ asked' = None
      /\ Apply(c, None, OfficialChange(c, shared, overridden), WithCurrent(registry, c, None))
  BY DEF SwitchOfficial, Idle
<1>2. ValidRegistry(registry)
  BY DEF TypeInv, TypeOK
<1>3. ValidRegistry(WithCurrent(registry, c, None))
  BY <1>2, CurrentSet
<1>4. QED
  BY <1>1, <1>3, OfficialChangeSound

LEMMA OfficialType ==
    ASSUME TypeInv, NEW c \in Clients, NEW shared \in BOOLEAN, NEW overridden,
           SwitchOfficial(c, shared, overridden)
    PROVE  TypeInv'
BY OfficialFacts, ApplyType DEF TypeInv

LEMMA EditOutcome ==
    ASSUME TypeInv, NEW c \in Clients, Edit(c)
    PROVE  \E file \in Edited(c, files[c]) :
              /\ file \in ClientFiles(c) /\ files' = [files EXCEPT ![c] = file]
              /\ clean' = [clean EXCEPT ![c] = FALSE] /\ edits' = edits + 1
              /\ UNCHANGED <<registry, snapshots, asked, failures>>
<1>1. files[c] \in ClientFiles(c)
  BY DEF TypeInv, TypeOK
<1>2. QED
  BY <1>1, FilesAssumption DEF Edit

LEMMA EditType ==
    ASSUME TypeInv, NEW c \in Clients, Edit(c)
    PROVE  TypeInv'
<1>1. PICK file \in ClientFiles(c) :
         /\ files' = [files EXCEPT ![c] = file]
         /\ clean' = [clean EXCEPT ![c] = FALSE] /\ edits' = edits + 1
         /\ UNCHANGED <<registry, snapshots, asked, failures>>
  BY EditOutcome
<1>2. file \in ClaudeFiles \cup CodexFiles
  BY <1>1 DEF ClientFiles
<1>3. TypeOK'
  BY <1>1, <1>2 DEF TypeInv, TypeOK
<1>4. SnapshotInv' /\ AskedInv'
  BY <1>1 DEF TypeInv, SnapshotInv, AskedInv
<1>5. QED
  BY <1>3, <1>4 DEF TypeInv

LEMMA StutterType ==
    ASSUME TypeInv, UNCHANGED vars \/ Abandon
    PROVE  TypeInv'
<1>1. /\ UNCHANGED <<registry, files, snapshots, clean, edits, failures>>
      /\ asked' \in {asked, None}
  BY DEF Abandon, vars
<1>2. QED
  BY <1>1 DEF TypeInv, TypeOK, SnapshotInv, AskedInv

(* The steps, with the values that the actions take.                       *)
LEMMA Steps ==
    ASSUME [Next]_vars
    PROVE  \/ \E c \in Clients, n \in Names, overridden \in BOOLEAN :
                 AskAdd(c, n, overridden) \/ AskUpdate(c, n, overridden)
           \/ \E c \in Clients, n \in Names, shared \in BOOLEAN, overridden \in BOOLEAN :
                 Switch(c, n, shared, overridden)
           \/ \E binding \in Bindings : AnswerAdd(binding)
           \/ \E binding \in Bindings : AnswerUpdate(binding)
           \/ \E n \in Names, cs \in SUBSET Clients, force \in BOOLEAN, overridden \in BOOLEAN :
                 Remove(n, cs, force, overridden)
           \/ \E c \in Clients, shared \in BOOLEAN, overridden \in BOOLEAN :
                 SwitchOfficial(c, shared, overridden)
           \/ \E c \in Clients : Edit(c)
           \/ UNCHANGED vars \/ Abandon
<1>1. Overrides \subseteq BOOLEAN
  BY OverridesAssumption
<1>2. \A c \in Clients : Offered[c] \subseteq Bindings
  BY OfferedAssumption
<1>3. \A n \in Names : {{"claude"}, {"codex"}, BoundClients(registry, n)} \subseteq SUBSET Clients
  BY DEF BoundClients, Clients
<1>4. QED
  BY <1>1, <1>2, <1>3, Zenon DEF Next

LEMMA NextType == TypeInv /\ [Next]_vars => TypeInv'
<1> SUFFICES ASSUME TypeInv, [Next]_vars PROVE TypeInv'
  OBVIOUS
<1>1. QED
  BY Steps, AskType, SwitchType, AnswerAddType, AnswerUpdateType, RemoveType, OfficialType,
     EditType, StutterType, Zenon

(* The registry is one that load_registry accepts, whatever the commands   *)
(* and the edits did, and what is in the clients' files and in the         *)
(* snapshots is of the forms the adapters know: no command writes          *)
(* something that no command can read.                                     *)
THEOREM TypeCorrect == Spec => []TypeOK
<1>1. Spec => []TypeInv
  BY InitType, NextType, PTL DEF Spec
<1>2. TypeInv => TypeOK
  BY DEF TypeInv
<1>3. QED
  BY <1>1, <1>2, PTL

-----------------------------------------------------------------------------
(* Agreement with the registry: every step keeps it.                       *)

LEMMA OfficialIsPlain ==
    ASSUME NEW c \in Clients, NEW file \in ClientFiles(c), NEW reg, NEW overridden,
           Inspect(c, file, reg, overridden).state \in OfficialStates
    PROVE  PlainOfficial(c, file)
<1>1. CASE c = "claude"
  BY <1>1, ClaudeOfficial DEF ClientFiles, Inspect, PlainOfficial
<1>2. CASE c = "codex"
  BY <1>2, CodexOfficial DEF ClientFiles, Inspect, PlainOfficial, OfficialStates
<1>3. QED
  BY <1>1, <1>2 DEF Clients

LEMMA InitAgrees == Init => AgreeInv
<1> SUFFICES ASSUME Init PROVE AgreeInv
  OBVIOUS
<1>1. TypeInv
  BY InitType
<1>2. ASSUME NEW c \in Clients, clean[c]
      PROVE  SetUp(c, files[c], registry)
  <2>1. /\ Inspect(c, files[c], registry, FALSE).state \in OfficialStates
        /\ registry.current[c] = None
    BY <1>2 DEF Init
  <2>2. files[c] \in ClientFiles(c)
    BY <1>1 DEF TypeInv, TypeOK
  <2>3. QED
    BY <2>1, <2>2, OfficialIsPlain DEF SetUp
<1>3. QED
  BY <1>1, <1>2 DEF AgreeInv

LEMMA IdleAgrees ==
    ASSUME AgreeInv, TypeInv', UNCHANGED <<registry, files, snapshots, clean>>
    PROVE  AgreeInv'
BY DEF AgreeInv

(* The Provider of another client is not touched by what an answer says.   *)
LEMMA OthersStay ==
    ASSUME ValidRegistry(registry), NEW c \in Clients, NEW n \in Names,
           NEW binding \in Bindings,
           NEW d \in Clients, d # c, NEW file, SetUp(d, file, registry)
    PROVE  /\ SetUp(d, file, WithBinding(registry, n, c, binding))
           /\ SetUp(d, file, WithCurrent(WithBinding(registry, n, c, binding), c, n))
<1> DEFINE added == WithBinding(registry, n, c, binding)
           chosen == WithCurrent(added, c, n)
           m == registry.current[d]
<1>1. /\ ValidRegistry(added) /\ added.current = registry.current
      /\ \A k \in Names : Binding(added, k, d) = Binding(registry, k, d)
      /\ Binding(added, n, c) # None
  BY BindingAdded, BindingFields
<1>2. m # None => m \in Names
  BY CurrentBinding
<1> HIDE DEF added, m
<1>3. /\ chosen.current[d] = added.current[d]
      /\ \A k : Binding(chosen, k, d) = Binding(added, k, d)
  BY <1>1, CurrentReads
<1> HIDE DEF chosen
<1>4. SetUp(d, file, added)
  BY <1>1, <1>2, SameSetUp DEF m
<1>5. SetUp(d, file, chosen)
  BY <1>3, <1>4, SameSetUp
<1>6. QED
  BY <1>4, <1>5 DEF added, chosen

LEMMA AnswerAddAgrees ==
    ASSUME AgreeInv, NEW binding \in Bindings, AnswerAdd(binding), TypeInv'
    PROVE  AgreeInv'
<1> DEFINE c == asked.client
           n == asked.name
           added == WithBinding(registry, n, c, binding)
           chosen == WithCurrent(added, c, n)
           change == PrepareProvider(c, files[c], n, binding, TRUE, registry, asked.overridden)
<1>1. /\ ~Idle
      /\ \/ /\ Inspect(c, files[c], added, asked.overridden) = ObservedCustom(n)
            /\ RegistryOnly(chosen) /\ clean' = [clean EXCEPT ![c] = TRUE]
         \/ change # Refused /\ Apply(c, n, change, chosen)
  BY DEF AnswerAdd
<1>2. /\ c \in Clients /\ n \in Names /\ files[c] \in ClientFiles(c)
      /\ ValidRegistry(registry) /\ ValidRegistry(added)
      /\ change # Refused =>
            SoundChange(c, files[c], change) /\ Holds(c, change.after, n, binding)
  BY <1>1, AnswerFacts DEF AgreeInv
<1> HIDE DEF c, n, change
<1>3. \A d \in Clients : d # c /\ SetUp(d, files[d], registry) => SetUp(d, files[d], chosen)
  BY <1>2, OthersStay
<1>4. /\ Binding(added, n, c) = binding /\ binding # None
      /\ n # None
  BY <1>2, BindingAdded, BindingFields, Marks
<1>5. chosen.current[c] = n /\ Binding(chosen, n, c) = binding
  BY <1>2, <1>4, CurrentReads
<1> HIDE DEF added, chosen
<1>6. \A file : Holds(c, file, n, binding) => SetUp(c, file, chosen)
  BY <1>4, <1>5 DEF SetUp
<1>7. ASSUME Inspect(c, files[c], added, asked.overridden) = ObservedCustom(n),
             RegistryOnly(chosen), clean' = [clean EXCEPT ![c] = TRUE]
      PROVE  AgreeInv'
  <2>1. SetUp(c, files[c], chosen)
    BY <1>2, <1>4, <1>6, <1>7, ObservedHolds
  <2>2. ASSUME NEW d \in Clients, clean'[d]
        PROVE  SetUp(d, files[d], chosen)
    <3>1. d # c => clean[d]
      BY <1>7, <2>2 DEF AgreeInv, TypeInv, TypeOK
    <3>2. QED
      BY <1>3, <2>1, <3>1 DEF AgreeInv
  <2>3. QED
    BY <1>7, <2>2, RegistryOnlyAgrees
<1>8. ASSUME change # Refused, Apply(c, n, change, chosen)
      PROVE  AgreeInv'
  <2>1. Holds(c, change.after, n, binding)
    BY <1>2, <1>8
  <2>2. SetUp(c, change.after, chosen)
    BY <1>6, <2>1
  <2>3. QED
    BY <1>2, <1>3, <1>8, <2>2, ApplyAgrees
<1>9. QED
  BY <1>1, <1>7, <1>8

LEMMA AnswerUpdateAgrees ==
    ASSUME AgreeInv, NEW binding \in Bindings, AnswerUpdate(binding), TypeInv'
    PROVE  AgreeInv'
<1> DEFINE c == asked.client
           n == asked.name
           updated == WithBinding(registry, n, c, binding)
           change == PrepareProvider(c, files[c], n, binding, TRUE, registry, asked.overridden)
<1>1. /\ ~Idle
      /\ \/ ~asked.active /\ RegistryOnly(updated) /\ clean' = clean
         \/ asked.active /\ change # Refused /\ Apply(c, n, change, updated)
      /\ asked.active <=> registry.current[c] = n
  BY DEF AnswerUpdate, AgreeInv, TypeInv, AskedInv, Idle
<1>2. /\ c \in Clients /\ n \in Names /\ ValidRegistry(registry)
      /\ change # Refused =>
            SoundChange(c, files[c], change) /\ Holds(c, change.after, n, binding)
  BY <1>1, AnswerFacts DEF AgreeInv
<1> HIDE DEF c, n, change
<1>3. \A d \in Clients : d # c /\ SetUp(d, files[d], registry) => SetUp(d, files[d], updated)
  BY <1>2, OthersStay
<1>4. /\ updated.current = registry.current
      /\ \A m \in Names :
            Binding(updated, m, c) = IF m = n THEN binding ELSE Binding(registry, m, c)
      /\ n # None
  BY <1>2, BindingAdded, Marks
<1> HIDE DEF updated
<1>5. ASSUME ~asked.active, RegistryOnly(updated), clean' = clean
      PROVE  AgreeInv'
  <2>1. ASSUME SetUp(c, files[c], registry)
        PROVE  SetUp(c, files[c], updated)
    <3>1. registry.current[c] # None => registry.current[c] \in Names
      BY <1>2, CurrentBinding
    <3>2. QED
      BY <1>1, <1>4, <1>5, <2>1, <3>1, SameSetUp
  <2>2. QED
    BY <1>3, <1>5, <2>1, RegistryOnlyAgrees DEF AgreeInv
<1>6. ASSUME asked.active, change # Refused, Apply(c, n, change, updated)
      PROVE  AgreeInv'
  <2>1. Holds(c, change.after, n, binding)
    BY <1>2, <1>6
  <2>2. SetUp(c, change.after, updated)
    BY <1>1, <1>2, <1>4, <1>6, <2>1 DEF SetUp
  <2>3. QED
    BY <1>2, <1>3, <1>6, <2>2, ApplyAgrees
<1>7. QED
  BY <1>1, <1>5, <1>6

LEMMA RemoveAgrees ==
    ASSUME AgreeInv, NEW n \in Names, NEW cs \in SUBSET Clients, NEW force, NEW overridden,
           Remove(n, cs, force, overridden), TypeInv'
    PROVE  AgreeInv'
<1>1. /\ RegistryOnly(Removed(n, cs)) /\ clean' = clean
      /\ \A m \in Names, c \in Clients :
            Binding(Removed(n, cs), m, c) =
               IF m = n /\ c \in cs THEN None ELSE Binding(registry, m, c)
      /\ \A c \in Clients : Removed(n, cs).current[c] = registry.current[c]
      /\ \A c \in cs : registry.current[c] # n
  BY RemoveFacts DEF AgreeInv
<1>2. ASSUME NEW c \in Clients, SetUp(c, files[c], registry)
      PROVE  SetUp(c, files[c], Removed(n, cs))
  <2>1. registry.current[c] # None => registry.current[c] \in Names
    BY CurrentBinding DEF AgreeInv, TypeInv, TypeOK
  <2>2. QED
    BY <1>1, <1>2, <2>1, SameSetUp
<1>3. QED
  BY <1>1, <1>2, RegistryOnlyAgrees DEF AgreeInv

LEMMA SwitchAgrees ==
    ASSUME AgreeInv, NEW c \in Clients, NEW n \in Names, NEW shared \in BOOLEAN,
           NEW overridden, Switch(c, n, shared, overridden), TypeInv'
    PROVE  AgreeInv'
<1> DEFINE binding == Binding(registry, n, c)
           chosen == WithCurrent(registry, c, n)
           change == PrepareProvider(c, files[c], n, binding, shared, registry, overridden)
<1>1. /\ Apply(c, n, change, chosen) /\ binding \in Bindings
      /\ SoundChange(c, files[c], change)
      /\ Holds(c, change.after, n, binding)
  BY SwitchFacts DEF AgreeInv
<1>2. binding # None /\ n # None /\ ValidRegistry(registry)
  BY <1>1, BindingFields, Marks DEF AgreeInv, TypeInv, TypeOK
<1>3. /\ \A d \in Clients : chosen.current[d] = IF d = c THEN n ELSE registry.current[d]
      /\ \A d \in Clients : \A m : Binding(chosen, m, d) = Binding(registry, m, d)
  BY <1>2, CurrentReads
<1> HIDE DEF chosen, change
<1>4. SetUp(c, change.after, chosen)
  BY <1>1, <1>2, <1>3 DEF SetUp
<1>5. \A d \in Clients : d # c /\ SetUp(d, files[d], registry) => SetUp(d, files[d], chosen)
  BY <1>3, SameSetUp
<1>6. QED
  BY <1>1, <1>4, <1>5, ApplyAgrees

LEMMA OfficialAgrees ==
    ASSUME AgreeInv, NEW c \in Clients, NEW shared \in BOOLEAN, NEW overridden,
           SwitchOfficial(c, shared, overridden), TypeInv'
    PROVE  AgreeInv'
<1> DEFINE chosen == WithCurrent(registry, c, None)
           change == OfficialChange(c, shared, overridden)
<1>1. /\ change # Refused /\ Apply(c, None, change, chosen) /\ SoundChange(c, files[c], change)
  BY OfficialFacts DEF AgreeInv
<1>2. PlainOfficial(c, change.after)
  BY <1>1, OfficialChangeSound DEF AgreeInv
<1>3. /\ \A d \in Clients : chosen.current[d] = IF d = c THEN None ELSE registry.current[d]
      /\ \A d \in Clients : \A m : Binding(chosen, m, d) = Binding(registry, m, d)
  BY CurrentReads DEF AgreeInv, TypeInv, TypeOK
<1> HIDE DEF chosen, change
<1>4. SetUp(c, change.after, chosen)
  BY <1>2, <1>3 DEF SetUp
<1>5. \A d \in Clients : d # c /\ SetUp(d, files[d], registry) => SetUp(d, files[d], chosen)
  BY <1>3, SameSetUp
<1>6. QED
  BY <1>1, <1>2, <1>4, <1>5, ApplyAgrees

LEMMA EditAgrees ==
    ASSUME AgreeInv, NEW c \in Clients, Edit(c), TypeInv'
    PROVE  AgreeInv'
<1>1. PICK file \in Edited(c, files[c]) :
         /\ file \in ClientFiles(c) /\ files' = [files EXCEPT ![c] = file]
         /\ clean' = [clean EXCEPT ![c] = FALSE]
         /\ UNCHANGED <<registry, snapshots>>
  BY EditOutcome DEF AgreeInv
<1>2. files \in [Clients -> ClaudeFiles \cup CodexFiles] /\ clean \in [Clients -> BOOLEAN]
  BY DEF AgreeInv, TypeInv, TypeOK
<1>3. \A d \in Clients : clean'[d] => SetUp(d, files'[d], registry')
  BY <1>1, <1>2 DEF AgreeInv
<1>4. QED
  BY <1>3 DEF AgreeInv

LEMMA NextAgrees == AgreeInv /\ [Next]_vars => AgreeInv'
<1> SUFFICES ASSUME AgreeInv, [Next]_vars PROVE AgreeInv'
  OBVIOUS
<1>1. TypeInv'
  BY NextType DEF AgreeInv
<1>2. ASSUME \/ \E c \in Clients, n \in Names, overridden \in BOOLEAN :
                   AskAdd(c, n, overridden) \/ AskUpdate(c, n, overridden)
             \/ UNCHANGED vars \/ Abandon
      PROVE  UNCHANGED <<registry, files, snapshots, clean>>
  BY <1>2 DEF AskAdd, AskUpdate, Abandon, vars
<1>3. QED
  BY <1>1, <1>2, Steps, IdleAgrees, SwitchAgrees, AnswerAddAgrees, AnswerUpdateAgrees,
     RemoveAgrees, OfficialAgrees, EditAgrees, Zenon

(* A client that nobody edited since a command set it up never drifts from *)
(* the registry, whatever other commands ran or failed meanwhile, as long  *)
(* as its credential is its own: for any number of Providers, changes,     *)
(* edits and failures.                                                     *)
THEOREM AgreementStays == Spec => []StaysInAgreement
<1>1. Init => AgreeInv
  BY InitAgrees
<1>2. AgreeInv /\ [Next]_vars => AgreeInv'
  BY NextAgrees
<1>3. AgreeInv => StaysInAgreement
  <2>1. AgreeInv => TypeOK
    BY DEF AgreeInv, TypeInv
  <2>2. QED
    BY <2>1, SetUpAgrees DEF AgreeInv, StaysInAgreement
<1>4. QED
  BY <1>1, <1>2, <1>3, PTL DEF Spec

-----------------------------------------------------------------------------
(* What a step does: a change of a client, or nothing of the kind.         *)

IsChange(c, target, change, reg) ==
    /\ c \in Clients
    /\ SoundChange(c, files[c], change) /\ Apply(c, target, change, reg)
    /\ c = "claude" => change.after # Garbage
    /\ \/ target \in Names
       \/ target = None /\ \E shared \in BOOLEAN, overridden \in BOOLEAN :
             change = OfficialChange(c, shared, overridden) /\ change # Refused

NoBindingLost(reg) ==
    \A n \in Names, c \in Clients : Binding(registry, n, c) # None => Binding(reg, n, c) # None

LEMMA BindingParsable == Garbage \notin Bindings
BY BindingFields, FormsAssumption

LEMMA SwitchIsChange ==
    ASSUME TypeInv, NEW c \in Clients, NEW n \in Names, NEW shared \in BOOLEAN,
           NEW overridden, Switch(c, n, shared, overridden)
    PROVE  \E change, reg : IsChange(c, n, change, reg) /\ NoBindingLost(reg)
<1> DEFINE binding == Binding(registry, n, c)
           chosen == WithCurrent(registry, c, n)
           change == PrepareProvider(c, files[c], n, binding, shared, registry, overridden)
<1>1. /\ Apply(c, n, change, chosen) /\ binding \in Bindings
      /\ SoundChange(c, files[c], change)
      /\ c = "claude" => Holds(c, change.after, n, binding)
  BY SwitchFacts
<1>2. c = "claude" => change.after # Garbage
  BY <1>1, BindingParsable DEF Holds
<1>3. ValidRegistry(registry)
  BY DEF TypeInv, TypeOK
<1>4. \A d \in Clients : \A m : Binding(chosen, m, d) = Binding(registry, m, d)
  BY <1>3, CurrentReads
<1> HIDE DEF binding, chosen, change
<1>5. IsChange(c, n, change, chosen) /\ NoBindingLost(chosen)
  BY <1>1, <1>2, <1>4 DEF IsChange, NoBindingLost
<1>6. QED
  BY <1>5

LEMMA OfficialIsChange ==
    ASSUME TypeInv, NEW c \in Clients, NEW shared \in BOOLEAN, NEW overridden \in BOOLEAN,
           SwitchOfficial(c, shared, overridden)
    PROVE  \E change, reg : IsChange(c, None, change, reg) /\ NoBindingLost(reg)
<1> DEFINE chosen == WithCurrent(registry, c, None)
           change == OfficialChange(c, shared, overridden)
<1>1. /\ change # Refused /\ Apply(c, None, change, chosen) /\ SoundChange(c, files[c], change)
      /\ c = "claude" => PlainOfficial(c, change.after)
  BY OfficialFacts, OfficialChangeSound
<1>2. c = "claude" => change.after # Garbage
  BY <1>1, FormsAssumption, Marks DEF PlainOfficial
<1>3. ValidRegistry(registry)
  BY DEF TypeInv, TypeOK
<1>4. \A d \in Clients : \A m : Binding(chosen, m, d) = Binding(registry, m, d)
  BY <1>3, CurrentReads
<1>5. change = OfficialChange(c, shared, overridden)
  OBVIOUS
<1> HIDE DEF chosen, change
<1>6. IsChange(c, None, change, chosen) /\ NoBindingLost(chosen)
  BY <1>1, <1>2, <1>4, <1>5 DEF IsChange, NoBindingLost
<1>7. QED
  BY <1>6

LEMMA AnswerIsChange ==
    ASSUME TypeInv, NEW binding \in Bindings, AnswerAdd(binding) \/ AnswerUpdate(binding)
    PROVE  \E reg :
              /\ NoBindingLost(reg)
              /\ \/ RegistryOnly(reg)
                 \/ \E c, n, change : IsChange(c, n, change, reg)
<1> DEFINE c == asked.client
           n == asked.name
           added == WithBinding(registry, n, c, binding)
           chosen == WithCurrent(added, c, n)
           change == PrepareProvider(c, files[c], n, binding, TRUE, registry, asked.overridden)
<1>1. PICK reg \in {added, chosen} :
         /\ ~Idle
         /\ RegistryOnly(reg) \/ (change # Refused /\ Apply(c, n, change, reg))
  BY DEF AnswerAdd, AnswerUpdate
<1>2. /\ c \in Clients /\ n \in Names /\ ValidRegistry(registry) /\ ValidRegistry(added)
      /\ change # Refused =>
            /\ SoundChange(c, files[c], change)
            /\ c = "claude" => Holds(c, change.after, n, binding)
  BY <1>1, AnswerFacts
<1> HIDE DEF c, n, change
<1>3. /\ \A m \in Names, d \in Clients :
            Binding(added, m, d) = IF m = n /\ d = c THEN binding ELSE Binding(registry, m, d)
      /\ binding # None
  BY <1>2, BindingAdded, BindingFields
<1> HIDE DEF added
<1>4. \A d \in Clients : \A m : Binding(chosen, m, d) = Binding(added, m, d)
  BY <1>2, CurrentReads
<1> HIDE DEF chosen
<1>5. NoBindingLost(reg)
  BY <1>1, <1>3, <1>4 DEF NoBindingLost
<1>6. ASSUME change # Refused, Apply(c, n, change, reg)
      PROVE  IsChange(c, n, change, reg)
  BY <1>2, <1>6, BindingParsable DEF IsChange, Holds
<1>7. QED
  BY <1>1, <1>5, <1>6

(* Only remove takes a binding away, and only a change of a client fails,  *)
(* adds a snapshot or, but for an edit, writes a client's files.           *)
LEMMA StepKinds ==
    ASSUME TypeInv, [Next]_vars
    PROVE  \/ \E reg :
                 /\ NoBindingLost(reg)
                 /\ \E c, n, change : IsChange(c, n, change, reg)
           \/ \E reg : NoBindingLost(reg) /\ RegistryOnly(reg)
           \/ \E n \in Names, cs \in SUBSET Clients, force \in BOOLEAN, overridden \in BOOLEAN :
                 Remove(n, cs, force, overridden)
           \/ \E c \in Clients : Edit(c)
           \/ UNCHANGED <<registry, files, snapshots, failures>>
<1>1. ASSUME NEW c \in Clients, NEW n \in Names, NEW overridden \in BOOLEAN,
             AskAdd(c, n, overridden) \/ AskUpdate(c, n, overridden)
      PROVE  UNCHANGED <<registry, files, snapshots, failures>>
  BY <1>1 DEF AskAdd, AskUpdate
<1>2. ASSUME UNCHANGED vars \/ Abandon
      PROVE  UNCHANGED <<registry, files, snapshots, failures>>
  BY <1>2 DEF Abandon, vars
<1>3. QED
  BY <1>1, <1>2, Steps, SwitchIsChange, OfficialIsChange, AnswerIsChange, Zenon

-----------------------------------------------------------------------------
(* Failures.                                                               *)

(* What is assumed of users and clients for it: settings.json can always   *)
(* be parsed.  (A malformed one is backed up as an empty one, and an empty *)
(* one is what a failed change puts back.)                                 *)
AlwaysParsable ==
    /\ Garbage \notin StartFiles["claude"]
    /\ \A file \in ClaudeFiles \ {Garbage} : Garbage \notin Edited("claude", file)

ParsableInv == TypeInv /\ files["claude"] # Garbage

LEMMA InitParsable == AlwaysParsable /\ Init => ParsableInv
<1> SUFFICES ASSUME AlwaysParsable, Init PROVE ParsableInv
  OBVIOUS
<1>1. files["claude"] # Garbage
  BY DEF AlwaysParsable, Init, Clients
<1>2. QED
  BY <1>1, InitType DEF ParsableInv

LEMMA ChangeParsable ==
    ASSUME ParsableInv, NEW c, NEW target, NEW change, NEW reg, IsChange(c, target, change, reg)
    PROVE  files'["claude"] # Garbage
<1>1. /\ c \in Clients /\ SoundChange(c, files[c], change) /\ Apply(c, target, change, reg)
      /\ c = "claude" => change.after # Garbage
  BY DEF IsChange
<1>2. /\ files \in [Clients -> ClaudeFiles \cup CodexFiles] /\ files[c] \in ClientFiles(c)
      /\ change.before \in ClientFiles(c) /\ Backs(c, files[c], change.before)
  BY <1>1 DEF ParsableInv, TypeInv, TypeOK, SoundChange
<1>3. PICK new : /\ files' = [files EXCEPT ![c] = new]
                 /\ new = change.after \/ new \in Left(c, files[c], change.before)
  BY <1>1, ApplyOutcome DEF ParsableInv, TypeInv
<1>4. CASE c = "codex"
  BY <1>2, <1>3, <1>4 DEF ParsableInv, Clients
<1>5. CASE c = "claude"
  <2>1. new \in Left(c, files[c], change.before) => new = files[c] \/ new = NoSettings
    BY <1>1, <1>2, <1>5, LeftForm
  <2>2. NoSettings # Garbage
    BY NoSettingsForm, FormsAssumption
  <2>3. new # Garbage
    BY <1>1, <1>3, <1>5, <2>1, <2>2 DEF ParsableInv
  <2>4. QED
    BY <1>1, <1>2, <1>3, <1>5, <2>3
<1>6. QED
  BY <1>1, <1>4, <1>5 DEF Clients

LEMMA NextParsable == AlwaysParsable /\ ParsableInv /\ [Next]_vars => ParsableInv'
<1> SUFFICES ASSUME AlwaysParsable, ParsableInv, [Next]_vars PROVE ParsableInv'
  OBVIOUS
<1>1. TypeInv /\ TypeInv' /\ files["claude"] # Garbage
  BY NextType DEF ParsableInv
<1>2. ASSUME NEW c \in Clients, Edit(c)
      PROVE  files'["claude"] # Garbage
  <2>1. PICK file \in Edited(c, files[c]) : files' = [files EXCEPT ![c] = file]
    BY <1>1, <1>2, EditOutcome
  <2>2. files["claude"] \in ClaudeFiles /\ files \in [Clients -> ClaudeFiles \cup CodexFiles]
    BY <1>1 DEF TypeInv, TypeOK, ClientFiles, Clients
  <2>3. c = "claude" => file # Garbage
    BY <1>1, <2>1, <2>2 DEF AlwaysParsable
  <2>4. QED
    BY <1>1, <2>1, <2>2, <2>3 DEF Clients
<1>3. ASSUME NEW n \in Names, NEW cs \in SUBSET Clients, NEW force, NEW overridden,
             Remove(n, cs, force, overridden)
      PROVE  files' = files
  BY <1>3 DEF Remove, RegistryOnly
<1>4. ASSUME NEW reg, RegistryOnly(reg)
      PROVE  files' = files
  BY <1>4 DEF RegistryOnly
<1>5. files'["claude"] # Garbage
  BY <1>1, <1>2, <1>3, <1>4, StepKinds, ChangeParsable
<1>6. QED
  BY <1>1, <1>5 DEF ParsableInv

LEMMA ChangeUnseen ==
    ASSUME ParsableInv, NEW c, NEW target, NEW change, NEW reg,
           IsChange(c, target, change, reg), failures' > failures,
           NEW d \in Clients
    PROVE  View(d, FALSE)' = View(d, FALSE)
<1>1. c \in Clients /\ SoundChange(c, files[c], change) /\ Apply(c, target, change, reg)
  BY DEF IsChange
<1>2. /\ files \in [Clients -> ClaudeFiles \cup CodexFiles] /\ files[c] \in ClientFiles(c)
      /\ change.before \in ClientFiles(c) /\ Backs(c, files[c], change.before)
      /\ failures \in Nat
  BY <1>1 DEF ParsableInv, TypeInv, TypeOK, SoundChange
<1>3. \/ failures' = failures
      \/ /\ registry' = registry
         /\ \E left \in Left(c, files[c], change.before) : files' = [files EXCEPT ![c] = left]
  BY <1>1, ApplyOutcome DEF ParsableInv, TypeInv
<1>4. PICK left \in Left(c, files[c], change.before) :
         registry' = registry /\ files' = [files EXCEPT ![c] = left]
  BY <1>2, <1>3
<1>5. Inspect(c, left, registry, FALSE) = Inspect(c, files[c], registry, FALSE)
  <2>1. c = "claude" => files[c] # Garbage
    BY DEF ParsableInv
  <2>2. \A overridden :
           Inspect(c, left, registry, overridden) = Inspect(c, files[c], registry, overridden)
    BY <1>1, <1>2, <2>1, LeftUnseen
  <2>3. QED
    BY <2>2
<1>6. files'[d] = IF d = c THEN left ELSE files[d]
  BY <1>2, <1>4
<1>7. Inspect(d, files'[d], registry', FALSE) = Inspect(d, files[d], registry, FALSE)
  BY <1>4, <1>5, <1>6
<1>8. QED
  BY <1>7 DEF View

(* A change of a client that fails leaves every client in the state it was *)
(* observed in, wherever it failed and though the backup does not say that *)
(* a file was missing: for any number of Providers, changes, edits and     *)
(* failures, where settings.json can always be parsed.                     *)
THEOREM FailuresAreUnseen ==
    ASSUME AlwaysParsable
    PROVE  Spec => FailureIsUnseen
<1>1. ASSUME ParsableInv, [Next]_vars
      PROVE  [failures' > failures => \A c \in Clients : View(c, FALSE)' = View(c, FALSE)]_vars
  <2>1. SUFFICES ASSUME failures' > failures, NEW c \in Clients
                 PROVE  View(c, FALSE)' = View(c, FALSE)
    OBVIOUS
  <2>2. failures' # failures /\ TypeInv
    BY <1>1, <2>1 DEF ParsableInv, TypeInv, TypeOK
  <2>3. ASSUME \/ \E reg : RegistryOnly(reg)
               \/ \E n \in Names, cs \in SUBSET Clients, force \in BOOLEAN, overridden \in BOOLEAN :
                     Remove(n, cs, force, overridden)
               \/ \E d \in Clients : Edit(d)
        PROVE  FALSE
    BY <2>2, <2>3 DEF RegistryOnly, Remove, Edit
  <2>4. \E d, target, change, reg : IsChange(d, target, change, reg)
    BY <1>1, <2>2, <2>3, StepKinds
  <2>5. QED
    BY <1>1, <2>1, <2>4, ChangeUnseen
<1>2. Init => ParsableInv
  BY InitParsable
<1>3. ParsableInv /\ [Next]_vars => ParsableInv'
  BY NextParsable
<1>4. QED
  BY <1>1, <1>2, <1>3, PTL DEF Spec, FailureIsUnseen

-----------------------------------------------------------------------------
(* The return of the official login.                                       *)

Held == {i \in 1 .. Len(snapshots) :
            /\ snapshots[i].client = "codex" /\ HasLogin(snapshots[i].files)
            /\ snapshots[i].state # "external_override"}

LEMMA HeldIsLogin ==
    ASSUME TypeInv
    PROVE  LoginSnapshots("codex") = Held
<1>1. \A i \in 1 .. Len(snapshots) :
         SnapshotOK(snapshots[i].client, snapshots[i].state, snapshots[i].files)
  BY DEF TypeInv, SnapshotInv
<1>2. \A i \in 1 .. Len(snapshots) :
         HoldsLogin(snapshots[i], "codex") <=>
            /\ snapshots[i].client = "codex" /\ HasLogin(snapshots[i].files)
            /\ snapshots[i].state # "external_override"
  BY <1>1 DEF HoldsLogin, SnapshotOK
<1>3. QED
  BY <1>2 DEF LoginSnapshots, Held

LEMMA LoginKept ==
    ASSUME TypeInv, NEW shared \in BOOLEAN, NEW overridden,
           OfficialChange("codex", shared, overridden) # Refused
    PROVE  LET after == OfficialChange("codex", shared, overridden).after IN
           IF HasLogin(files["codex"]) THEN after.auth = files["codex"].auth
           ELSE Held # {} => after.auth = snapshots[Newest(Held)].files.auth
<1> DEFINE file == files["codex"]
           change == OfficialChange("codex", shared, overridden)
           i == Newest(OfficialSnapshots("codex"))
           backup == snapshots[i].files
<1>1. file \in CodexFiles /\ "codex" \in Clients
  BY DEF TypeInv, TypeOK, ClientFiles, Clients
<1>2. CASE HasLogin(file)
  <2>1. change = CodexNative(file, shared, registry, overridden)
    BY <1>2 DEF OfficialChange
  <2>2. QED
    BY <1>1, <1>2, <2>1, CodexNativeSound
<1>3. CASE ~HasLogin(file) /\ Held # {}
  <2>1. OfficialSnapshots("codex") = Held /\ Held # {}
    BY <1>3, HeldIsLogin DEF OfficialSnapshots
  <2>2. backup \in CodexFiles /\ backup.config \in Configs
    BY <1>1, <2>1, OfficialSnapshot DEF ClientFiles
  <2>3. change = CodexRestore(file, backup, shared, registry, overridden)
    BY <1>3, <2>1 DEF OfficialChange, PrepareRestore
  <2>4. change.after.auth = backup.auth
    BY <1>1, <1>3, <2>2, <2>3, CodexRestoreSound
  <2>5. QED
    BY <1>3, <2>1, <2>4
<1>4. QED
  BY <1>2, <1>3

LEMMA ChangeReturns ==
    ASSUME TypeInv, NEW c, NEW target, NEW change, NEW reg, IsChange(c, target, change, reg),
           failures' = failures,
           snapshots'[Len(snapshots')].client = "codex",
           snapshots'[Len(snapshots')].target = None
    PROVE  IF HasLogin(files["codex"]) THEN files'["codex"].auth = files["codex"].auth
           ELSE Held # {} => files'["codex"].auth = snapshots[Newest(Held)].files.auth
<1>1. /\ c \in Clients /\ SoundChange(c, files[c], change) /\ Apply(c, target, change, reg)
      /\ \/ target \in Names
         \/ target = None /\ \E shared \in BOOLEAN, overridden \in BOOLEAN :
               change = OfficialChange(c, shared, overridden) /\ change # Refused
  BY DEF IsChange
<1>2. /\ files \in [Clients -> ClaudeFiles \cup CodexFiles]
      /\ snapshots \in Seq(Snapshots) /\ Len(snapshots) \in Nat /\ failures \in Nat
  BY DEF TypeInv, TypeOK
<1>3. /\ snapshots' = Append(snapshots, [client |-> c, target |-> target,
                                         state |-> change.state, files |-> change.before])
      /\ \/ files' = [files EXCEPT ![c] = change.after]
         \/ failures' = failures + 1
  BY <1>1, ApplyOutcome DEF TypeInv
<1>4. c = "codex" /\ target = None
  BY <1>2, <1>3
<1>5. files'["codex"] = change.after
  BY <1>2, <1>3, <1>4 DEF Clients
<1>6. PICK shared \in BOOLEAN, overridden \in BOOLEAN :
         change = OfficialChange("codex", shared, overridden) /\ change # Refused
  BY <1>1, <1>4, Marks
<1>7. QED
  BY <1>5, <1>6, LoginKept

(* switch official gives Codex the login it holds, or the last one that    *)
(* any command found there, whatever became of the command: for any number *)
(* of Providers, changes, edits and failures.                              *)
THEOREM LoginReturns == Spec => OfficialLoginReturns
<1> DEFINE Returns ==
              LET held == {i \in 1 .. Len(snapshots) :
                             /\ snapshots[i].client = "codex" /\ HasLogin(snapshots[i].files)
                             /\ snapshots[i].state # "external_override"}
                  last == snapshots'[Len(snapshots')] IN
              Len(snapshots') > Len(snapshots) /\ failures' = failures
              /\ last.client = "codex" /\ last.target = None =>
                 IF HasLogin(files["codex"])
                 THEN files'["codex"].auth = files["codex"].auth
                 ELSE held # {} =>
                         files'["codex"].auth = snapshots[Newest(held)].files.auth
<1>1. ASSUME TypeInv, [Next]_vars
      PROVE  [Returns]_vars
  <2>1. SUFFICES ASSUME Len(snapshots') > Len(snapshots), failures' = failures,
                        snapshots'[Len(snapshots')].client = "codex",
                        snapshots'[Len(snapshots')].target = None
                 PROVE  IF HasLogin(files["codex"])
                        THEN files'["codex"].auth = files["codex"].auth
                        ELSE Held # {} =>
                                files'["codex"].auth = snapshots[Newest(Held)].files.auth
    BY DEF Held
  <2>2. snapshots' # snapshots
    BY <1>1, <2>1 DEF TypeInv, TypeOK
  <2>3. ASSUME \/ \E reg : RegistryOnly(reg)
               \/ \E n \in Names, cs \in SUBSET Clients, force \in BOOLEAN, overridden \in BOOLEAN :
                     Remove(n, cs, force, overridden)
               \/ \E c \in Clients : Edit(c)
        PROVE  FALSE
    BY <2>2, <2>3 DEF RegistryOnly, Remove, Edit
  <2>4. \E c, target, change, reg : IsChange(c, target, change, reg)
    BY <1>1, <2>2, <2>3, StepKinds
  <2>5. QED
    BY <1>1, <2>1, <2>4, ChangeReturns
<1>2. Init => TypeInv
  BY InitType
<1>3. TypeInv /\ [Next]_vars => TypeInv'
  BY NextType
<1>4. QED
  BY <1>1, <1>2, <1>3, PTL DEF Spec, OfficialLoginReturns

-----------------------------------------------------------------------------
(* What remove leaves of what is observed.                                 *)

(* The choice from a set, by whatever expression the set is given.         *)
LEMMA SameChoice ==
    ASSUME NEW s, NEW t, s = t
    PROVE  (CHOOSE x \in s : TRUE) = (CHOOSE x \in t : TRUE)
BY Zenon

(* What the Provider behind the alias is made of.                          *)
LEMMA LogicalParts ==
    ASSUME NEW selector, NEW binding, NEW reg, NEW current, NEW candidates, NEW only,
           current = reg.current["codex"], candidates = BoundTo(reg, "codex", binding),
           only = CHOOSE n \in BoundTo(reg, "codex", binding) : TRUE
    PROVE  LogicalProvider(selector, binding, reg) =
              IF selector # Custom THEN selector
              ELSE IF current # None THEN current
              ELSE IF Cardinality(candidates) = 1 THEN only ELSE Custom
BY DEF LogicalProvider

(* A client that has the bindings and the current Provider it had.         *)
LEMMA SameReading ==
    ASSUME NEW c \in Clients, NEW file, NEW reg, NEW reg2, NEW overridden,
           reg2.current[c] = reg.current[c],
           \A m \in Names : Binding(reg2, m, c) = Binding(reg, m, c)
    PROVE  Inspect(c, file, reg2, overridden) = Inspect(c, file, reg, overridden)
<1>1. \A binding : BoundTo(reg2, c, binding) = BoundTo(reg, c, binding)
  BY DEF BoundTo
<1>2. CASE c = "claude"
  <2> DEFINE settings == IF file = Missing THEN NoSettings ELSE file
             matches == BoundTo(reg, "claude", settings)
             matches2 == BoundTo(reg2, "claude", settings)
  <2>1. matches2 = matches
    BY <1>1, <1>2
  <2>2. InspectClaude(file, reg2, overridden) = InspectClaude(file, reg, overridden)
    <3>1. (CHOOSE n \in matches2 : TRUE) = (CHOOSE n \in matches : TRUE)
      BY <2>1, SameChoice
    <3>2. QED
      BY <2>1, <3>1 DEF InspectClaude
  <2>3. QED
    BY <1>2, <2>2 DEF Inspect
<1>3. CASE c = "codex"
  <2>1. \A key : KeyRegistered(reg2, key) <=> KeyRegistered(reg, key)
    BY <1>3 DEF KeyRegistered
  <2>2. \A selector, binding :
           LogicalProvider(selector, binding, reg2) = LogicalProvider(selector, binding, reg)
    <3>1. SUFFICES ASSUME NEW selector, NEW binding
                   PROVE  LogicalProvider(selector, binding, reg2)
                          = LogicalProvider(selector, binding, reg)
      OBVIOUS
    <3>2. BoundTo(reg2, "codex", binding) = BoundTo(reg, "codex", binding)
      BY <1>1, <1>3
    <3>3. reg2.current["codex"] = reg.current["codex"]
      BY <1>3
    <3>4. (CHOOSE n \in BoundTo(reg2, "codex", binding) : TRUE)
          = (CHOOSE n \in BoundTo(reg, "codex", binding) : TRUE)
      BY <3>2, SameChoice
    <3>5. QED
      BY <3>2, <3>3, <3>4, LogicalParts
  <2>3. InspectCodex(file, reg2, overridden) = InspectCodex(file, reg, overridden)
    BY <1>1, <1>3, <2>1, <2>2 DEF InspectCodex
  <2>4. QED
    BY <1>3, <2>3 DEF Inspect
<1>4. QED
  BY <1>2, <1>3 DEF Clients

(* Nothing is certain of a client that the environment overrides.          *)
LEMMA CertainIsPlain ==
    ASSUME NEW c \in Clients, NEW overridden \in BOOLEAN, Certain(View(c, overridden))
    PROVE  ~overridden
<1>1. SUFFICES ASSUME overridden PROVE View(c, overridden).state \in {"unknown", "external_override"}
  BY DEF Certain
<1>2. View(c, overridden) \in {Observed("unknown"), Observed("external_override")}
  BY <1>1 DEF View, Inspect, InspectClaude, InspectCodex
<1>3. QED
  BY <1>2, ObservedFields

(* Settings that fit one binding do not fit that of another Provider.      *)
LEMMA OneMatch ==
    ASSUME NEW s \in SUBSET Names, ~(Cardinality(s) > 1), NEW n \in s
    PROVE  s = {n}
<1>1. IsFiniteSet(s) /\ Cardinality(s) \in Nat
  BY NamesAssumption, FS_Subset, FS_CardinalityType
<1>2. Cardinality(s) = 1
  <2>1. Cardinality(s) # 0
    BY <1>1, FS_EmptySet
  <2>2. QED
    BY <1>1, <2>1
<1>3. \E x : s = {x}
  BY <1>1, <1>2, FS_Singleton
<1>4. QED
  BY <1>3

LEMMA RemovedFromClaude ==
    ASSUME TypeInv, NEW n \in Names, NEW reg,
           LET view == View("claude", FALSE) IN
              Certain(view) /\ (view.state = "custom" => view.provider # None) /\ InUse(view) # n,
           \A m \in Names : m # n => Binding(reg, m, "claude") = Binding(registry, m, "claude"),
           Binding(reg, n, "claude") = None
    PROVE  Inspect("claude", files["claude"], reg, FALSE) = View("claude", FALSE)
<1> DEFINE file == files["claude"]
           settings == IF file = Missing THEN NoSettings ELSE file
           old == BoundTo(registry, "claude", settings)
           new == BoundTo(reg, "claude", settings)
           view == View("claude", FALSE)
<1>1. view = InspectClaude(file, registry, FALSE)
  BY DEF View, Inspect
<1>2. CASE file \in {Garbage, Odd} \/ settings.url = None
  BY <1>1, <1>2 DEF Inspect, InspectClaude
<1>3. CASE file \notin {Garbage, Odd} /\ settings.url # None
  <2>1. /\ settings.key # None /\ ~(Cardinality(old) > 1)
        /\ view = ObservedCustom(IF old = {} THEN None ELSE CHOOSE m \in old : TRUE)
    BY <1>1, <1>3, ObservedFields DEF InspectClaude, Certain
  <2>2. /\ old # {} /\ (CHOOSE m \in old : TRUE) # n
    BY <2>1, ObservedFields DEF InUse
  <2>3. n \notin old
    <3>1. old \subseteq Names
      BY DEF BoundTo
    <3>2. n \in old => old = {n}
      BY <2>1, <3>1, OneMatch
    <3>3. QED
      BY <2>2, <3>2
  <2>4. settings # None
    <3>1. file \in ClaudeFiles
      BY DEF TypeInv, TypeOK, ClientFiles, Clients
    <3>2. settings \in Settings
      BY <1>3, <3>1, NoSettingsForm DEF ClaudeFiles
    <3>3. QED
      BY <3>2, FormsAssumption DEF Settings
  <2>5. new = old
    BY <2>3, <2>4 DEF BoundTo
  <2>6. InspectClaude(file, reg, FALSE) = view
    BY <1>1, <2>5 DEF InspectClaude
  <2>7. QED
    BY <2>6 DEF Inspect
<1>4. QED
  BY <1>2, <1>3

LEMMA RemovedFromCodex ==
    ASSUME TypeInv, NEW n \in Names, NEW reg, reg.current["codex"] = registry.current["codex"],
           LET view == View("codex", FALSE) IN
              /\ Certain(view) /\ InUse(view) # n
              /\ registry.current["codex"] = InUse(view),
           \A m \in Names : m # n => Binding(reg, m, "codex") = Binding(registry, m, "codex"),
           Binding(reg, n, "codex") = None
    PROVE  Inspect("codex", files["codex"], reg, FALSE) = View("codex", FALSE)
<1> DEFINE file == files["codex"]
           selector == Selected(file.config)
           table == IF selector = OpenAI THEN None ELSE file.config.tables[selector]
           binding == [url |-> table, key |-> file.auth]
           m == LogicalProvider(selector, binding, registry)
           view == View("codex", FALSE)
<1>1. view = InspectCodex(file, registry, FALSE) /\ view.state # "unknown"
  BY DEF View, Inspect, Certain
<1>2. /\ Readable(file) /\ ~(selector # OpenAI /\ table = None)
      /\ \/ HasLogin(file) /\ (selector = OpenAI \/ (selector = Custom /\ table = Official))
         \/ ~HasLogin(file) /\ file.auth \in Keys /\ selector = OpenAI
            /\ ~KeyRegistered(registry, file.auth)
         \/ ~HasLogin(file) /\ file.auth \in Keys /\ selector # OpenAI
            /\ m \in BoundTo(registry, "codex", binding) /\ view = ObservedCustom(m)
  BY <1>1, ObservedFields DEF InspectCodex
<1>3. CASE HasLogin(file)
  BY <1>1, <1>2, <1>3 DEF Inspect, InspectCodex
<1>4. CASE ~HasLogin(file) /\ selector = OpenAI
  <2>1. ~KeyRegistered(registry, file.auth)
    BY <1>2, <1>4
  <2>2. ~KeyRegistered(reg, file.auth)
    BY <2>1 DEF KeyRegistered
  <2>3. QED
    BY <1>1, <1>2, <1>4, <2>1, <2>2 DEF Inspect, InspectCodex
<1>5. CASE ~HasLogin(file) /\ selector # OpenAI
  <2>1. /\ m \in BoundTo(registry, "codex", binding) /\ view = ObservedCustom(m)
        /\ file.auth \in Keys
    BY <1>2, <1>5
  <2>2. m \in Names /\ m # n /\ registry.current["codex"] = m /\ m # None
    <3>1. m \in Names
      BY <2>1 DEF BoundTo
    <3> HIDE DEF m, view
    <3>2. view.state = "custom" /\ view.provider = m
      BY <2>1, ObservedFields
    <3>3. InUse(view) = m
      BY <3>2 DEF InUse
    <3>4. InUse(view) # n /\ registry.current["codex"] = InUse(view)
      BY DEF view
    <3>5. QED
      BY <3>1, <3>3, <3>4, Marks
  <2>3. LogicalProvider(selector, binding, reg) = m
    BY <2>2 DEF LogicalProvider
  <2>4. m \in BoundTo(reg, "codex", binding)
    BY <2>1, <2>2 DEF BoundTo
  <2>5. InspectCodex(file, reg, FALSE) = ObservedCustom(m)
    BY <1>2, <1>5, <2>1, <2>3, <2>4 DEF InspectCodex
  <2>6. QED
    BY <2>1, <2>5 DEF Inspect
<1>6. QED
  BY <1>3, <1>4, <1>5

LEMMA RemoveUnseen ==
    ASSUME TypeInv, NEW n \in Names, NEW cs \in SUBSET Clients, NEW force,
           NEW overridden \in BOOLEAN, Remove(n, cs, force, overridden), NEW c \in Clients
    PROVE  View(c, FALSE)' = View(c, FALSE)
<1> DEFINE reg == Removed(n, cs)
<1>1. /\ RegistryOnly(reg)
      /\ \A m \in Names, d \in Clients :
            Binding(reg, m, d) = IF m = n /\ d \in cs THEN None ELSE Binding(registry, m, d)
      /\ \A d \in Clients : reg.current[d] = registry.current[d]
      /\ \A d \in cs : Binding(registry, n, d) # None => NotInUse(d, n, overridden)
  BY RemoveFacts
<1>2. registry' = reg /\ files' = files
  BY <1>1 DEF RegistryOnly
<1> HIDE DEF reg
<1>3. CASE c \notin cs \/ Binding(registry, n, c) = None
  <2>1. \A m \in Names : Binding(reg, m, c) = Binding(registry, m, c)
    BY <1>1, <1>3
  <2>2. \A o : Inspect(c, files[c], reg, o) = Inspect(c, files[c], registry, o)
    BY <1>1, <2>1, SameReading
  <2>3. QED
    BY <1>2, <2>2 DEF View
<1>4. CASE c \in cs /\ Binding(registry, n, c) # None
  <2> DEFINE view == View(c, overridden)
  <2>1. /\ Certain(view) /\ (view.state = "custom" => view.provider # None)
        /\ InUse(view) # n /\ registry.current[c] = InUse(view)
    BY <1>1, <1>4 DEF NotInUse
  <2>2. overridden = FALSE
    BY <2>1, CertainIsPlain
  <2>3. /\ \A m \in Names : m # n => Binding(reg, m, c) = Binding(registry, m, c)
        /\ Binding(reg, n, c) = None
    BY <1>1, <1>4
  <2>4. Inspect(c, files[c], reg, FALSE) = View(c, FALSE)
    <3>1. CASE c = "claude"
      BY <2>1, <2>2, <2>3, <3>1, RemovedFromClaude
    <3>2. CASE c = "codex"
      BY <1>1, <2>1, <2>2, <2>3, <3>2, RemovedFromCodex
    <3>3. QED
      BY <3>1, <3>2 DEF Clients
  <2>5. QED
    BY <1>2, <2>4 DEF View
<1>5. QED
  BY <1>3, <1>4

(* remove changes nothing of what any client is observed to use, whatever  *)
(* users have made of the files: for any number of Providers, changes,     *)
(* edits and failures.                                                     *)
THEOREM RemovalsAreUnseen == Spec => RemoveIsUnseen
<1> DEFINE Lost == \E n \in Names, c \in Clients :
                      Binding(registry, n, c) # None /\ Binding(registry', n, c) = None
<1>1. ASSUME TypeInv, [Next]_vars
      PROVE  [Lost => \A c \in Clients : View(c, FALSE)' = View(c, FALSE)]_vars
  <2>1. SUFFICES ASSUME Lost, NEW c \in Clients
                 PROVE  View(c, FALSE)' = View(c, FALSE)
    OBVIOUS
  <2>2. ~NoBindingLost(registry')
    BY <2>1 DEF NoBindingLost
  <2>3. ASSUME NEW reg, NoBindingLost(reg),
               RegistryOnly(reg) \/ \E d, target, change : IsChange(d, target, change, reg)
        PROVE  FALSE
    <3>1. registry' = reg \/ registry' = registry
      BY <2>3 DEF RegistryOnly, IsChange, Apply
    <3>2. QED
      BY <2>2, <2>3, <3>1 DEF NoBindingLost
  <2>4. ASSUME (\E d \in Clients : Edit(d)) \/ registry' = registry
        PROVE  FALSE
    BY <2>2, <2>4 DEF Edit, NoBindingLost
  <2>5. PICK n \in Names, cs \in SUBSET Clients, force \in BOOLEAN, overridden \in BOOLEAN :
           Remove(n, cs, force, overridden)
    BY <1>1, <2>3, <2>4, StepKinds
  <2>6. QED
    BY <1>1, <2>5, RemoveUnseen
<1>2. Init => TypeInv
  BY InitType
<1>3. TypeInv /\ [Next]_vars => TypeInv'
  BY NextType
<1>4. QED
  BY <1>1, <1>2, <1>3, PTL DEF Spec, RemoveIsUnseen
===============================================================================
