----------------------------- MODULE ClientConfig -----------------------------
(***************************************************************************)
(* What Codelux reads in the files of its two clients and what it writes   *)
(* into them (src/codelux/adapters), as operators without state.           *)
(*                                                                         *)
(* Claude: settings.json, of which the base URL and the token are owned.   *)
(* Codex: config.toml, of which the selector and one [model_providers.x]   *)
(* table are owned, and auth.json.  A line that assigns `model_provider`   *)
(* inside some other table (a profile) is `inner`: the parser passes over  *)
(* it, the patcher finds it.                                               *)
(*                                                                         *)
(* A binding is one that `add` makes: enabled, with the wire_api and       *)
(* requires_openai_auth every Codex binding has.                           *)
(***************************************************************************)
EXTENDS Integers, FiniteSets

CONSTANTS
    Names,      \* of Providers
    Urls,       \* base URLs, the official one not among them
    Keys,       \* API keys
    Logins,     \* ChatGPT logins
    Custom,     \* "custom", the alias all Providers share
    OpenAI,     \* "openai", the built-in Provider
    None,       \* nothing there
    Official,   \* the table of the official alias: no base_url, named OpenAI
    Partial,    \* a table that lacks owned fields
    Missing,    \* the file does not exist
    Garbage,    \* it cannot be parsed (an empty auth.json is one)
    Odd,        \* it can, and is of no form Codelux knows
    Refused     \* a ValidationError

ASSUME DistinctAssumption ==
    LET marks == <<Custom, OpenAI, None, Official, Partial, Missing, Garbage, Odd, Refused>> IN
    /\ \A i, j \in 1 .. 9 : marks[i] = marks[j] => i = j
    /\ \A i \in 1 .. 9 : marks[i] \notin Names \cup Urls \cup Keys \cup Logins
    /\ Keys \cap Logins = {}

ASSUME NamesAssumption == IsFiniteSet(Names)

Clients == {"claude", "codex"}

Bindings == [url : Urls, key : Keys]

(* A Provider is registered when it has a binding for some client.         *)
Registries ==
    [providers : [Names -> [Clients -> Bindings \cup {None}]],
     current : [Clients -> Names \cup {None}]]

Binding(registry, n, c) == registry.providers[n][c]

(* The clients it is registered for; none when it is not registered.       *)
BoundClients(registry, n) == {c \in Clients : Binding(registry, n, c) # None}

(* The Providers of client c that have this binding.                       *)
BoundTo(registry, c, binding) == {n \in Names : Binding(registry, n, c) = binding}

(* Registry.__post_init__: `current` names a registered client binding.    *)
ValidRegistry(registry) ==
    /\ registry \in Registries
    /\ \A c \in Clients :
          registry.current[c] # None => Binding(registry, registry.current[c], c) # None

-----------------------------------------------------------------------------
Settings == [url : Urls \cup {None}, key : Keys \cup {None}]

ClaudeFiles == Settings \cup {Missing, Garbage, Odd}

Aliases == Names \cup {Custom}

Selectors == Aliases \cup {OpenAI, None}

Configs ==
    [root : Selectors, inner : Selectors,
     tables : [Aliases -> Urls \cup {None, Official, Partial}]]

CodexFiles ==
    [config : Configs \cup {Missing, Garbage},
     auth : Keys \cup Logins \cup {Missing, Garbage, Odd}]

ClientFiles(c) == IF c = "claude" THEN ClaudeFiles ELSE CodexFiles

(* What stands for the absence of a record is not one.                     *)
ASSUME FormsAssumption ==
    /\ None \notin [url : Urls \cup {None, Official, Partial}, key : Keys \cup {None}]
    /\ {Missing, Garbage, Odd} \cap Settings = {}
    /\ {Missing, Garbage} \cap Configs = {}

NoSettings == [url |-> None, key |-> None]

NoConfig == [root |-> None, inner |-> None, tables |-> [a \in Aliases |-> None]]

ConfigStates ==
    {"official_login", "official_api_key", "custom", "external_override", "unknown"}

OfficialStates == {"official_login", "official_api_key"}

(* ObservedConfig; the Provider is of use for state "custom" only.         *)
Observed(state) == [state |-> state, provider |-> None]

ObservedCustom(n) == [state |-> "custom", provider |-> n]

(* ClaudeAdapter.inspect.  `overridden`: the environment sets one of the   *)
(* variables, and not to what the file says.                               *)
InspectClaude(file, registry, overridden) ==
    LET settings == IF file = Missing THEN NoSettings ELSE file
        matches == BoundTo(registry, "claude", settings) IN
    IF file \in {Garbage, Odd} THEN Observed("unknown")
    ELSE IF overridden THEN Observed("external_override")
    ELSE IF settings.url # None
    THEN IF settings.key = None \/ Cardinality(matches) > 1 THEN Observed("unknown")
         ELSE ObservedCustom(IF matches = {} THEN None ELSE CHOOSE n \in matches : TRUE)
    ELSE IF settings.key # None THEN Observed("official_api_key")
    ELSE Observed("official_login")

(* _parse_config: an absent selector is the official default.              *)
Selected(config) == IF config.root = None THEN OpenAI ELSE config.root

HasLogin(file) == file.auth \in Logins

Readable(file) == file.config \notin {Missing, Garbage} /\ file.auth \notin {Missing, Garbage}

Fresh(file) == file.config = Missing /\ file.auth = Missing

KeyRegistered(registry, key) ==
    \E n \in Names : Binding(registry, n, "codex") # None /\ Binding(registry, n, "codex").key = key

(* The Provider behind the alias: the current one, whatever the table      *)
(* says, or the only one that fits.                                        *)
LogicalProvider(selector, binding, registry) ==
    LET current == registry.current["codex"]
        candidates == BoundTo(registry, "codex", binding) IN
    IF selector # Custom THEN selector
    ELSE IF current # None THEN current
    ELSE IF Cardinality(candidates) = 1 THEN CHOOSE n \in candidates : TRUE
    ELSE Custom

(* CodexAdapter.inspect.                                                   *)
InspectCodex(file, registry, overridden) ==
    IF ~Readable(file) THEN Observed("unknown")
    ELSE LET selector == Selected(file.config)
             table == IF selector = OpenAI THEN None ELSE file.config.tables[selector]
             binding == [url |-> table, key |-> file.auth]
             n == LogicalProvider(selector, binding, registry) IN
         IF selector # OpenAI /\ table = None THEN Observed("unknown")
         ELSE IF overridden THEN Observed("external_override")
         ELSE IF HasLogin(file)
         THEN IF selector = OpenAI \/ (selector = Custom /\ table = Official)
              THEN Observed("official_login") ELSE Observed("unknown")
         ELSE IF file.auth \notin Keys THEN Observed("unknown")
         ELSE IF selector = OpenAI
         THEN IF KeyRegistered(registry, file.auth)
              THEN Observed("unknown") ELSE Observed("official_api_key")
         ELSE IF n \in BoundTo(registry, "codex", binding) THEN ObservedCustom(n)
         ELSE Observed("unknown")

Inspect(c, file, registry, overridden) ==
    IF c = "claude" THEN InspectClaude(file, registry, overridden)
    ELSE InspectCodex(file, registry, overridden)

-----------------------------------------------------------------------------
(* A PreparedChange: what is backed up, what is written, and the state     *)
(* that the manifest will say the client was in.                           *)
Change(before, after, state) == [before |-> before, after |-> after, state |-> state]

(* ClaudeAdapter.prepare_provider: settings that cannot be parsed count as *)
(* empty ones.                                                             *)
ClaudeProvider(file, binding, registry, overridden) ==
    IF file = Odd THEN Refused
    ELSE Change(IF file \in {Missing, Garbage} THEN NoSettings ELSE file,
                binding, InspectClaude(file, registry, overridden).state)

(* prepare_native_official_login.                                          *)
ClaudeNative(file, registry, overridden) ==
    IF file \in {Garbage, Odd} THEN Refused
    ELSE Change(IF file = Missing THEN NoSettings ELSE file,
                NoSettings, InspectClaude(file, registry, overridden).state)

(* prepare_snapshot_restore.                                               *)
ClaudeRestore(file, backup, registry, overridden) ==
    Change(IF file = Missing THEN NoSettings ELSE file,
           backup, InspectClaude(file, registry, overridden).state)

(* _set_model_provider, and the same in _patch_config: the line that       *)
(* assigns a selector is rewritten, in whichever table it stands.          *)
Selecting(config, selector) ==
    IF config.root # None /\ config.inner # None THEN Refused
    ELSE IF config.inner # None THEN [config EXCEPT !.inner = selector]
    ELSE [config EXCEPT !.root = selector]

(* _patch_config.  A table that is there is rewritten, if it has all the   *)
(* owned fields; then the first line that assigns a selector is, and the   *)
(* summary of everything else must be what it was.                         *)
PatchConfig(config, alias, url) ==
    LET table == config.tables[alias]
        written == [config EXCEPT !.tables[alias] = url] IN
    IF table = None THEN Selecting(written, alias)
    ELSE IF table = Partial \/ (table = Official /\ alias # Custom) THEN Refused
    ELSE IF config.root # None \/ config.inner = None THEN [written EXCEPT !.root = alias]
    ELSE IF config.inner = alias THEN written
    ELSE Refused

(* _configure_official_config.                                             *)
OfficialConfig(config, shared) ==
    LET selected == Selecting(config, Custom) IN
    IF ~shared THEN Selecting(config, OpenAI)
    ELSE IF selected = Refused THEN Refused
    ELSE IF selected.root # Custom THEN Refused
    ELSE [selected EXCEPT !.tables[Custom] = Official]

(* A login that is about to be replaced is recorded as one, whatever the   *)
(* config beside it says.                                                  *)
RecordedState(file, registry, overridden) ==
    LET state == InspectCodex(file, registry, overridden).state IN
    IF state # "external_override" /\ HasLogin(file) THEN "official_login" ELSE state

(* CodexAdapter.prepare_provider.                                          *)
CodexProvider(file, n, binding, shared, registry, overridden) ==
    LET before == IF Fresh(file) THEN [config |-> NoConfig, auth |-> Garbage] ELSE file
        config == PatchConfig(before.config, IF shared THEN Custom ELSE n, binding.url) IN
    IF ~Readable(file) /\ ~Fresh(file) THEN Refused
    ELSE IF config = Refused THEN Refused
    ELSE Change(before, [config |-> config, auth |-> binding.key],
                RecordedState(file, registry, overridden))

(* prepare_native_official_restore: auth.json stays.                       *)
CodexNative(file, shared, registry, overridden) ==
    IF ~Readable(file) \/ ~HasLogin(file) THEN Refused
    ELSE LET config == OfficialConfig(file.config, shared) IN
         IF config = Refused THEN Refused
         ELSE Change(file, [file EXCEPT !.config = config],
                     InspectCodex(file, registry, overridden).state)

(* prepare_snapshot_restore.                                               *)
CodexRestore(file, backup, shared, registry, overridden) ==
    LET config == IF HasLogin(backup) THEN OfficialConfig(backup.config, shared)
                                      ELSE backup.config IN
    IF file.config = Missing \/ file.auth = Missing \/ config = Refused THEN Refused
    ELSE Change(file, [backup EXCEPT !.config = config],
                InspectCodex(file, registry, overridden).state)

PrepareProvider(c, file, n, binding, shared, registry, overridden) ==
    IF c = "claude" THEN ClaudeProvider(file, binding, registry, overridden)
    ELSE CodexProvider(file, n, binding, shared, registry, overridden)

PrepareRestore(c, file, backup, shared, registry, overridden) ==
    IF c = "claude" THEN ClaudeRestore(file, backup, registry, overridden)
    ELSE CodexRestore(file, backup, shared, registry, overridden)
===============================================================================
