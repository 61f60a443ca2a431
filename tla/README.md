# Codelux, verified

A TLA+ development of [Codelux](../src/README.md), a command-line manager that
rewrites the configuration of two AI clients (Claude Code and OpenAI Codex),
keeps a registry of Providers, and moves Providers, sessions and project
environments between machines. The program's promise is conservative: a change
happens completely or is undone or is *reported as needing recovery*; it never
silently leaves a client half-configured. The modules here state that promise,
TLC checks it on small instances, and TLAPS proves it for any instance of each
of the five machines: switches and their recovery, imports, merges of sessions,
pushes over SSH, and the Provider commands. Liveness is left to TLC.

Paths below are relative to the repository (`src/codelux/...` is
`src/src/codelux/...` from the directory above this one).

## 1. Inventory

| Component | State it keeps | Operations | Interacts with |
| --- | --- | --- | --- |
| **Safe files** `safe_files.py` | none | `atomic_write_private`: temp file, fsync, `os.replace`, chmod, directory fsync | every durable write below |
| **Operation lock** `locking.py` | the `flock` on `operation.lock` | `__enter__` (non-blocking), `__exit__` | every writing command, through `cli._locked` |
| **Snapshot store** `snapshots.py`, `models.py` | `backups/<op>/manifest.json` with backups, `recovery.json`; a second store `sync-transactions/` for sync and sessions | `create`, `update_client_state`, `update_file_state`, `set_operation_state`, `write_recovery`, `require_recovery`, `recover`, `discard`, `prune_finalized` | coordinator, CLI, session merge, sync import |
| **Transaction coordinator** `coordinator.py` | only local variables (`committed`, `failed_clients`, the manifest as last written) | `commit_all` | snapshot store, adapters |
| **Client adapters** `adapters/claude.py`, `adapters/codex.py` | `settings.json`; `config.toml` and `auth.json` | `inspect`, `prepare_*`, `commit`, `rollback`, `is_running` | coordinator, CLI, recovery |
| **Registry** `registry.py`, `registry_io.py` | `providers.json`: Providers, their bindings, `current` per client | load, validate, save | every Provider command, sync import |
| **Provider commands** `cli.py` | none of their own | `add`, `update`, `remove`, `switch`, `switch official`, `list`, `status`, `doctor` | all of the above |
| **Recovery gate** `cli.py` `_locked`, `recover` | reads `recovery.json` and the manifests | refuse, require recovery, recover | lock, snapshot store |
| **Session merge** `sessions.py`, `cli.sessions_merge` | Codex session files and its SQLite state | prepare, commit, rollback | snapshot store (`sync-transactions`) |
| **Sync archive and import** `sync.py` | baselines, machine id, the target's files | `collect_files`, `build_manifest`, `apply_import` (three-way conflicts, commit, compensation) | snapshot store, registry |
| **Sync transport** `sync_transport.py`, `cli.sync_push/pull/transport` | the connection; a temporarily standardised source registry | capability preflight, `push_archive`, `pull_archive`, receive | SSH peer, sync import |
| **Release scripts** `scripts/`, `.github/` | build artefacts | packaging checks | none of the above |

What is hard about each of them:

* **Every write may fail on either side of its effect.** `atomic_write_private`
  raises when the directory fsync or the chmod fails, *after* `os.replace` has
  put the new content in place. Callers treat every exception as "not written".
* **The process may die between any two writes.** What the next command finds is
  a combination of manifest states, file states, `recovery.json`, client files
  and registry that no single function wrote.
* **Compensation can fail half-way**, in three different loops: inside
  `CodexAdapter.commit` (two files), in `commit_all` (several clients) and in
  `_save_registry_after_switch`, each with its own idea of which client to flag
  and when.
* **Recovery selects by recorded state.** `recover` restores only files marked
  `modified` or `recovery_required`; a wrong mark is a file left behind.
* **Two sources of truth.** `providers.json` and the client files are written by
  separate writes, the manifest becomes `committed` in between.
* **Concurrency** is between processes only, through a fail-fast `flock`;
  the clients themselves (Claude, Codex) write the same files and are excluded
  only by a process check made earlier.
* **Synchronisation** adds the network: a lost acknowledgement after a remote
  commit, a truncated archive, a baseline that is stale when it is compared.

What makes each component correct:

* lock: at most one process inside a locked command;
* snapshot store: an unfinished operation is never hidden by a later one;
  a final state (`committed`, `rolled_back`) is true of the files when written;
* coordinator and adapters: a client whose files disagree is always one that
  recovery will still repair; a switch is atomic as seen through recovery;
* recovery: it skips no file it ought to restore, it always terminates in a
  recovered store, it may be killed and repeated;
* gate: no operation starts on top of one that is owed;
* registry: with nothing running and nothing owed it names what the clients use;
* sync import: a target changed since the last baseline is never overwritten
  without permission; baseline, target and registry move together or not at all;
* transport: an archive is applied at most once per acknowledged push, never
  from a truncated stream, and the source registry is the one it was before.

## 2. Modules

| Module | What it is |
| --- | --- |
| `SnapshotStore` | the data of the operation store: manifests, file and operation states, `latest_incomplete` |
| `ProviderTransaction` | the core: lock, gate, `switch` (and the activating half of `add` and `update`) write by write, compensation, `recover`, crashes |
| `AtomicSwitch` | what a switch promises: all clients change at one moment or none does |
| `SyncImport` | `apply_import` over the second store, pruning, baselines, recovery of an import |
| `AtomicImport` | what an import promises: files and baseline move together or not at all |
| `SessionMerge` | `sessions merge` over the same store (an `INSTANCE` of `SyncImport`), with SQLite and its write-ahead log |
| `AtomicMerge` | what a merge promises: all records of the history change together or none does |
| `ClientConfig` | the adapters without state: what `inspect` makes of files, what every `prepare_*` makes of them |
| `ProviderLifecycle` | `add`, `update`, `remove`, `switch`, `switch official` over registry, client files and snapshots, with edits by users and clients |
| `SyncTransport` | `sync push`: source, connection, target, both protocols, failures of each |
| `OrderedDelivery` | what pushing promises: each transfer whole, at most once, in order, truthfully reported |
| `ProviderTransaction_proofs`, `SwitchRecovery_proofs`, `RegistryAgreement_proofs` | proofs about the core: lock, gate and order of operations; then files against manifests, recovery, the refinement of `AtomicSwitch`; then `providers.json` against files |
| `SyncImport_proofs`, `SessionMerge_proofs`, `SyncTransport_proofs` | proofs about imports, merges and pushes, their refinements included |
| `ProviderLifecycle_proofs` | proofs about the Provider commands, with lemmas about the operators of `ClientConfig` |
| `Extrema` | two lemmas: a set of numbers has a least and, when bounded, a greatest element |
| `MC...` | instances for TLC |

The refinement mappings onto `AtomicSwitch`, `AtomicImport` and `AtomicMerge`
stand at the end of `ProviderTransaction`, `SyncImport` and `SessionMerge`, so
that the runs and the proofs speak of the same one.

How they compose. The commands of `ProviderLifecycle` change a client in one
step; `ProviderTransaction` takes that step write by write, and
`SwitchIsAtomic` is what makes the one-step view sound. In the same way
`SyncTransport` applies an archive in one step, and `SyncImport` with
`ImportIsAtomic` is the step in detail. `SessionMerge` runs the store and the
recovery of `SyncImport` itself: its own steps are those of `cli.sessions_merge`
and `sessions.py`, pruning, creation, discarding and recovery are
`Store!Prune`, `Store!CreateManifest`, `Store!Discard`, `Store!Recover`.

What is left to do: `sync pull`.

## 3. How the models correspond to the code

### 3.1 One durable write, one step

Both machines take one step per *durable write*. `Outcomes(kinds)` gives the
outcomes of a write: `"ok"`; `"early"`, `atomic_write_private` raised before
`os.replace` and the target is as it was; `"late"`, it raised in the `chmod` or
the directory fsync after it, and the target holds the new content although the
caller sees an exception. Which kinds each store can suffer is a constant
(`ClientFaults`, `StoreFaults`, ...), so that a run can say exactly which
failures it assumes away. `Crash` may follow any step: volatile state (the
process's `job`) is lost, files and manifests stay, and the operating system
drops the `flock`.

Between two durable writes a process only computes, so what it reads is read in
the same step as the decision taken from it. This is sound because commands
exclude each other (proved: `MutualExclusionHolds`).

### 3.2 `ProviderTransaction`

| State | Code |
| --- | --- |
| `disk[<<c, j>>]` | the client's files: `settings.json`; `config.toml` (1) and `auth.json` (2). A content is the Provider whose configuration the file holds; a Provider whose binding was updated counts as another content |
| `current` | `current` in `providers.json` |
| `manifests` | `backups/<op>/manifest.json`, numbered by `created_at` |
| `recovery` | `recovery.json` |
| `lock` | holder of the `flock` |
| `job[p]` | the local variables of a process: next step, manifest as last written, position in `changes`/`committed`, `failed_clients` |

The labels follow the code: `gate` (`_locked`), `prepare` and `create`
(`prepare_*`, `SnapshotStore.create`), `begin`, `commit`, `undo`, `mark`,
`finish` (`commit_all` and the adapters), `save` (`_save_registry_after_switch`),
`rollback`, `markBack`, `flagClient`, `flagFailed`, `report`, `settle` (the three
compensations), `flagFiles`, `flagOperation`, `flagRecord` (`require_recovery`),
`check`, `restore`, `settleFiles`, `settleOperation`, `clear` (`recover`).

The three compensations differ in the code and so in the model. In
`CodexAdapter.commit` only `config.toml` is put back and only when `auth.json`
failed. `commit_all` collects the failed clients and flags them at the end;
`_save_registry_after_switch` flags each at once, and starts from the manifest
that `create` returned, not from the one last written.

Any reason to refuse before something is written (unknown Provider, a running
client, overridden configuration, an unreadable registry) is `Refuse`; when
`recover` finds a running client it is `RefuseRecover`.

### 3.3 `SyncImport`

| State | Code |
| --- | --- |
| `disk[p]`, `p` in `Paths` | the target file of logical path `p` (`_logical_target`) |
| `disk[StateItem]` | `sync-state.json`: for each source (machine and selection, `_baseline_key`) the hashes the last import left |
| `journal[p]` | a `-wal` file beside the database |
| `store` | `sync-transactions/<op>/`; `remains` says whether the manifest can still be read |
| `job` | the locals of `apply_import` or `recover`: `operation`, the index, `recovery_failed` |

`StartImport` is everything `apply_import` does before its first write: the
conflict rule, the merged contents, the new baseline, the list of changed items.
Content and hash are not distinguished (SHA-256 is taken to be injective), nor
are a file's content and its permission bits. The Codex user configuration,
which is compared after sanitising, counts as the part that is compared. What a
`Merged` file receives is left open: it may be any content.
`Retreat`/`Undo` is the loop over `reversed(modified)`; an item is counted as
modified before its write, as in the code.

Commands exclude each other, so there is one `job`. A command that finds an
unfinished operation flags it and ends (`GateIncomplete`); `recover` goes on
afterwards, which is the same as being started again. `Environment` is what
happens between commands: users and clients change files, `sync reset` and
`sync machine-id rotate` forget baselines.

### 3.4 `SessionMerge`

| State | Code |
| --- | --- |
| `disk[t]` | the Provider in the `session_meta` line of thread `t`'s `.jsonl` file |
| `disk[Database]` | the table `threads` as the main file of `state_5.sqlite` holds it |
| `log` | the table as a `-wal` file beside the main file gives it |
| `held` | a log that connections of the running command still hold open |
| `store`, `recovery`, `job` | as in `SyncImport` |

`StartMerge` is `prepare` (`sessions.py` 32-78, with 103-185): every representation is read
and rewritten in memory. The steps that follow are the durable writes of
`cli.sessions_merge`: `BeginMerge`, `Intend` (all items marked before the first
is written), `Unlink` and `WriteHistory` (`_write`), `Finish`; and on a failure
`Unlink` and `PutBack` (`manager.rollback`), `Unmark`, `Settle`. SQLite is
external and modelled from its use: `Connection.backup` copies what a reader
sees and the header with it, and closing the last connection checkpoints the
log, also one that was unlinked meanwhile.

### 3.5 `ClientConfig` and `ProviderLifecycle`

| State | Code |
| --- | --- |
| `registry` | `providers.json`: a binding or none for each Provider and client; `current` |
| `files["claude"]` | the two owned fields of `settings.json`, or missing, malformed, of an unknown form |
| `files["codex"]` | `config.toml`: the root selector, a selector inside another table (`inner`), and for each alias what its table holds; `auth.json`: a key, a login, or neither |
| `snapshots` | `backups/`: target, recorded state and backup of each change, also of those that failed |
| `asked` | a command that waits for its prompts to be answered |
| `clean[c]` | (for the properties) no edit of client `c` since a command set it up |

`Inspect` is `inspect`, clause by clause, with the resolution of the shared
alias through `registry.current` (`LogicalProvider`). The writers return a
`Change` (what is backed up, what is written, the recorded state) or `Refused`:
`ClaudeProvider`, `ClaudeNative`, `ClaudeRestore`, `CodexProvider`,
`CodexNative`, `CodexRestore`. `Selecting` and `PatchConfig` keep the order in
which the code looks for the selector line. Text that no command reads is left
out; a file that is restored is restored from the snapshot and not from the
file as it is.

Actions are commands. `add` and `update` are two steps, what is checked before
the prompts and what is done after them; files may change in between. `Apply`
has the outcomes `ProviderTransaction` allows: done and registered; failed and
put back, which for a file that was missing means an empty one; failed before
anything was written.

### 3.6 `SyncTransport`

| State | Code |
| --- | --- |
| `source` | the locals of `sync_push` and `push_archive`: next step, protocol, the registry to put back |
| `registry` | `providers.json` on the source: missing, as the user has it, or with the Provider that `_standardize_sync_source` registered |
| `archives[t]` | the files push `t` transfers |
| `sessions[<<t, p>>]` | the remote command of push `t` by protocol `p`, and the ssh connection to it |
| `lock`, `target`, `baseline` | operation lock, files and `sync-state.json` of the target machine |
| `own` | (for the properties) files at the target that are not from the last transfer |

A session is its process (`at`) and its connection. `up` counts what of the
source's stream has arrived or will arrive: the preflight line of protocol 2,
the manifest, the files, the end marker. `closed` says that nothing more comes;
`alive` that what the target writes can still arrive; `said` is the one message
on its way back, one because each side waits for the other after writing. A
connection that breaks loses what is on its way from some point on; the target
sees an early end of its stream, which looks like any other end, and decides by
what it has (`Accepts`): the declared size in protocol 2, the manifest's files
in protocol 1. `Abort` and `LoseConnection` end the source; its ssh may be
killed or may outlive it. A session may start long after its connection broke.

Merged into one step: the archive and the end of stdin behind it (what breaks
half-way breaks on its way); the committed answer and the exit code that
confirms it; process start, lock and capability at the target.

## 4. Runs

| Run | Shows | Result |
| --- | --- | --- |
| `switch_crash` | one and two clients, two processes, a crash at any step, clean failures of client writes, clean and late failures of manifest writes: the eight properties of the core | holds, 327,158 states |
| `switch_registry` | no crash, failures of every store including the registry: registry and clients agree or recovery is owed | holds |
| `switch_live` | an owed recovery is completed in the end | holds |
| `sync_crash` | two imports from two sources, one local change or reset in between, any two failures or crashes: the six properties of the import | holds, 1,263,762 states |
| `session_crash` | two merges, uses of Codex around them, three failures or kills: files and database move together | holds, 169,120 states |
| `lifecycle` | three changes of clients by any command, one failing, one edit anywhere | holds, 894,334 states |
| `transport` | two pushes with either protocol, failures anywhere on either side | holds, 190,952 states |
| `switch_late_fault` | a late failure of a client write | violated, see 7 |
| `switch_committed_unsaved` | a crash between manifest and registry | violated, see 7 |
| `sync_journal` | local changes in the database's journal | violated, see 7 |
| `session_log` | a database in journal mode `wal` | violated, see 7 |
| `lifecycle_profile` | a profile with a selector of its own | violated, see 7 |

What the properties say beyond their formulas:

* `TornIsOwed`, `RecoverSkipsNothing` and `FinalStateIsTrue` together are the
  promise of the transaction: disk, manifest marks and operation state are three
  records of one fact, written at different moments; at rest they agree or a
  recovery that will fix all of it is owed.
* `SwitchIsAtomic` (`Atomic!Spec`) is the same seen from outside: read through
  recovery (an unfinished operation counts as not having happened), every step
  of the code is a step of `AtomicSwitch` or changes nothing.
* `NoSilentOverwrite` relates a decision to the whole history of imports: it is
  stated with the last *committed* import (`LastImport`), which the code never
  looks at; the code compares with a baseline that is itself written, rolled
  back, restored and reset. `BaselineTruthful` is the link.
* `RecordHasPayload`: `recover` needs the manifest that `recovery.json` names;
  the store it lies in is pruned by every import.
* `HistoryAgrees` relates the two records Codex keeps of a thread, which one
  transaction rewrites one after the other.
* `StaysInAgreement` and `RemoveIsUnseen` are about a reading, not a value: what
  a client is *observed* to use depends on the whole registry and on `current`,
  so a command about one Provider may change what another client is seen to use
  although it touches no file.
* `OfficialLoginReturns` is stated with all snapshots ever taken, including
  those of failed commands; the code picks one by a state recorded earlier.
* `DeliveryIsOrdered` (refinement of `OrderedDelivery`) relates what the source
  was told with what the target did, across lost answers and abandoned sessions
  that still run; `NeverOlder` is the part an abandoned session could break, and
  `NoSpuriousConflict` says that a retry never conflicts with itself.

### Bounds

| Run | Bounds | Why enough |
| --- | --- | --- |
| `switch_*` | 2 processes; Claude with 1 file, Codex with 2; 2 Providers | all two-client and two-file interleavings of failure; a third Provider would only rename contents, since an operation compares a target with a backup |
| | `MaxOps` 2 | an operation, what it leaves behind, and the next one that meets it; `OnlyNewestIncomplete` (proved for any number) is why a third adds nothing new |
| | `MaxFaults` 3, `MaxCrashes` 1 in `switch_crash` | one write fails, its compensation fails, the report of that fails, and the process dies somewhere |
| `sync_*` | 2 paths, 3 contents, 2 sources | old, incoming and local content all different; one merged file and one replaced file; a second source that writes the same files |
| | `MaxImports` 2, `MaxEdits` 1 | an import, a change over it or a forgotten baseline, and the import that meets it |
| | `MaxFailures` 2 | a failure and the failure or death of its compensation |
| `session_*` | 2 threads, 1 Provider beside the shared one | two files and the database: first, middle and last item of the loop; a thread with no row, with no Provider, with either kind |
| | `MaxMerges` 2, `MaxUses` 1, `MaxFailures` 3 | a merge, a use that undoes it for one thread, a merge over what the first left; a failure, the failure of its compensation, and a kill |
| `lifecycle*` | 2 Providers, 2 URLs, 2 keys, 2 logins | one Provider another can be mistaken for; a login that replaces a login |
| | `MaxSnapshots` 3, `MaxEdits` 1, `MaxFailures` 1 | set up, change, return; a drift or a failure at any of them |
| `transport` | 2 files, 2 contents, `MaxPushes` 2 | an archive that may lack its last file; the push and the one that follows it, each with its fallback: four sessions. A third push would meet an earlier session as the second does (`NeverOlder` and `DeliveryIsOrdered` are proved for any number) |

Symmetry is declared for processes (`switch_*`, safety runs only), and for
contents and sources (`sync_*`): all are interchangeable, no `CHOOSE` depends on
which is which, except `IdleJob`'s placeholder in `ProviderTransaction`, where
contents are strings and not in the symmetry set. In `lifecycle` Provider names,
logins, and the two URLs together with the two keys (`Swap`) are interchangeable;
the start files and the bindings offered are closed under each. `switch_live` and
`transport` check liveness and use none. `sync_*`, `session_*`, `lifecycle*` and
`transport` set `CHECK_DEADLOCK FALSE`: with all commands of the bound used and
nothing owed, nothing is left to do.

### Failures a run assumes away, and why

* `switch_crash` has no *late* failure of a client write and no registry
  failure; `switch_registry` has no crash. With them the properties fail: see
  the runs `switch_late_fault` and `switch_committed_unsaved`, and the remark on
  rolling back under `committed` in section 7, which three failed writes in a row
  (registry, rollback, flag) or a crash bring about.
* `sync_crash` and `session_crash` let the COMMITTED manifest fail early only. It
  is written inside the `try` (`sync.py` 1826); a late failure starts a
  compensation under a final manifest, and a second failure then leaves a
  baseline that is not that of the last committed import.
* In `SyncImport` and `SessionMerge` files change between commands only, and not
  while a recovery is owed: recovery puts old contents over whatever it finds.
* `session_crash` kills the process only while the database is in mode `delete`
  (`KillModes`). In mode `wal` the log is unlinked before the database is
  written, and a kill in between loses the rows only the log held.
* `lifecycle` starts from files that parse and lets `settings.json` become
  malformed in no edit (`Unparsable`); `StaysInAgreement` excepts a `Clash`, one
  credential under two names, and `OfficialLoginReturns` a snapshot taken while
  the environment overrode the client. Section 7 says what happens with them.
* In `SyncTransport` the target's files change only while no command holds its
  lock, and whether a conflict is permitted is left open.

## 5. Fairness

`switch_live`: `WF(Step(p))`, a process that runs keeps running (crashes and
faults are bounded, so they end). `SF(StartRecover(p))` while a recovery is
owed: the user, whom every other command refuses with "recovery is required",
runs `recover` again and again, and is not for ever overtaken by other commands,
which hold the lock for a moment only. `SF` on `AcceptRecover(p)`: `recover`
refuses while a client runs, and one day none does. Weak fairness would not do
for the last two: both are disabled in between.

`transport` (`FairSpec`): `WF(SourceStep)`, the push goes on when it can, and
reads an answer or an end when there is one. `ReadEnd` may be relied on because
ssh is started with `ServerAliveInterval` and `ServerAliveCountMax`
(`sync_transport.py`), so a dead peer ends the stream; of the target's sshd the
same is assumed. `WF` of each session's steps once it has started, and of its
start while the connection stands. Nothing is assumed of a start over a broken
connection, of refusals and failures (`Refuse`, `Dismiss`, `Abort`), of breaks
or of the user. Under it `PushEnds` and `TargetReleased` hold.

## 6. Proofs

### The transaction

`ProviderTransaction_proofs` proves, for all clients with one or two files, all
Providers, processes, change lists, fault kinds and bounds:

| Theorem | States |
| --- | --- |
| `TypeCorrect` | `Spec => []TypeOK` |
| `TypeInvariant` | with the types, positions stay in range: a process works on a client of its change list and on an operation that has a manifest |
| `SafeInvariant` | the inductive invariant below |
| `MutualExclusionHolds` | `Spec => []MutualExclusion` |
| `OnlyNewestIncompleteHolds` | `Spec => []OnlyNewestIncomplete` |
| `NoStartWhileOwedHolds` | `Spec => NoStartWhileOwed` |

Assumptions are those the modules name: `ClientFilesAssumption`,
`ContentsAssumption`, `FaultsAssumption`, `ProcsAssumption` (`NoProc` is no
process), `ChangeListsAssumption` (a change list is not empty and names no
client twice, as `cli.py` builds it) and `BoundsAssumption`. TLC evaluates all
of them in every run.

The argument. None of the three safety properties is inductive. That only the
newest operation can be unfinished depends on a process that is about to write a
new manifest having seen a clear gate *and nobody having written since*; that
depends on the lock; and the lock depends on who is inside a command. `SafeInv`
says all of it at once: who is inside a command holds the lock (`LockHeld`); a
switch between gate and manifest finds nothing owed (`ClearWhenPreparing`); a
process works on the newest operation only (`OnNewest`); an operation that is
not the newest is final, and `recovery.json` names the newest if any
(`StoreInv`). Each action preserves each part; the steps are one per action, and
the writes share lemmas about `StoreThen` and `Exit`. TLC checked `SafeInv` as an
invariant before it was proved.

`NoStartWhileOwed` is an action property and follows from `ClearWhenPreparing`:
the only action that lengthens `manifests` is `CreateManifest`.

### Pushes

`SyncTransport_proofs` proves, for any finite set of files, any contents,
archives, edits, target versions and number of pushes:

| Theorem | States |
| --- | --- |
| `InvariantHolds` | `Spec => []IInv`, the inductive invariant below |
| `TypeCorrect` | `Spec => []TypeOK` |
| `NeverOlderHolds` | `Spec => []NeverOlder` |
| `NoSpuriousConflictHolds` | `Spec => []NoSpuriousConflict` |
| `FailureKeepsRegistryHolds` | `Spec => FailureKeepsRegistry` |
| `DeliveryIsOrderedHolds` | `Spec => DeliveryIsOrdered`, the refinement of `OrderedDelivery` |

From `FilesAssumption` (the files are finitely many, `Absent` is no content),
`OfferedAssumption` (archives are archives and not empty), `EditedAssumption`,
`PlaceholdersAssumption` and `BoundsAssumption`.

The argument. An abandoned session is harmless although it may start, take the
lock and read at any later time: the source closed its stream when it gave up,
so it gets no more than what was on its way, and only the current session of a
connected source is still open (`SessionInv`, third part). Once a transfer is
applied, every session of that push or an earlier one that has not applied has a
closed and *empty* stream (sixth part): it held no lock, so it had not started,
and a session reads nothing before the source has seen its capability. With an
empty stream neither protocol accepts. The fallback to protocol 1 is the case
that could break this; `ConnectionInv` says that when it is taken, protocol 2's
session is over and this push is not applied. `Accepts` at `apply` gives that
what has arrived is the whole archive (`ReceivedWhole`, a counting argument:
as many files arrived as the archive has, so all did). `BackupInv` carries the
registry to put back through the push, `OwnInv` relates files, baseline and
edits. TLC checked `IInv` on the instance of `transport` before it was proved.

### Switches and recovery

`SwitchRecovery_proofs`, under `CleanWrites`:

| Theorem | States |
| --- | --- |
| `RecoveryInvariant` | `Spec => [](TypeInv /\ SafeInv /\ RecoveryInv)` |
| `TornIsOwedHolds` | `Spec => []TornIsOwed` |
| `RecoverSkipsNothingHolds` | `Spec => []RecoverSkipsNothing` |
| `FinalStateIsTrueHolds` | `Spec => FinalStateIsTrue` |
| `SwitchIsAtomicHolds` | `Spec => SwitchIsAtomic`, the refinement of `AtomicSwitch` |

`CleanWrites == CleanFiles /\ RegistryFaults = {}`, with
`CleanFiles == ClientFaults \subseteq {"early"}`: a write of a client file that
fails fails before it takes effect, and `providers.json` can be written. Manifest
writes may fail either way, processes may be killed anywhere. Neither half can be dropped: run `switch_late_fault` refutes
`TornIsOwed` with one late failure, and a registry that cannot be written sets
off a rollback behind a manifest that says `committed`, whose crash nobody finds
(section 7). `switch_crash` checks the same four properties under the same
hypothesis.

The argument. The properties relate files to manifests at rest, so the invariant
must say what they are at every write in between. `Durable` is what holds at any
moment, so also after a crash: the newest operation, while unfinished or
recorded, names a backup of every file that could differ from it, and a recorded
one leaves no file to restore unmarked. `Progress` says how far a process is:
files before its position given, files behind it kept, and which of them the
manifest has marked. Each action either moves the position past the file it
wrote or fails and changes the label; a crash discards the position and leaves
`Durable`. For the refinement, `Visible` is the backup where an operation is
unfinished and the disk elsewhere; a step is `Unseen` unless it writes the
`COMMITTED` manifest.

### The registry

`RegistryAgreement_proofs` extends the module above, under `EarlyWrites`: every
write that fails, of whatever store, fails before it takes effect.

| Theorem | States |
| --- | --- |
| `AgreementInvariant` | `Spec => [](TypeInv /\ SafeInv /\ AgreementInv)` |
| `RegistryAgreesHolds` | `Spec => [](Benign => RegistryAgrees)` |
| `RegistryAgreesBounded` | `Spec => []RegistryAgrees` where `MaxCrashes = 0`, and `RegistryFaults = {}` or `MaxFaults <= 2` |
| `TornIsOwedWhenBenign` | `Spec => [](Benign => TornIsOwed)` |

`Benign == crashes = 0 /\ (RegistryFaults = {} \/ faults <= 2)` speaks of what
has happened *so far*, so the theorems are also about the beginning of a
behaviour that ends badly. With the bounds of `switch_registry`,
`RegistryAgreesBounded` is the invariant that run checks.

None of the hypotheses can be dropped: the clients are committed before
`providers.json` is written, and between the two only the process knows that
they disagree. TLC refutes `RegistryAgrees` on the bounds of `switch_registry`
without any one of them: with a crash (`switch_committed_unsaved`), with one late
failure of a client, a manifest or the registry write, and with a third clean
failure: the registry cannot be written, a client cannot be put back, and the
manifest that should say so cannot be written either.

The argument. `RecoveryInv` does not hold while a failed registry write is made
good, because the manifest says `committed` and the files go back behind it.
`SavingInv` says what holds then: one process does it, no file outside the
operation differs from its backup, and each client behind the loop's position
has its backup again or is flagged. `AgreementInv` is that one of the two
holds, and `Recorded`: `current` names what the newest operation backed up, while
that is open or the registry is still to be written, and otherwise what is on
disk. The count of failures enters `SavingInv`: at least one during the loop
and two at a flag, so the write of the flag cannot fail. The first flag or
`rolled_back` that reaches the manifest leads back to `RecoveryInv`.

### Imports

`SyncImport_proofs`:

| Theorem | States |
| --- | --- |
| `StoreInvariant`, `TypeCorrect`, `RecordHasPayloadHolds` | the directories of the store, `[]TypeOK`, `[]RecordHasPayload`; no hypothesis |
| `FileInvariant` | the inductive invariant that relates files and manifests |
| `BaselineTruthfulHolds` | `Spec => []BaselineTruthful` |
| `NoSilentOverwriteHolds` | `Spec => []NoSilentOverwrite` |
| `FinalStateIsTrueHolds` | `Spec => FinalStateIsTrue` |
| `ImportIsAtomicHolds` | `Spec => ImportIsAtomic`, the refinement of `AtomicImport` |

All but the first line under `CleanCommit == CommitFaults \subseteq {"early"}`:
the write of the `COMMITTED` manifest does not fail after it took effect. It is
the one write of the commit whose late failure the code does not survive: it
stands inside the `try` (`sync.py` 1826), so the compensation would put the old
files back under a manifest that says `COMMITTED`. Targets, other manifests and
removals may fail either way.

The argument. `StoreInv`: a command at work has the newest directory in hand and
its manifest can be read; an older one is never unfinished. Pruning keeps what
`recovery.json` names because that is unfinished or settled only by a recovery
that has not cleared the record yet. `FileInv` then has a `Durable` and a
`Progress` part as above. Items are written in increasing order and put back in
decreasing order; that the next item is the least one left (the last one, the
greatest) is what carries "everything before is written, everything behind is
kept" from one item to the next. `Extrema` derives both from the well-foundedness
of `<` in one step, since the induction theorems of the library are out of reach.

### Merges of sessions

`SessionMerge_proofs`:

| Theorem | States |
| --- | --- |
| `StoreInvariant`, `TypeCorrect` | the directories and the logs, `[]TypeOK`; no hypothesis |
| `HistoryInvariant` | the inductive invariant that relates history and manifests |
| `HistoryAgreesHolds` | `Spec => []HistoryAgrees` |
| `FinalStateIsTrueHolds` | `Spec => FinalStateIsTrue` |
| `MergeIsAtomicHolds` | `Spec => MergeIsAtomic`, the refinement of `AtomicMerge` |
| `MergedIsSharedInDelete` | `Spec => MergedIsShared` where every database is in mode `delete` |

All but the first line under `CleanCommit` and, except the last, `CleanKills ==
KillModes \subseteq {"delete"}`: no process is killed while it holds a database
in mode `wal`, for then the log it unlinked is lost with it (hazard at
`sessions.py` 94). `session_crash` checks the same properties under the same
hypotheses. `MergedIsSharedInDelete` is the boundary of the finding of
`session_log`: the promise of the README of `sessions merge` holds exactly where
the copy that is updated keeps no log of its own.

The argument. What is invariant is not the database file but what a reader sees
of it (`History`): the file, or the log beside it, or the log still held by a
process that has not ended. In mode `wal` the database is never listed
(`RewritesFacts`), so a log that is unlinked is always checkpointed later
without getting in the way of a backup. A rollback whose manifest write fails
after it took effect (`settle`) flags an operation that is final already; the
invariant allows that, because everything it lists is back by then. From
`MergeIsAtomic`, every step seen through recovery rewrites both records of all
threads, or of one thread, or nothing: `HistoryAgrees` follows.

### Provider commands

`ProviderLifecycle_proofs`, for any finite set of Providers, any URLs, keys,
logins and offered bindings, any edits that keep to the clients' forms, and any
number of changes, edits and failures:

| Theorem | States |
| --- | --- |
| `TypeCorrect` | `Spec => []TypeOK` |
| `AgreementStays` | `Spec => []StaysInAgreement` |
| `FailuresAreUnseen` | `Spec => FailureIsUnseen`, under `AlwaysParsable` |
| `LoginReturns` | `Spec => OfficialLoginReturns` |
| `RemovalsAreUnseen` | `Spec => RemoveIsUnseen` |

From `DistinctAssumption`, `FormsAssumption` (the values that stand for an absent
or malformed file differ from each other and from every record),
`NamesAssumption` (finitely many Providers, so that "exactly one fits" means
something), `OfferedAssumption`, `OverridesAssumption` and `FilesAssumption`
(edits keep to the forms of `ClientFiles`). TLC evaluates all of them.

The hypothesis is about users, and cannot be dropped. `AlwaysParsable`:
`settings.json` never becomes malformed. A malformed one is backed up as an empty
one, and a failed change puts that back, so that a client that was `unknown` is
`official_login` afterwards (TLC refutes `FailureIsUnseen` when `Unparsable` is
`{Garbage}`). The run `lifecycle` meets it.

The argument. `TypeOK` is not inductive: that a command finds what it needs in a
snapshot depends on what was recorded beside it (`SnapshotInv`: a snapshot
recorded as official holds files that say so, one with a login has a config to
return to), and that `update` keeps the registry valid depends on its not having
changed since the questions (`AskedInv`). Each `prepare_*` is shown once to be a
`SoundChange`: forms the clients know, a true record, a backup of what was read.
For agreement, `SetUp` says what the files of a clean client hold: the binding of
its current Provider, or nothing but an official configuration. It is kept by
every step, a failed one included, and where there is no `Clash` it decides what
`inspect` reads; commands about *other* Providers change the reading only through
a clash. The proof also shows what becomes of a Provider that is written into a
profile (run `lifecycle_profile`): the root selects `openai` beside a key that is
registered, which is a `Clash`, and `status` reports it. `RemovalsAreUnseen` needs no invariant beyond the types: it turns on
the guard `NotInUse`, from which follows that a client bound to the Provider that
goes is certainly seen to use another one, and settings that match exactly one
Provider match no other. `LoginReturns` uses `SnapshotInv` and that a finite set
of positions has a greatest (`Extrema`).

### What is model-checked only

Liveness (`RecoveryCompletes`, `PushEnds`, `TargetReleased`), which is out of the
prover's reach. Every other property of a passing run is stated by a theorem. No module declares a
`RECURSIVE` operator.

## 7. Findings

Each of the first five is a run that TLC refutes.

* **A late failure splits a client** (`switch_late_fault`). `config.toml` is
  written outside the `try` of `CodexAdapter.commit`; if that write raises after
  `os.replace`, the file is new, `auth.json` is old, nothing is rolled back and
  the operation is recorded `rolled_back`. `apply_import` avoids this: it counts
  an item as modified before writing it, and `sync_crash` shows that late
  failures of targets do it no harm.
* **A crash between manifest and registry** (`switch_committed_unsaved`): the
  operation is `committed`, so nothing is recoverable, and `current` still names
  the previous Provider.
* **The journal is invisible to imports** (`sync_journal`): the conflict check
  reads the database's main file; changes in its `-wal` file raise no conflict
  and are unlinked.
* **A merge that rewrites no row** (`session_log`): the copy that is updated has
  the journal mode of the database; in mode `wal` the update is in the copy's
  log and the bytes read back are unchanged. The merge is reported as done.
* **A profile's selector is taken for the root's** (`lifecycle_profile`): with a
  `model_provider` line inside a table and none at the root, that line is
  rewritten and the root selects `openai` as before.

Observations made while modelling, without a run of their own:

* When the registry cannot be written, clients are put back while the stored
  manifest still says `committed`; a crash in between is found by no later
  command. A failed flag has the same effect.
* A transaction directory whose removal stops after the manifest is gone is
  never pruned, since pruning needs the manifest.
* A `settings.json` that cannot be parsed is replaced, and its backup is an
  empty object (`claude.py` 133), although `cli.py` 2177-2180 says that adapters
  reject malformed files.
* `update` accepts a binding that another Provider has, which `add` refuses;
  Claude is then ambiguous and reported as drifted after every switch. The name
  `openai` is not reserved. Updating an active Codex Provider moves it to the
  shared alias.
* `switch official` ends early for a client that is official already and leaves
  `current` at the old Provider. A fresh Codex that is put back keeps an empty
  `auth.json`.
* A push that is interrupted, or that fails on a machine without
  `providers.json`, leaves the detected Provider registered. A push reported as
  failed may have been applied or may be applied later; `OrderedDelivery` says
  what is promised nevertheless.

## 8. Not modelled

`sync pull` reads one whole stream after the remote command has ended and then
imports as `SyncImport` does; it has no interleaving of its own and is left for
later. Discovery of project paths changes nothing. Project selection and
mapping, manifest validation, the merging of records, archive encoding and
encryption transform data and keep no state; of the archive only what a
truncated stream means is modelled (`Accepts`, `Received`). Permission bits and
allowlists are file-system layout. `list`, `doctor` and `version` print what
other components hold. Release scripts never touch the state above. A registry
that `load_registry` refuses stops every command. Wall-clock order
(`created_at`) is taken to be creation order; `OnlyNewestIncomplete` shows that
recovery does not depend on it, and the choice of an official snapshot uses it.
