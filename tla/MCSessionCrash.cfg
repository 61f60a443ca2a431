\* Two merges and uses of Codex around them, any write failing before or after
\* it takes effect (COMMITTED only before); the process may be killed while the
\* database is in mode "delete".
SPECIFICATION Spec
CONSTANTS
    NThreads = 2
    Named = {"vendor"}
    Shared = "custom"
    Unset = "unset"
    Absent = Absent
    Modes = {"delete", "wal"}
    KillModes = {"delete"}
    TargetFaults = {"early", "late"}
    StoreFaults = {"early", "late"}
    CommitFaults = {"early"}
    RemovalFaults = {"early", "late"}
    MaxMerges = 2
    MaxUses = 1
    MaxFailures = 3
CHECK_DEADLOCK FALSE
INVARIANTS
    TypeOK
    HistoryAgrees
PROPERTIES
    FinalStateIsTrue
    MergeIsAtomic
