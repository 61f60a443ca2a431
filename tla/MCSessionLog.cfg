\* A database in mode "wal", no failure at all.
SPECIFICATION Spec
CONSTANTS
    NThreads = 2
    Named = {"vendor"}
    Shared = "custom"
    Unset = "unset"
    Absent = Absent
    Modes = {"wal"}
    KillModes = {}
    TargetFaults = {}
    StoreFaults = {}
    CommitFaults = {}
    RemovalFaults = {}
    MaxMerges = 1
    MaxUses = 1
    MaxFailures = 0
CHECK_DEADLOCK FALSE
PROPERTIES
    MergedIsShared
