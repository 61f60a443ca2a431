\* A client that is killed leaves its last changes in the database's journal.
SPECIFICATION Spec
CONSTANTS
    x = x
    y = y
    z = z
    laptop = laptop
    server = server
    Absent = Absent
    NPaths = 2
    Database <- MCDatabase
    Merged <- MCMerged
    Scope <- MCScope
    Approvals <- MCApprovals
    Sources <- MCSources
    Values <- MCValues
    TargetFaults = {}
    StoreFaults = {}
    CommitFaults = {}
    RemovalFaults = {}
    MaxImports = 2
    MaxEdits = 1
    MaxFailures = 0
SYMMETRY Symmetry
CHECK_DEADLOCK FALSE
INVARIANTS
    NoSilentLoss
