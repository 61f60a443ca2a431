\* Two imports from two sources, edits in between, any write failing before or
\* after it takes effect (COMMITTED only before), a crash at any step.
SPECIFICATION Spec
CONSTANTS
    x = x
    y = y
    z = z
    laptop = laptop
    server = server
    Absent = Absent
    NPaths = 2
    Database <- MCDatabase
    Merged <- MCMerged
    Scope <- MCScope
    Approvals <- MCApprovals
    Sources <- MCSources
    Values <- MCValues
    TargetFaults = {"early", "late"}
    StoreFaults = {"early", "late"}
    CommitFaults = {"early"}
    RemovalFaults = {"early", "late"}
    MaxImports = 2
    MaxEdits = 1
    MaxFailures = 2
SYMMETRY Symmetry
CHECK_DEADLOCK FALSE
INVARIANTS
    TypeOK
    BaselineTruthful
    NoSilentOverwrite
    RecordHasPayload
PROPERTIES
    FinalStateIsTrue
    ImportIsAtomic
