\* Change lists of one and of two clients: crashes at every step, manifest
\* writes failing before or after they take effect, client writes failing
\* cleanly.
SPECIFICATION Spec
CONSTANTS
    claude = claude
    codex = codex
    p1 = p1
    p2 = p2
    NoProc = NoProc
    Clients <- MCClients
    NFiles <- MCNFiles
    Contents = {"official", "acme"}
    Procs <- MCProcs
    ChangeLists <- AnyList
    ClientFaults = {"early"}
    StoreFaults = {"early", "late"}
    RegistryFaults = {}
    MaxOps = 2
    MaxFaults = 3
    MaxCrashes = 1
SYMMETRY Symmetry
INVARIANTS
    TypeOK
    MutualExclusion
    OnlyNewestIncomplete
    TornIsOwed
    RecoverSkipsNothing
PROPERTIES
    NoStartWhileOwed
    FinalStateIsTrue
    SwitchIsAtomic
