\* A client write fails after it took effect.
SPECIFICATION Spec
CONSTANTS
    claude = claude
    codex = codex
    p1 = p1
    p2 = p2
    NoProc = NoProc
    Clients <- MCClients
    NFiles <- MCNFiles
    Contents = {"official", "acme"}
    Procs <- MCProcs
    ChangeLists <- SingleClient
    ClientFaults = {"early", "late"}
    StoreFaults = {}
    RegistryFaults = {}
    MaxOps = 1
    MaxFaults = 1
    MaxCrashes = 0
SYMMETRY Symmetry
INVARIANTS
    TornIsOwed
