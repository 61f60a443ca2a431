\* No crash: up to two writes of any store fail without taking effect, the
\* registry's among them.
SPECIFICATION Spec
CONSTANTS
    claude = claude
    codex = codex
    p1 = p1
    p2 = p2
    NoProc = NoProc
    Clients <- MCClients
    NFiles <- MCNFiles
    Contents = {"official", "acme"}
    Procs <- MCProcs
    ChangeLists <- SingleClient
    ClientFaults = {"early"}
    StoreFaults = {"early"}
    RegistryFaults = {"early"}
    MaxOps = 2
    MaxFaults = 2
    MaxCrashes = 0
SYMMETRY Symmetry
INVARIANTS
    RegistryAgrees
    TornIsOwed
