\* A crash between the COMMITTED manifest and providers.json.
SPECIFICATION Spec
CONSTANTS
    claude = claude
    codex = codex
    p1 = p1
    p2 = p2
    NoProc = NoProc
    Clients <- MCClients
    NFiles <- MCNFiles
    Contents = {"official", "acme"}
    Procs <- MCProcs
    ChangeLists <- SingleClient
    ClientFaults = {}
    StoreFaults = {}
    RegistryFaults = {}
    MaxOps = 1
    MaxFaults = 0
    MaxCrashes = 1
SYMMETRY Symmetry
INVARIANTS
    RegistryAgrees
