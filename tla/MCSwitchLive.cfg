\* Fair schedules: crashes and failures end, the user runs recover until it
\* succeeds.
SPECIFICATION FairSpec
CONSTANTS
    claude = claude
    codex = codex
    p1 = p1
    p2 = p2
    NoProc = NoProc
    Clients <- MCClients
    NFiles <- MCNFiles
    Contents = {"official", "acme"}
    Procs <- MCProcs
    ChangeLists <- SingleClient
    ClientFaults = {"early"}
    StoreFaults = {"early", "late"}
    RegistryFaults = {}
    MaxOps = 1
    MaxFaults = 2
    MaxCrashes = 1
PROPERTIES
    RecoveryCompletes
