\* One crash is enough for two callers to find the same stale file.
CONSTANTS
    c1 = c1
    c2 = c2
    c3 = c3
    server1 = server1
    server2 = server2
    Callers <- MCCallers
    Processes <- MCProcesses
    ProcessOf <- MCProcessOf
    SlowHolders = FALSE
    MaxCrashes = 1
    Nobody = Nobody
SPECIFICATION Spec
INVARIANT MutualExclusion
