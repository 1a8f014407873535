\* More repositories than the queue may track.  No symmetry: temporal properties
\* under weak fairness of every worker.
CONSTANTS
    Repos = {r1, r2, r3}
    StatKeys = {r1, r2, r3, ShutdownKey}
    Payloads = {p1}
    Workers = {w1, w2}
    MaxTrackedRepos = 2
    MaxAttempts = 2
    MaxRecentRepos = 1
    StatCap = 0
    NoRepo = NoRepo
    NoPayload = NoPayload
    ShutdownKey = ShutdownKey
SPECIFICATION FairSpec
PROPERTIES AcceptedIsStarted ShutdownDrains
