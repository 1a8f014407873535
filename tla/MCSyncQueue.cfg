\* Two repositories, two distinguishable payloads and two workers that can meet at
\* both ends of a sync, and a second attempt to make.
CONSTANTS
    Repos = {r1, r2}
    StatKeys = {r1, r2, ShutdownKey}
    Payloads = {p1, p2}
    Workers = {w1, w2}
    MaxTrackedRepos = 2
    MaxAttempts = 2
    MaxRecentRepos = 2
    StatCap = 0
    NoRepo = NoRepo
    NoPayload = NoPayload
    ShutdownKey = ShutdownKey
SPECIFICATION OutcomeSpec
SYMMETRY Symmetry
INVARIANTS
    QueueAccounted NoLostWakeup ShutdownLeavesNoWork
    SuccessClearsError
PROPERTY ImplementsMailbox
