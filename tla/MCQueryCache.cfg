\* Three queries that compete for two entries, two readers and a writer.
CONSTANTS
    Keys = {k1, k2, k3}
    Readers = {r1, r2}
    Writers = {w1}
    MaxCacheEntries = 2
    MaxVersion = 1
    NoEntry = NoEntry
    NoKey = NoKey
SPECIFICATION FairSpec
INVARIANTS StaleIsExplained
PROPERTY StaleIsTemporary
