\* More inputs than workers, so that the window moves; any subset of them is bad.
CONSTANTS
    N = 5
    Workers = {w1, w2}
    Free = Free
    Gone = Gone
SPECIFICATION FairSpec
INVARIANTS OutcomeDeterministic
PROPERTY PoolReturns
