\* Two namespaces that reference each other and themselves, a worker for each, and
\* three commits: each side can rebuild after the other has raced with it.  The
\* system stops when the bound on commits is reached.
CONSTANTS
    Namespaces = {app, lib}
    Workers = {w1, w2}
    MaxCommits = 3
    None = None
SPECIFICATION Spec
SYMMETRY Symmetry
INVARIANTS OutboundComplete ExactUnlessRaced
CHECK_DEADLOCK FALSE
