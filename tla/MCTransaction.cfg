SPECIFICATION Spec
SYMMETRY Symmetry
CONSTANTS
    Callers = {c1, c2}
    Keys = {k1}
    Payloads = {p1, p2}
    Conns = {x1, x2}
    None = None
    MaxAttempts = 2
    MaximumIdle = 1
    MaxRuns = 1
INVARIANTS
    OneMutationPerKey
    PoolIsolation
PROPERTIES
    PromiseKept
CHECK_DEADLOCK FALSE
