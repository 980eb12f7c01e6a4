CONSTANTS
    r1 = r1  r2 = r2  u1 = u1  u2 = u2
    None = None
    Requests = {r1, r2}
    Workers = {w1, w2}
    MaxBuffer = 1
    MaxRetries = 1
    MaxBatch = 2
    Owner <- MCOneOwner
    Broke = {u2}
SPECIFICATION Spec
SYMMETRY Symmetry
INVARIANTS CountedAtMost
PROPERTIES KeepsPromise OutcomeKept
CHECK_DEADLOCK FALSE
