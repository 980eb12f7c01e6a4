CONSTANTS
    r1 = r1  r2 = r2  u1 = u1  u2 = u2
    None = None
    Requests = {r1, r2}
    Workers = {w1, w2}
    MaxBuffer = 3
    MaxRetries = 2
    MaxBatch = 2
    Owner <- MCTwoOwners
    Broke = {u2}
SPECIFICATION LiveSpec
CONSTRAINT Calm
PROPERTIES EventuallySettled
CHECK_DEADLOCK FALSE
