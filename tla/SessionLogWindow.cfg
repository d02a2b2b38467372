SPECIFICATION Spec
CONSTANTS
    w1 = w1
    r1 = r1
    r2 = r2
    i1 = i1
    i2 = i2
    Writer = {w1}
    Reader = {r1}
    Id = {i1, i2}
    None = None
    CREATE_RETRIES = 2
INVARIANT NoPartialState
CHECK_DEADLOCK FALSE
