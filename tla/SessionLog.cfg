SPECIFICATION Spec
CONSTANTS
    w1 = w1
    w2 = w2
    r1 = r1
    i1 = i1
    i2 = i2
    Writer = {w1, w2}
    Reader = {r1}
    Id = {i1, i2}
    None = None
    CREATE_RETRIES = 2
SYMMETRY StoreSymmetry
VIEW StoreView
INVARIANTS
    DurableBeforeModel
    AcknowledgedRemains
    RolledBackStaysGone
    NoUnfinishedView
PROPERTIES
    AcknowledgedIsShown
    ImplementsStore
CHECK_DEADLOCK FALSE
