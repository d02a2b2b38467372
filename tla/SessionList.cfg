SPECIFICATION ListSpec
CONSTANTS
    w1 = w1
    w2 = w2
    r1 = r1
    Writer = {w1, w2}
    Reader = {r1}
    Lister = r1
    Id = {1, 2}
    None = None
    Terminal = {"Completed"}
    Sizes = {0, 1, 2}
    Others = 1
    Times = {1, 2}
    Limits <- MCLimits
SYMMETRY ListSymmetry
CONSTRAINT SomeAreEarly
INVARIANTS
    ListIsComplete
    ListIsTrue
    NewestFirst
    LimitsExact
CHECK_DEADLOCK FALSE
