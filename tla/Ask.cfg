SPECIFICATION AskAfterSpec
CONSTANTS
    w1 = w1
    w2 = w2
    r1 = r1
    i1 = i1
    Writer = {w1, w2}
    Reader = {r1}
    Id = {i1}
    None = None
    CREATE_RETRIES = 2
    Past = w2
    Taken = i1
INVARIANTS
    SuccessIsRecorded
    AnnouncedIsFindable
PROPERTY AskEnds
CHECK_DEADLOCK FALSE
