SPECIFICATION LiveSpec
CONSTANTS
    l1 = l1
    l2 = l2
    Login = {l1, l2}
    NoLogin = NoLogin
    Ports = 2
    Timeout = 1
    Answers = 2
INVARIANTS
    OnlyOwnAnswer
    StoredWasApproved
PROPERTY WaitEnds
