SPECIFICATION Spec
CONSTANTS
    None = None
    Garbage = Garbage
    a = a
    b = b
    u = u
    Account = {a, b, u}
    UnfitAccount = {u}
    MaxTime = 7
    Window = 2
    Exp = {0, 3, 7}
    Lifetime <- MCLifetime
INVARIANTS
    ConnectedIsUsable
    ExpiredIsRenewed
    DeadlineIsPromised
PROPERTY RefreshKeepsAccount
