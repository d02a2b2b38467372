SPECIFICATION LiveSpec
CONSTANTS
    c1 = c1
    c2 = c2
    Caller = {c1, c2}
    NoCaller = NoCaller
    Punctual = {c1}
    MaxToken = 3
    MaxPolls = 1
INVARIANTS
    SpendsStoredToken
    StoredTokenLive
    ReusedOnlyAfterLoss
    SavedBeforeUse
    ReplayDiffers
    OneRefresh
    RenewedBeforeUnauthorized
PROPERTIES
    NoRegression
    EndsDespiteStalls
