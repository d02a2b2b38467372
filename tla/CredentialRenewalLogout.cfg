SPECIFICATION Spec
CONSTANTS
    c1 = c1
    c2 = c2
    Caller = {c1, c2}
    NoCaller = NoCaller
    Punctual = {}
    MaxToken = 2
    MaxPolls = 1
SYMMETRY CallerSymmetry
PROPERTY LogoutDisconnects
