SPECIFICATION Spec
CONSTANTS
    i1 = i1
    i2 = i2
    i3 = i3
    i4 = i4
    Id = {i1, i2, i3, i4}
    NoId = NoId
    HEADER_BYTES = 25000
    ENTRY_BYTES = 5000
    Answers <- MCAnswers
    PromptOf <- MCPromptOf
    FirstArguments <- MCFirstArguments
    LaterArguments <- MCLaterArguments
    MaxCommands = 2
SYMMETRY IdSymmetry
INVARIANTS
    OnlyAsDocumented
    ExitStatusTrue
    ShownAsTold
    ReadsOnlyWritten
    LimitsSuffice
    TerminalSafe
    OneAnswer
    WithinBudget
CHECK_DEADLOCK FALSE
