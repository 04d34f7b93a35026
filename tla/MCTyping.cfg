SPECIFICATION FairSpec
CONSTANTS
    a = a
    sp = sp
    cr = cr
    lf = lf
    NUL = NUL
    Backspace = Backspace
    NoChar = NoChar
    Char <- MCChar
    Texts <- MCTexts
    Space = sp
    Columns = 3
    FrameRate = 4
    Countdown = 1
    MaxTicks = 6
INVARIANTS
    TypeOK
    CountersExact
    WrongIsFlagged
    FinishedRight
    FinalNumbers
    AccuracyDefined
    NeverStuckComplete
    NoHeadStart
    LinesStandStill
    CursorMarkedOnce
    ErrorsShown
PROPERTIES
    DiligenceFinishes
