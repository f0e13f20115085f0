SPECIFICATION OutputSpec
CONSTANTS
    Tokens <- MCTokens
    LiveCap = 3
    TransformCap = 20
    UtteranceLimit = 3
    FailLimit = 1
    BareMarker = TRUE
INVARIANTS
    OutputTypeOK
    SettledTextStays
    NoLateRewrite
    ReplacesWhole
    WordsStay
    ContextIsOfThisUtterance
CHECK_DEADLOCK FALSE
