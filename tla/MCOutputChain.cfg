SPECIFICATION OutputSpec
CONSTANTS
    Tokens <- MCTokens
    LiveCap = 3
    TransformCap = 20
    UtteranceLimit = 3
    FailLimit = 0
    BareMarker = FALSE
INVARIANT ChainRewritesOnlyItself
CHECK_DEADLOCK FALSE
