SPECIFICATION Spec
CONSTANTS
    Tokens <- MCTokens
    Replies <- MCReplies
    TrailingSpace = TRUE
    Capitalize = TRUE
    TokenLimit = 4
    UtteranceLimit = 3
INVARIANTS
    WellSpaced
    KnowsTheEnd
    DeltasLikeWhole
