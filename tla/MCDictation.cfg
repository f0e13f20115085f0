SPECIFICATION Spec
CONSTANTS
    OnsetFrames = 2
    SilenceFrames = 3
    SpecFrames = 1
    PreRollFrames = 3
    MaxUtteranceFrames = 6
    FrameLimit = 9
    StreamingEnabled = TRUE
    MinSpeech = 2
    MaxBuffer = 3
    MinNew = 1
    SentenceEnds = {2}
    Blanks = {3}
    CutsShort = TRUE
    Unsettled = TRUE
INVARIANTS
    GateTypeOK
    OnsetNotClipped
    SpeculationCoversSpeech
    EndsBySilenceOrCap
    SessionTypeOK
    HypothesisAligned
    NothingLost
    GateAndEngineAgree
PROPERTIES
    DeliveredInOrder
    CallsReturn
