SPECIFICATION Spec
CONSTANTS
    OnsetFrames = 1
    SilenceFrames = 3
    SpecFrames = 1
    PreRollFrames = 1
    MaxUtteranceFrames = 6
    FrameLimit = 8
    StreamingEnabled = TRUE
    MinSpeech = 2
    MaxBuffer = 3
    MinNew = 1
    SentenceEnds = {2}
    Blanks = {}
    CutsShort = FALSE
    Unsettled = FALSE
INVARIANT NoDupes
