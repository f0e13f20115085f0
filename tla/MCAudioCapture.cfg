SPECIFICATION AudioSpec
CONSTANTS
    Rates <- MCRates
    QueueChunks = 2
    ChunkLen = 4
    FrameLen = 3
    CaptureLimit = 6
    StreamLimit = 2
INVARIANTS
    AudioTypeOK
    LossesCounted
    FreshAndInOrder
    SamplesKeptInPlace
