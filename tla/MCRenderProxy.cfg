SPECIFICATION RenderSpec
CONSTANT OpLimit = 8
INVARIANTS
    RenderTypeOK
    TypedOrReplaced
PROPERTY KeepsTypingOrder
CHECK_DEADLOCK FALSE
