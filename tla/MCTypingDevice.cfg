SPECIFICATION DeviceSpec
CONSTANTS
    Windows = {"chat", "editor"}
    NoWindow = ""
    ChangeLimit = 2
    Physical = {"a", "BackSpace", "Return", "Ctrl+V"}
    Exotic = {"x", "y", "z"}
    DynCodes = {"F13", "F14"}
    PasteMin = 2
    Electron = {"chat"}
    Texts <- SomeTexts
    CallLimit = 2
    FaultLimit = 2
INVARIANTS
    DeviceTypeOK
    TypesWhatItIsAsked
    ClipboardComesBack
    TrustedMeansCurrent
CHECK_DEADLOCK FALSE
