CONSTANTS
    Texts <- MCTexts
    Dim = 768
    EmbedDim = 768
    MaxTurns = 2
    MemConfigured = TRUE
    Tools <- MCTools
    AddEvent = "add_event"
    UnknownName = "no_such_tool"
    Unhashable = "list_value"

SPECIFICATION Spec

INVARIANT NeverCrashes


CHECK_DEADLOCK FALSE
