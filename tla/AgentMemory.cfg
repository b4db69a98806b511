CONSTANTS
    Texts <- MCTexts
    Dim = 768
    EmbedDim = 768
    MaxTurns = 3
    MemConfigured = TRUE
    Tools <- MCTools
    AddEvent = "add_event"
    UnknownName = "no_such_tool"
    Unhashable = "list_value"

SPECIFICATION FairSpec

INVARIANT TypeOK
INVARIANT OutputStoredAfterInput
INVARIANT NoWritesFromFailedGeneration
PROPERTY DispatchFollowsSpec
PROPERTY TurnAnswered
PROPERTY MemoryLogSpec

CHECK_DEADLOCK FALSE
