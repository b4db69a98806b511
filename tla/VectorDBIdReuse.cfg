CONSTANTS
    Texts <- MCTexts
    Dim = 768
    EmbedDim = 768
    MaxCalls = 4

SPECIFICATION Spec

INVARIANT NoRecordLost
