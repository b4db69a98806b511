\* A zero vector makes a similarity NaN: search leaves the best record out of order (violation).
CONSTANTS
    MaxRecs = 5
    TopK = 3
    Levels <- MCLevels
    ZeroVectors = TRUE
    NaN = NaN

SPECIFICATION Spec

INVARIANT SearchFollowsSpec
