\* Stores and searches with zero vectors allowed: every search returns well-formed records.
CONSTANTS
    MaxRecs = 5
    TopK = 3
    Levels <- MCLevels
    ZeroVectors = TRUE
    NaN = NaN

SPECIFICATION Spec

INVARIANT TypeOK
