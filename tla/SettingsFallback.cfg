\* Crashes anywhere, inside write_text too: a setting whose set() returned is lost, from the file and from get(), only after load() fell back on a corrupt file.
CONSTANTS
    k1 = k1
    k2 = k2
    v1 = v1
    v2 = v2
    Keys <- MCKeys
    DefaultKeys = {k1}
    Values <- MCValues
    Dflt = v1
    Absent = Absent
    MaxSets = 3
    CrashInWrite = TRUE
SPECIFICATION Spec
INVARIANT DurableUntilFallback
INVARIANT ReadYourSettings
