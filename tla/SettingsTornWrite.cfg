\* A crash inside write_text: load() falls back to defaults and a later set() wipes settings (violation).
CONSTANTS
    k1 = k1
    k2 = k2
    v1 = v1
    v2 = v2
    Keys <- MCKeys
    DefaultKeys = {k1}
    Values <- MCValues
    Dflt = v1
    Absent = Absent
    MaxSets = 3
    CrashInWrite = TRUE
SPECIFICATION Spec
INVARIANT SettingsDurable
