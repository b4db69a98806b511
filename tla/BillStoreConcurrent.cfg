\* Two concurrent request threads, loads may raise: archiving follows the 3-month rule.
CONSTANTS
    r1 = r1
    r2 = r2
    Requests <- MCRequestsTwo
    MaxBills = 2
    MaxRequests = 4
    MaxClock = 4
    LoadFails = TRUE
SPECIFICATION Spec
INVARIANT ArchiveOnlyOld
CHECK_DEADLOCK FALSE
