\* One request at a time: a bill archived by the action stays listed (violation).
CONSTANTS
    r1 = r1
    r2 = r2
    Requests <- MCRequestsOne
    MaxBills = 2
    MaxRequests = 4
    MaxClock = 4
    LoadFails = FALSE
SPECIFICATION Spec
INVARIANT ArchivedStaysArchived
