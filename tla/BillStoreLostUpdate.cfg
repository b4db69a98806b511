\* Two concurrent request threads: a bill parse-sample saved is lost (violation).
CONSTANTS
    r1 = r1
    r2 = r2
    Requests <- MCRequestsTwo
    MaxBills = 2
    MaxRequests = 4
    MaxClock = 4
    LoadFails = FALSE
SPECIFICATION Spec
INVARIANT NoBillLost
