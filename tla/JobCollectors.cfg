SPECIFICATION Spec
CONSTANTS
    j1 = j1
    j2 = j2
    j3 = j3
    NoJob = NoJob
    Jobs <- MCJobs
    KindOf <- MCKinds
    Searches <- MCSearches
    MaxRunning = 2
    Ring = 2
    Total <- MCTotal
    MaxFaults = 1
    MaxAborts = 1
INVARIANT ThreadOwnsSlot
INVARIANT ResultIsWhole
INVARIANT NoJobLeftBehind
CHECK_DEADLOCK FALSE
