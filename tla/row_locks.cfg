CONSTANTS
    Procs = {p1, p2}
    Instances = {x}
    Ids = {i}
    MaxAttempts = 2
    MaxSteps = 2
SPECIFICATION FairSpec
INVARIANTS TypeOK LockedRowsStay UnseenDeadlockNeedsParentCall
PROPERTIES CallsReturn
