CONSTANTS
    Calls <- AllCalls
    MaxAttempts = 5
    MaxRetries = 5
    Steps = 3
    Timeouts = TRUE
    Texts = {"other40001"}
SPECIFICATION FairSpec
CHECK_DEADLOCK FALSE
INVARIANTS TypeOK AtMostOnce AllOrNothing
PROPERTIES CallEnds
