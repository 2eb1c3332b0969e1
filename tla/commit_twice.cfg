CONSTANTS
    Calls <- Transactions
    MaxAttempts = 2
    MaxRetries = 2
    Steps = 2
    Timeouts = FALSE
    Texts = {"broken40001"}
SPECIFICATION Spec
CHECK_DEADLOCK FALSE
INVARIANTS AtMostOnce
