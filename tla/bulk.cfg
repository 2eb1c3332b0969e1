CONSTANTS
    a = a
    b = b
    NoCall = NoCall
    NoBulk = NoBulk
    Ids = {1, 2, 3}
    Vals = {a, b}
    PageSize = 3
    Printed <- Distinct
    Procs = {p1, p2}
    Queries <- BulkQueries
    Commands <- BulkCommands
    Bulks <- SomeBulks
SPECIFICATION BulkSpec
CHECK_DEADLOCK FALSE
INVARIANTS CompleteUnlessFullPage ReportIsTrue
