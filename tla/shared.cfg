CONSTANTS
    a = a
    b = b
    q1 = q1
    c1 = c1
    w1 = w1
    NoCall = NoCall
    Ids = {1, 2}
    Vals = {a, b}
    PageSize = 2
    LongIds = {}
    Procs = {p1, p2}
    Instances = {c1}
    ReadInst = {c1}
    WriteInst = {c1}
    Cached = {c1}
    MaxAttempts = 2
    MaxLate = 0
    MaxUnfinished = 0
    Misread = FALSE
    Printed <- Distinct
    Queries <- AllQueries
    Commands <- AllCommands
SYMMETRY Symmetry
SPECIFICATION FocusSpec
INVARIANTS TypeOK CoherenceInv Coherent
PROPERTIES RepositoryIsAtomic
