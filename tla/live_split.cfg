CONSTANTS
    a = a
    b = b
    q1 = q1
    c1 = c1
    w1 = w1
    NoCall = NoCall
    Ids = {1}
    Vals = {a}
    PageSize = 2
    LongIds = {}
    Procs = {p1, p2}
    Instances = {q1, c1}
    ReadInst = {q1, c1}
    WriteInst = {q1, c1}
    Cached = {q1, c1}
    MaxAttempts = 2
    MaxLate = 1
    MaxUnfinished = 1
    Misread = TRUE
    Printed <- Alike
    Queries <- LiveQueries
    Commands <- LiveCommands
SPECIFICATION FairSpec
INVARIANTS MutexInv
PROPERTIES CallsReturn EventuallyCoherent
