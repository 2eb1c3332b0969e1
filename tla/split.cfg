CONSTANTS
    a = a
    b = b
    q1 = q1
    c1 = c1
    w1 = w1
    NoCall = NoCall
    Ids = {1, 2}
    Vals = {a}
    PageSize = 2
    LongIds = {1}
    Procs = {p1, p2}
    Instances = {q1, c1, w1}
    ReadInst = {q1, c1}
    WriteInst = {c1, w1}
    Cached = {q1, c1}
    MaxAttempts = 2
    MaxLate = 1
    MaxUnfinished = 1
    Misread = TRUE
    Printed <- Distinct
    Queries <- RaceQueries
    Commands <- RaceCommands
SYMMETRY Symmetry
SPECIFICATION FocusSpec
PROPERTIES StaleOnlyByRace
