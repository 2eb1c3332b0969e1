CONSTANTS
    a = a
    Nobody = Nobody
    Ids = {1, 2}
    Vals = {a}
    PageSize = 2
    LongIds = {}
    Plain = {p1}
    Sessions = {s1, s2}
    MaxOps = 2
    Verbs = {"rollback"}
    MaxLate = 1
    MaxUnfinished = 1
    Printed <- Distinct
    Queries <- SomeQueries
    Commands <- SomeCommands
SPECIFICATION FocusSpec
SYMMETRY SessionSymmetry
INVARIANTS SessionInv FillersInv
PROPERTIES StaleOnlyBySessions
