CONSTANTS
    a = a
    Nobody = Nobody
    Ids = {1, 2}
    Vals = {a}
    PageSize = 2
    LongIds = {}
    Plain = {p1}
    Sessions = {s1}
    MaxOps = 2
    Verbs = {"rollback"}
    MaxLate = 0
    MaxUnfinished = 0
    Printed <- Distinct
    Queries <- SomeQueries
    Commands <- SomeCommands
SPECIFICATION FocusSpec
INVARIANTS RollbackReverts
