CONSTANTS
    a = a
    b = b
    Ids = {1, 2, 3, 4}
    Vals = {a, b}
    PageSize = 2
    Printed <- Distinct
    Queries <- StreamQueries
    Commands <- StreamCommands
    Streams = {s1}
    BatchSizes = {0, 1, 2}
    DefaultBatch = 3
SPECIFICATION FairSpec
INVARIANTS StreamInv CountIsRight OneSnapshot EachOnceInOneOrder
PROPERTIES StreamEnds
