--------------------------- MODULE MCBulkByFilter ---------------------------
(***************************************************************************)
(* An instance of BulkByFilter for TLC.                                    *)
(***************************************************************************)
EXTENDS BulkByFilter

CONSTANTS a, b

\* %v of these filters.
Distinct == [f \in Filters |-> f]

Ask(op, f, v) == [op |-> op, filter |-> f, val |-> v]

\* Write every row of a value, move one value to another, remove a value.
SomeBulks ==
    {Ask("UpdateMany", Vals, b), Ask("UpdateMany", {a}, b),
     Ask("DeleteMany", {a}, a)}

\* The calls they are made of, which others make as well, and the commands
\* that fill the table.
BulkQueries == {ListOf(b1.filter) : b1 \in SomeBulks}
BulkCommands ==
    {Patch(i, b) : i \in Ids}
        \cup {DeleteBatch(ids, a) : ids \in (SUBSET Ids) \ {{}}}
        \cup {[op |-> "Upsert", ids |-> {1}, rows |-> {1}, val |-> a],
              [op |-> "Insert", ids |-> Ids, rows |-> Ids, val |-> a]}
=============================================================================
