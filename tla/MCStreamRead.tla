---------------------------- MODULE MCStreamRead ----------------------------
(***************************************************************************)
(* An instance of StreamRead for TLC.                                      *)
(***************************************************************************)
EXTENDS StreamRead

CONSTANTS a, b

\* %v of these filters.
Distinct == [f \in Filters |-> f]

StreamQueries == {}

\* Rows that come, go, and change the side of the filter they are on.
StreamCommands ==
    {[op |-> "Insert", ids |-> Ids, rows |-> Ids, val |-> a],
     [op |-> "Replace", ids |-> {1}, rows |-> {1}, val |-> b],
     [op |-> "Delete", ids |-> {2, 3}, rows |-> {2, 3}, val |-> a],
     [op |-> "SoftDelete", ids |-> {1}, rows |-> {1}, val |-> a]}
=============================================================================
