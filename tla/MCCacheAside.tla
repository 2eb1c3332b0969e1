---------------------------- MODULE MCCacheAside ----------------------------
(***************************************************************************)
(* Instances of CacheAside for TLC.                                        *)
(***************************************************************************)
EXTENDS CacheAside, TLC

CONSTANTS a, b, q1, c1, w1

\* Goroutines are alike.
Symmetry == Permutations(Procs)

\* Filters print as they are; or they all print alike.
Distinct == [f \in Filters |-> f]
Alike == [f \in Filters |-> Vals]

\* A query by id, and one by filter.
I(kind, i) == [key |-> <<kind, i>>, filter |-> {}, order |-> "ASC", direct |-> FALSE]
F(kind, f) ==
    [key |-> <<kind, Printed[f]>>, filter |-> f, order |-> "ASC", direct |-> FALSE]
C(op, ids, v) == [op |-> op, ids |-> ids, rows |-> ids, val |-> v]

\* An upsert that brings id 1 and collides with row 2 on another column, and
\* a patch that moves row 1 to id 2.
Stray == [C("Upsert", {1}, a) EXCEPT !.rows = {2}]
Move == [C("PatchId", {1}, a) EXCEPT !.rows = {1, 2}]

\* A query of each kind, Find also with WithPreload and of another row.
AllQueries ==
    {I("find", 1), [I("find", 1) EXCEPT !.direct = TRUE], I("find", 2),
     I("exists", 1), I("search", 1), F("findby", {a}), F("list", Vals),
     F("count", Vals), F("listSoft", Vals), F("nolistSoft", Vals)}

\* For several instances, with a SET that may run late: entries that some of
\* the commands outdate and delete, and others, or with an id 1 that is too
\* long most of them, outdate and leave.
RaceQueries == {I("exists", 1), I("exists", 2)}
RaceCommands == {C("Upsert", {1}, a), C("SoftDelete", {2}, a), Stray, Move}

\* A command of each kind, on two rows where there is a batch.
AllCommands ==
    {C("Insert", {1, 2}, a), C("Update", {1}, b), C("Replace", {2}, b), C("Upsert", {1}, a),
     C("Delete", {1, 2}, a), C("HardDelete", {2}, a), C("SoftDelete", {1}, a),
     C("Restore", {1}, a)}

\* The smallest table whose entry can go stale: one row that comes and goes.
\* Two filters share the entry; one of them lets no row through.
LiveQueries == {F("findby", Vals), F("findby", {})}
LiveCommands == {C("Upsert", {1}, a), C("Delete", {1}, a)}

\* The same list in both directions.
OrderQueries == {F("list", Vals), [F("list", Vals) EXCEPT !.order = "DESC"]}
=============================================================================
