------------------------------ MODULE RowStore ------------------------------
(***************************************************************************)
(* The table behind a repository of impl/, as the statements of            *)
(* writemodel.go and readmodel.go see it: a set of rows with a primary     *)
(* key, one column `val' that filters look at, and gorm's soft-delete      *)
(* column.  A command maps a table to the set of tables it may leave: one  *)
(* table, or none when the statement is refused (no such row, duplicate    *)
(* key) and its transaction rolls back.  A query maps a table to the set   *)
(* of answers it finds: one answer, or none when GORM reports that there   *)
(* is no such record, an outcome the repository never caches.              *)
(***************************************************************************)
EXTENDS Naturals, Sequences, FiniteSets

CONSTANTS
    Ids,        \* primary keys the callers use
    Vals,       \* values of the column that filters look at
    PageSize,   \* rows on a page (20 unless WithPage says otherwise)
    Printed,    \* Printed[f]: what fmt's %v makes of the filter f
    Queries,    \* the queries callers make, a set of Query records
    Commands    \* the commands callers make, a set of Command records

Row == [id : Ids, val : Vals, deleted : BOOLEAN]

\* A filter is the set of values it lets through; the empty map of the code
\* lets every value through.
Filters == SUBSET Vals

IdKinds == {"find", "exists", "search"}
FilterKinds == {"findby", "list", "count", "listSoft", "nolistSoft"}

\* %v is not injective: the number 1 and the string "1" print alike, and so do
\* {name: "a role:admin"} and {name: "a", role: "admin"}.
Texts == {Printed[f] : f \in Filters}

\* The cache key of a query, without its namespace: what the code formats as
\* "find:<id>", "list:filter=<filter>:ps=<n>" and so on.
Keys == (IdKinds \X Ids) \cup (FilterKinds \X Texts)

\* A query is its key, its filter if it has one, the direction of its ORDER
\* BY, and whether the code keeps it away from the cache (WithPreload, or a
\* page other than the first).
Query ==
    [key : Keys, filter : Filters, order : {"ASC", "DESC"}, direct : BOOLEAN]

\* A command names the rows it changes and the ids whose cache entries the
\* code deletes.  They are the same set, with two exceptions.  An Upsert that
\* collides on another column than the primary key rewrites the row it
\* collides with and deletes the entries of the id the caller put into the
\* entity.  A Patch whose map has the key "id" (PatchId) moves its row to
\* another id and deletes the entries of the old one.
Ops == {"Insert", "Update", "Replace", "Upsert", "Delete", "HardDelete",
        "SoftDelete", "Restore", "PatchId"}
Command ==
    [op : Ops, ids : (SUBSET Ids) \ {{}}, rows : (SUBSET Ids) \ {{}}, val : Vals]

ASSUME IdsAreNumbers == Ids \subseteq Nat
\* Keys and columns have a width.
ASSUME FiniteRows == IsFiniteSet(Row)
ASSUME PageSizePositive == PageSize \in Nat \ {0}
ASSUME PrintedAssumption == DOMAIN Printed = Filters
ASSUME QueriesAreQueries == Queries \subseteq Query
ASSUME KeysArePrinted ==
    \A q \in Queries : q.key[1] \in FilterKinds => q.key[2] = Printed[q.filter]
ASSUME CommandsAreCommands == Commands \subseteq Command
ASSUME OthersNameTheirRows ==
    \A c \in Commands : c.op \notin {"Upsert", "PatchId"} => c.rows = c.ids
ASSUME PatchIdMovesARow ==
    \A c \in Commands : c.op = "PatchId" =>
        \E i, j \in Ids : i # j /\ c.ids = {i} /\ c.rows = {i, j}

PrimaryKey(t) == \A r, s \in t : r.id = s.id => r = s

\* gorm's default scope: the rows whose deleted_at is NULL.
Live(t) == {r \in t : ~r.deleted}

Fresh(ids, v) == {[id |-> i, val |-> v, deleted |-> FALSE] : i \in ids}

-----------------------------------------------------------------------------
(* What a command leaves behind.                                           *)

Insert_NoUniqueIndex(t, c) == {t \cup Fresh(c.ids, c.val)}

\* Insert and InsertBatch.  The unique index also sees soft-deleted rows.
Insert(t, c) ==
    IF \E r \in t : r.id \in c.ids THEN {} ELSE {t \cup Fresh(c.ids, c.val)}

\* Update writes the columns of its row.  The look-up before it,
\* First(new(T)), has no condition: any live row satisfies it.  So an Update
\* of an id that is not there changes nothing and returns nil.  Where no row
\* is live at all it is an error, like others that a statement may meet.
Update(t, c) ==
    {{IF ~r.deleted /\ r.id \in c.ids THEN [r EXCEPT !.val = c.val] ELSE r
         : r \in t}}

\* Replace and Patch: find the live row by its id, then write its columns.
Replace(t, c) ==
    IF \E r \in Live(t) : r.id \in c.ids THEN Update(t, c) ELSE {}

\* ON CONFLICT DO UPDATE of every other column: deleted_at included, so that
\* an upsert revives a soft-deleted row.  A collision needs its row.
Upsert(t, c) ==
    IF c.rows = c.ids \/ \E r \in t : r.id \in c.rows
    THEN {{r \in t : r.id \notin c.rows} \cup Fresh(c.rows, c.val)}
    ELSE {}

\* Delete and DeleteBatch: both statements are Unscoped, the row is removed.
Delete(t, c) ==
    IF \E r \in t : r.id \in c.ids THEN {{r \in t : r.id \notin c.ids}} ELSE {}

HardDelete(t, c) ==
    IF \E r \in t : r.id \in c.ids THEN {{r \in t : r.id \notin c.ids}} ELSE {}

SoftDelete(t, c) ==
    IF \E r \in Live(t) : r.id \in c.ids
    THEN {{IF r.id \in c.ids THEN [r EXCEPT !.deleted = TRUE] ELSE r : r \in t}}
    ELSE {}

\* Restore finds the row whatever its state, so it also accepts a live one.
Restore(t, c) ==
    IF \E r \in t : r.id \in c.ids
    THEN {{IF r.id \in c.ids THEN [r EXCEPT !.deleted = FALSE] ELSE r : r \in t}}
    ELSE {}

\* Patch of the column id: refused if the other id is taken.
PatchId(t, c) ==
    IF (\E r \in Live(t) : r.id \in c.ids) /\ ~(\E r \in t : r.id \in c.rows \ c.ids)
    THEN {{IF r.id \in c.ids THEN [r EXCEPT !.id = CHOOSE j \in c.rows : j \notin c.ids]
                             ELSE r : r \in t}}
    ELSE {}

Effect(t, c) ==
    CASE c.op = "Insert"     -> Insert(t, c)
      [] c.op = "Update"     -> Update(t, c)
      [] c.op = "Replace"    -> Replace(t, c)
      [] c.op = "Upsert"     -> Upsert(t, c)
      [] c.op = "Delete"     -> Delete(t, c)
      [] c.op = "HardDelete" -> HardDelete(t, c)
      [] c.op = "SoftDelete" -> SoftDelete(t, c)
      [] c.op = "Restore"    -> Restore(t, c)
      [] c.op = "PatchId"    -> PatchId(t, c)

-----------------------------------------------------------------------------
(* What a query answers.                                                   *)

Matching(t, f) == {r \in Live(t) : r.val \in f}

\* OFFSET 0 LIMIT PageSize of the rows in primary-key order: the n-th row of
\* the page is the one with n - 1 rows before it.
FirstPage(rows, order) ==
    LET before(r) == {s \in rows : IF order = "ASC" THEN s.id < r.id ELSE r.id < s.id}
        size == Cardinality(rows)
    IN  [n \in 1 .. (IF size < PageSize THEN size ELSE PageSize) |->
            CHOOSE r \in rows : Cardinality(before(r)) = n - 1]

Exists(t, i) == {\E r \in Live(t) : r.id = i}
Count(t, f) == {Cardinality(Matching(t, f))}
Find(t, i) == {r \in Live(t) : r.id = i}
\* First orders by primary key.
FindBy(t, f) == {r \in Matching(t, f) : \A s \in Matching(t, f) : r.id <= s.id}
List(t, f, order) == {FirstPage(Matching(t, f), order)}
OnlyListDeleted(t, order) == {FirstPage(t \ Live(t), order)}
NoListDeleted(t, order) == {FirstPage(Live(t), order)}
Search(t, i) == {r \in t : r.id = i /\ r.deleted}

Answer(t, q) ==
    CASE q.key[1] = "exists"     -> Exists(t, q.key[2])
      [] q.key[1] = "count"      -> Count(t, q.filter)
      [] q.key[1] = "find"       -> Find(t, q.key[2])
      [] q.key[1] = "findby"     -> FindBy(t, q.filter)
      [] q.key[1] = "list"       -> List(t, q.filter, q.order)
      [] q.key[1] = "listSoft"   -> OnlyListDeleted(t, q.order)
      [] q.key[1] = "nolistSoft" -> NoListDeleted(t, q.order)
      [] q.key[1] = "search"     -> Search(t, q.key[2])
=============================================================================
