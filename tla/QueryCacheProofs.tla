-------------------------- MODULE QueryCacheProofs --------------------------
(***************************************************************************)
(* What commands do to the table, what a page shows of it, and why the     *)
(* keys that invalidateAfterWrite deletes are enough, whatever the ids,    *)
(* values, queries and commands.                                           *)
(***************************************************************************)
EXTENDS QueryCache, FiniteSetTheorems, TLAPS

-----------------------------------------------------------------------------
(* Commands.                                                               *)

\* The rows Create writes, one for each id.
LEMMA FreshRows ==
    ASSUME NEW ids \in SUBSET Ids, NEW v \in Vals
    PROVE  /\ Fresh(ids, v) \subseteq Row
           /\ \A r \in Fresh(ids, v) : r.id \in ids
           /\ \A r, s \in Fresh(ids, v) : r.id = s.id => r = s
<1> DEFINE row(i) == [id |-> i, val |-> v, deleted |-> FALSE]
<1>1. \A i \in ids : row(i) \in Row /\ row(i).id = i
  BY DEF Row
<1>2. Fresh(ids, v) = {row(i) : i \in ids}
  BY DEF Fresh
<1> HIDE DEF row
<1>3. QED
  BY <1>1, <1>2

\* A command leaves a table of rows with a primary key: the unique index that
\* Insert runs into is what keeps Create from doubling an id.
LEMMA EffectKeepsPrimaryKey ==
    ASSUME NEW t, t \subseteq Row, PrimaryKey(t),
           NEW c \in Commands, NEW u \in Effect(t, c)
    PROVE  u \subseteq Row /\ PrimaryKey(u)
<1>1. /\ c.op \in Ops /\ c.ids \subseteq Ids /\ c.rows \subseteq Ids
      /\ c.val \in Vals
  BY CommandsAreCommands DEF Command
<1>2. CASE c.op = "Insert"
  <2>1. u = t \cup Fresh(c.ids, c.val) /\ \A r \in t : r.id \notin c.ids
    BY <1>2 DEF Effect, Insert
  <2>2. QED
    BY <2>1, FreshRows, <1>1 DEF PrimaryKey
<1>3. CASE c.op \in {"Update", "Replace"}
  <2> DEFINE w(r) == IF ~r.deleted /\ r.id \in c.ids
                    THEN [r EXCEPT !.val = c.val] ELSE r
  <2>1. u = {w(r) : r \in t}
    BY <1>3 DEF Effect, Update, Replace
  <2>2. \A r \in t : w(r) \in Row /\ w(r).id = r.id
    BY <1>1 DEF Row
  <2> HIDE DEF w
  <2>3. QED
    BY <2>1, <2>2 DEF PrimaryKey
<1>4. CASE c.op = "Upsert"
  <2>1. u = {r \in t : r.id \notin c.rows} \cup Fresh(c.rows, c.val)
    BY <1>4 DEF Effect, Upsert
  <2>2. QED
    BY <2>1, FreshRows, <1>1 DEF PrimaryKey
<1>5. CASE c.op \in {"Delete", "HardDelete"}
  <2>1. u \subseteq t
    BY <1>5 DEF Effect, Delete, HardDelete
  <2>2. QED
    BY <2>1 DEF PrimaryKey
<1>6. CASE c.op = "SoftDelete"
  <2> DEFINE w(r) == IF r.id \in c.ids THEN [r EXCEPT !.deleted = TRUE] ELSE r
  <2>1. u = {w(r) : r \in t}
    BY <1>6 DEF Effect, SoftDelete
  <2>2. \A r \in t : w(r) \in Row /\ w(r).id = r.id
    BY <1>1 DEF Row
  <2> HIDE DEF w
  <2>3. QED
    BY <2>1, <2>2 DEF PrimaryKey
<1>7. CASE c.op = "Restore"
  <2> DEFINE w(r) == IF r.id \in c.ids THEN [r EXCEPT !.deleted = FALSE] ELSE r
  <2>1. u = {w(r) : r \in t}
    BY <1>7 DEF Effect, Restore
  <2>2. \A r \in t : w(r) \in Row /\ w(r).id = r.id
    BY <1>1 DEF Row
  <2> HIDE DEF w
  <2>3. QED
    BY <2>1, <2>2 DEF PrimaryKey
<1>8. CASE c.op = "PatchId"
  <2>1. PICK i, j \in Ids : i # j /\ c.ids = {i} /\ c.rows = {i, j}
    BY <1>8, PatchIdMovesARow
  <2>2. (CHOOSE k \in c.rows : k \notin c.ids) = j
    BY <2>1
  <2> DEFINE w(r) == IF r.id \in c.ids THEN [r EXCEPT !.id = j] ELSE r
  <2>3. u = {w(r) : r \in t} /\ \A r \in t : r.id # j
    BY <1>8, <2>1, <2>2 DEF Effect, PatchId
  <2>4. \A r \in t : w(r) \in Row /\ w(r).id = IF r.id = i THEN j ELSE r.id
    BY <2>1 DEF Row
  <2> HIDE DEF w
  <2>5. QED
    BY <2>3, <2>4 DEF PrimaryKey
<1>9. QED
  BY <1>1, <1>2, <1>3, <1>4, <1>5, <1>6, <1>7, <1>8 DEF Ops

\* A command leaves every row but the ones it writes as it was.
LEMMA EffectIsLocal ==
    ASSUME NEW t, t \subseteq Row, NEW c \in Commands, NEW u \in Effect(t, c),
           NEW i \in Ids, i \notin c.rows
    PROVE  {r \in u : r.id = i} = {r \in t : r.id = i}
<1>1. c.op \in Ops
  BY CommandsAreCommands DEF Command
<1>a. c.op \notin {"Upsert", "PatchId"} => i \notin c.ids
  BY OthersNameTheirRows
<1>2. CASE c.op = "Insert"
  BY <1>a, <1>2 DEF Effect, Insert, Fresh
<1>3. CASE c.op \in {"Update", "Replace"}
  <2>1. u = {IF ~r.deleted /\ r.id \in c.ids THEN [r EXCEPT !.val = c.val] ELSE r
               : r \in t}
    BY <1>3 DEF Effect, Update, Replace
  <2>2. QED
    BY <1>a, <1>3, <2>1 DEF Row
<1>4. CASE c.op = "Upsert"
  BY <1>4 DEF Effect, Upsert, Fresh
<1>5. CASE c.op \in {"Delete", "HardDelete"}
  BY <1>a, <1>5 DEF Effect, Delete, HardDelete
<1>6. CASE c.op = "SoftDelete"
  <2>1. u = {IF r.id \in c.ids THEN [r EXCEPT !.deleted = TRUE] ELSE r : r \in t}
    BY <1>6 DEF Effect, SoftDelete
  <2>2. QED
    BY <1>a, <1>6, <2>1 DEF Row
<1>7. CASE c.op = "Restore"
  <2>1. u = {IF r.id \in c.ids THEN [r EXCEPT !.deleted = FALSE] ELSE r : r \in t}
    BY <1>7 DEF Effect, Restore
  <2>2. QED
    BY <1>a, <1>7, <2>1 DEF Row
<1>8. CASE c.op = "PatchId"
  <2>1. PICK j, k \in Ids : j # k /\ c.ids = {j} /\ c.rows = {j, k}
    BY <1>8, PatchIdMovesARow
  <2>2. (CHOOSE n \in c.rows : n \notin c.ids) = k
    BY <2>1
  <2>3. u = {IF r.id = j THEN [r EXCEPT !.id = k] ELSE r : r \in t}
    BY <1>8, <2>1, <2>2 DEF Effect, PatchId
  <2>4. QED
    BY <2>1, <2>3 DEF Row
<1>9. QED
  BY <1>1, <1>2, <1>3, <1>4, <1>5, <1>6, <1>7, <1>8 DEF Ops

-----------------------------------------------------------------------------
(* Pages.                                                                  *)

\* Sets of rows are finite, so that their sizes are numbers.
LEMMA RowSetsAreFinite ==
    ASSUME NEW rows \in SUBSET Row
    PROVE  IsFiniteSet(rows) /\ Cardinality(rows) \in Nat
BY FiniteRows, FS_Subset, FS_CardinalityType

\* The rows of a table that come before a row of it, and the length of its
\* first page.
Before(rows, r, order) ==
    {s \in rows : IF order = "ASC" THEN s.id < r.id ELSE r.id < s.id}
PageLength(rows) ==
    IF Cardinality(rows) < PageSize THEN Cardinality(rows) ELSE PageSize

LEMMA PageUnfolds ==
    ASSUME NEW rows, NEW order
    PROVE  FirstPage(rows, order) =
              [n \in 1 .. PageLength(rows) |->
                  CHOOSE r \in rows : Cardinality(Before(rows, r, order)) = n - 1]
BY DEF FirstPage, Before, PageLength

LEMMA PageLengths ==
    ASSUME NEW rows \in SUBSET Row
    PROVE  /\ PageLength(rows) \in Nat
           /\ PageLength(rows) <= PageSize /\ PageLength(rows) <= Cardinality(rows)
           /\ PageLength(rows) # PageSize => PageLength(rows) = Cardinality(rows)
BY RowSetsAreFinite, PageSizePositive DEF PageLength

\* A row has more rows before it than each of those has.
LEMMA RanksGrow ==
    ASSUME NEW rows \in SUBSET Row, NEW order, NEW r \in rows,
           NEW s \in Before(rows, r, order)
    PROVE  /\ Cardinality(Before(rows, s, order)) \in Nat
           /\ Cardinality(Before(rows, r, order)) \in Nat
           /\ Cardinality(Before(rows, s, order)) < Cardinality(Before(rows, r, order))
<1>1. \A q \in rows : q.id \in Nat
  BY IdsAreNumbers DEF Row
<1>2. Before(rows, s, order) \subseteq Before(rows, r, order)
  BY <1>1 DEF Before
<1>3. s \notin Before(rows, s, order)
  BY <1>1 DEF Before
<1>4. Before(rows, r, order) \in SUBSET Row /\ Before(rows, s, order) \in SUBSET Row
  BY DEF Before
<1>5. Cardinality(Before(rows, s, order)) # Cardinality(Before(rows, r, order))
  BY <1>2, <1>3, <1>4, RowSetsAreFinite, FS_Subset
<1>6. QED
  BY <1>2, <1>4, <1>5, RowSetsAreFinite, FS_Subset

\* No two rows have the same number of rows before them,
LEMMA RanksDiffer ==
    ASSUME NEW rows \in SUBSET Row, PrimaryKey(rows), NEW order,
           NEW r \in rows, NEW s \in rows,
           Cardinality(Before(rows, r, order)) = Cardinality(Before(rows, s, order))
    PROVE  r = s
<1>1. r.id \in Nat /\ s.id \in Nat
  BY IdsAreNumbers DEF Row
<1>2. r \notin Before(rows, s, order)
  BY RanksGrow
<1>3. s \notin Before(rows, r, order)
  BY RanksGrow
<1>4. r.id = s.id
  BY <1>1, <1>2, <1>3 DEF Before
<1>5. QED
  BY <1>4 DEF PrimaryKey

\* and so every number up to their own occurs: an injection of a finite set
\* into one of its size is a surjection.
LEMMA RanksCover ==
    ASSUME NEW rows \in SUBSET Row, PrimaryKey(rows), NEW order,
           NEW n \in 1 .. Cardinality(rows)
    PROVE  \E r \in rows : Cardinality(Before(rows, r, order)) = n - 1
<1> DEFINE size == Cardinality(rows)
           rank == [r \in rows |-> Cardinality(Before(rows, r, order))]
<1>1. IsFiniteSet(rows) /\ size \in Nat
  BY RowSetsAreFinite
<1>2. \A r \in rows : rank[r] \in 0 .. size - 1
  <2>1. SUFFICES ASSUME NEW r \in rows
                 PROVE  Cardinality(Before(rows, r, order)) \in 0 .. size - 1
    OBVIOUS
  <2>2. Before(rows, r, order) \in SUBSET rows /\ Before(rows, r, order) \in SUBSET Row
    BY DEF Before
  <2>3. r.id \in Nat
    BY IdsAreNumbers DEF Row
  <2>4. r \notin Before(rows, r, order)
    BY <2>3 DEF Before
  <2>5. Before(rows, r, order) # rows
    BY <2>4
  <2>6. Cardinality(Before(rows, r, order)) \in Nat
    BY <2>2, RowSetsAreFinite
  <2>7. /\ Cardinality(Before(rows, r, order)) <= size
        /\ Cardinality(Before(rows, r, order)) # size
    BY <1>1, <2>2, <2>5, FS_Subset
  <2>8. QED
    BY <1>1, <2>6, <2>7
<1>3. rank \in Injection(rows, 0 .. size - 1)
  BY <1>2, RanksDiffer DEF Injection, IsInjective
<1>4. IsFiniteSet(0 .. size - 1) /\ Cardinality(0 .. size - 1) = size
  <2> HIDE DEF size
  <2>1. size - 1 \in Int
    BY <1>1
  <2>2. /\ IsFiniteSet(0 .. size - 1)
        /\ Cardinality(0 .. size - 1) = IF 0 > size - 1 THEN 0 ELSE (size - 1) - 0 + 1
    BY <2>1, FS_Interval
  <2>3. QED
    BY <1>1, <2>2
<1>5. rank \in Surjection(rows, 0 .. size - 1)
  BY <1>1, <1>3, <1>4, FS_Injection
<1>6. n - 1 \in 0 .. size - 1
  BY <1>1
<1>7. QED
  BY <1>5, <1>6 DEF Surjection

\* What the first page shows: on its n-th line the row that has n - 1 rows
\* before it.
LEMMA PageShows ==
    ASSUME NEW rows \in SUBSET Row, PrimaryKey(rows), NEW order
    PROVE  LET page == FirstPage(rows, order)
           IN  /\ DOMAIN page = 1 .. PageLength(rows)
               /\ \A n \in DOMAIN page :
                     /\ page[n] \in rows
                     /\ Cardinality(Before(rows, page[n], order)) = n - 1
<1> DEFINE page == FirstPage(rows, order)
<1>1. DOMAIN page = 1 .. PageLength(rows)
  BY PageUnfolds
<1>2. ASSUME NEW n \in 1 .. PageLength(rows)
      PROVE  page[n] \in rows /\ Cardinality(Before(rows, page[n], order)) = n - 1
  <2>1. page[n] = CHOOSE r \in rows : Cardinality(Before(rows, r, order)) = n - 1
    BY PageUnfolds
  <2>2. n \in 1 .. Cardinality(rows)
    BY PageLengths, RowSetsAreFinite
  <2>3. \E r \in rows : Cardinality(Before(rows, r, order)) = n - 1
    BY <2>2, RanksCover
  <2> HIDE DEF page
  <2>4. QED
    BY <2>1, <2>3
<1> HIDE DEF page
<1>3. QED
  BY <1>1, <1>2 DEF page

\* A row with less than a page of rows before it is on the page.
LEMMA PageHas ==
    ASSUME NEW rows \in SUBSET Row, PrimaryKey(rows), NEW order, NEW r \in rows,
           NEW n \in 1 .. PageLength(rows),
           Cardinality(Before(rows, r, order)) = n - 1
    PROVE  FirstPage(rows, order)[n] = r
<1>1. /\ FirstPage(rows, order)[n] \in rows
      /\ Cardinality(Before(rows, FirstPage(rows, order)[n], order)) = n - 1
  BY PageShows
<1>2. QED
  BY <1>1, RanksDiffer

\* A page that is not full shows every row.
LEMMA ShortPageShowsAll ==
    ASSUME NEW rows \in SUBSET Row, PrimaryKey(rows), NEW order,
           PageLength(rows) # PageSize, NEW r \in rows
    PROVE  \E n \in 1 .. PageLength(rows) : FirstPage(rows, order)[n] = r
<1>1. PageLength(rows) = Cardinality(rows)
  BY PageLengths
<1>2. Before(rows, r, order) \in SUBSET rows /\ r \notin Before(rows, r, order)
  <2>1. r.id \in Nat
    BY IdsAreNumbers DEF Row
  <2>2. QED
    BY <2>1 DEF Before
<1>3. /\ Cardinality(Before(rows, r, order)) \in Nat /\ Cardinality(rows) \in Nat
      /\ Cardinality(Before(rows, r, order)) < Cardinality(rows)
  <2>1. IsFiniteSet(rows) /\ Cardinality(rows) \in Nat
    BY RowSetsAreFinite
  <2>2. Before(rows, r, order) # rows
    BY <1>2
  <2>3. Cardinality(Before(rows, r, order)) \in Nat
    BY <1>2, <2>1, FS_Subset, FS_CardinalityType
  <2>4. /\ Cardinality(Before(rows, r, order)) <= Cardinality(rows)
        /\ Cardinality(Before(rows, r, order)) # Cardinality(rows)
    BY <1>2, <2>1, <2>2, FS_Subset
  <2>5. QED
    BY <2>1, <2>3, <2>4
<1> DEFINE n == Cardinality(Before(rows, r, order)) + 1
<1>4. n \in 1 .. PageLength(rows) /\ Cardinality(Before(rows, r, order)) = n - 1
  BY <1>1, <1>3
<1> HIDE DEF n
<1>5. QED
  BY <1>4, PageHas

\* The rows before a row of the page are on the page.
LEMMA PageIsClosed ==
    ASSUME NEW rows \in SUBSET Row, PrimaryKey(rows), NEW order,
           NEW n \in 1 .. PageLength(rows),
           NEW s \in Before(rows, FirstPage(rows, order)[n], order)
    PROVE  \E m \in 1 .. PageLength(rows) : FirstPage(rows, order)[m] = s
<1> DEFINE r == FirstPage(rows, order)[n]
           m == Cardinality(Before(rows, s, order)) + 1
<1>1. r \in rows /\ Cardinality(Before(rows, r, order)) = n - 1
  BY PageShows
<1>2. s \in rows
  BY DEF Before
<1>3. /\ Cardinality(Before(rows, s, order)) \in Nat
      /\ Cardinality(Before(rows, s, order)) < n - 1
  BY <1>1, RanksGrow
<1>4. m \in 1 .. PageLength(rows) /\ Cardinality(Before(rows, s, order)) = m - 1
  BY <1>3, PageLengths
<1> HIDE DEF m
<1>5. QED
  BY <1>2, <1>4, PageHas

\* Two tables that agree on the first page: so does every table that has the
\* rows they share and no row that neither of them has.
LEMMA SamePage ==
    ASSUME NEW t \in SUBSET Row, PrimaryKey(t), NEW v \in SUBSET Row, PrimaryKey(v),
           NEW u \in SUBSET Row, PrimaryKey(u), NEW order,
           FirstPage(t, order) = FirstPage(v, order),
           t \cap v \subseteq u, u \subseteq t \cup v
    PROVE  FirstPage(u, order) = FirstPage(t, order)
<1> DEFINE page == FirstPage(t, order)
           len == PageLength(t)
<1>1. PageLength(v) = len
  <2>1. 1 .. PageLength(v) = 1 .. len
    BY PageShows
  <2>2. PageLength(v) \in Nat /\ len \in Nat
    BY PageLengths
  <2>3. \A a, b \in Nat : 1 .. a = 1 .. b => a <= b
    <3>1. SUFFICES ASSUME NEW a \in Nat, NEW b \in Nat, a # 0, 1 .. a = 1 .. b
                   PROVE  a <= b
      OBVIOUS
    <3>2. a \in 1 .. a
      BY <3>1
    <3>3. a \in 1 .. b
      BY <3>1, <3>2, Zenon
    <3>4. QED
      BY <3>3
  <2> HIDE DEF len
  <2>4. PageLength(v) <= len
    BY <2>1, <2>2, <2>3
  <2>5. len <= PageLength(v)
    BY <2>1, <2>2, <2>3
  <2>6. QED
    BY <2>2, <2>4, <2>5
<1>2. len \in Nat /\ DOMAIN page = 1 .. len
  BY PageLengths, PageShows
<1>3. \A n \in DOMAIN page : page[n] \in t /\ Cardinality(Before(t, page[n], order)) = n - 1
  BY PageShows
<1>4. \A n \in DOMAIN page : page[n] \in v
  BY PageShows
<1>5. CASE len # PageSize
  <2>1. t \subseteq v
    BY <1>2, <1>4, <1>5, ShortPageShowsAll
  <2>2. v \subseteq t
    BY <1>1, <1>2, <1>3, <1>5, ShortPageShowsAll
  <2>3. u = t
    BY <2>1, <2>2
  <2>4. QED
    BY <2>3
<1>6. CASE len = PageSize
  <2>1. ASSUME NEW n \in 1 .. len
        PROVE  Before(u, page[n], order) = Before(t, page[n], order)
    <3>1. ASSUME NEW s \in Before(t, page[n], order) PROVE s \in Before(u, page[n], order)
      <4>1. \E m \in 1 .. len : page[m] = s
        BY PageIsClosed
      <4>2. s \in t /\ s \in v
        BY <1>2, <1>3, <1>4, <4>1
      <4>3. QED
        BY <3>1, <4>2 DEF Before
    <3>2. ASSUME NEW s \in Before(u, page[n], order) PROVE s \in Before(t, page[n], order)
      <4>1. s \in t \/ s \in Before(v, page[n], order)
        BY DEF Before
      <4>2. ASSUME s \in Before(v, page[n], order) PROVE s \in t
        <5>1. \E m \in 1 .. len : page[m] = s
          BY <1>1, <4>2, PageIsClosed
        <5>2. QED
          BY <1>2, <1>3, <5>1
      <4>3. QED
        BY <3>2, <4>1, <4>2 DEF Before
    <3>3. QED
      BY <3>1, <3>2
  <2>2. \A n \in 1 .. len : page[n] \in u
    BY <1>2, <1>3, <1>4
  <2>3. PageLength(u) = len
    <3>1. len \in 1 .. len
      BY <1>2, <1>6, PageSizePositive
    <3>2. Before(t, page[len], order) \in SUBSET u /\ page[len] \in u
      BY <2>1, <2>2, <3>1 DEF Before
    <3>3. page[len] \notin Before(t, page[len], order)
      <4>1. page[len] \in Row
        BY <1>2, <1>3, <3>1
      <4>2. page[len].id \in Nat
        BY <4>1, IdsAreNumbers DEF Row
      <4> HIDE DEF page
      <4>3. QED
        BY <4>2 DEF Before
    <3>4. IsFiniteSet(u) /\ Cardinality(u) \in Nat
      BY RowSetsAreFinite
    <3>5. Cardinality(Before(t, page[len], order) \cup {page[len]}) = len
      <4>1. IsFiniteSet(Before(t, page[len], order))
        BY <3>2, <3>4, FS_Subset
      <4>2. Cardinality(Before(t, page[len], order)) = len - 1
        BY <1>2, <1>3, <3>1
      <4>3. Cardinality(Before(t, page[len], order) \cup {page[len]}) = (len - 1) + 1
        BY <3>3, <4>1, <4>2, FS_AddElement
      <4>4. QED
        BY <1>2, <4>3
    <3>6. len <= Cardinality(u)
      BY <3>2, <3>4, <3>5, FS_Subset
    <3>7. QED
      BY <1>2, <1>6, <3>4, <3>6 DEF PageLength
  <2>4. \A n \in 1 .. len : FirstPage(u, order)[n] = page[n]
    BY <1>2, <1>3, <2>1, <2>2, <2>3, PageHas
  <2>5. QED
    BY <2>3, <2>4, PageUnfolds
<1>7. QED
  BY <1>5, <1>6

-----------------------------------------------------------------------------
(* The invalidation.                                                       *)

\* The entries a whole invalidation deletes: the three of each id that is not
\* too long, and everything that a filter could have reached.
LEMMA WholeInvalidation ==
    ASSUME NEW c
    PROVE  /\ IdKinds \X (c.ids \ LongIds) \subseteq DeletedBefore(c, LastStage + 1)
           /\ FilterKinds \X Texts \subseteq DeletedBefore(c, LastStage + 1)
<1>1. \A m \in 0..LastStage : Stage(c, m) \subseteq DeletedBefore(c, LastStage + 1)
  BY DEF DeletedBefore, LastStage
<1>2. Stage(c, 0) = IdKinds \X (c.ids \ LongIds)
  BY DEF Stage, IdKeys, IdKinds, IdKindsDeleted
<1>3. \A kind \in FilterKinds : \E m \in 1..5 : FilterPatterns[m] = kind
  BY DEF FilterPatterns, FilterKinds
<1>4. \A kind \in FilterKinds : \E m \in 0..LastStage : {kind} \X Texts = Stage(c, m)
  BY <1>3 DEF Stage, LastStage
<1>5. QED
  BY <1>1, <1>2, <1>4 DEF LastStage

\* An invalidation deletes keys of the cache, a stage at a time.
LEMMA DeletedKeysAreKeys ==
    ASSUME NEW c \in Commands, NEW n
    PROVE  DeletedBefore(c, n) \subseteq Keys
<1>1. c.ids \subseteq Ids
  BY CommandsAreCommands DEF Command
<1>2. \A m \in 0..LastStage : Stage(c, m) \subseteq Keys
  <2>1. Stage(c, 0) \subseteq Keys
    BY <1>1 DEF Stage, IdKeys, IdKindsDeleted, IdKinds, Keys
  <2>2. \A m \in 1..5 : FilterPatterns[m] \in FilterKinds
    BY DEF FilterPatterns, FilterKinds
  <2>3. \A m \in 1..5 : Stage(c, m) \subseteq Keys
    BY <2>2 DEF Stage, Keys
  <2>4. QED
    BY <2>1, <2>3 DEF LastStage
<1>3. QED
  BY <1>2 DEF DeletedBefore

LEMMA NextStage ==
    ASSUME NEW c, NEW n \in 0..LastStage
    PROVE  DeletedBefore(c, n + 1) = DeletedBefore(c, n) \cup Stage(c, n)
<1>1. {m \in 0..LastStage : m < n + 1} = {m \in 0..LastStage : m < n} \cup {n}
  BY DEF LastStage
<1>2. QED
  BY <1>1 DEF DeletedBefore

\* Find, Exists and Search look at one row.
LEMMA SameRowSameAnswer ==
    ASSUME NEW t, NEW u, NEW i, NEW kind \in IdKinds, NEW q, q.key = <<kind, i>>,
           {r \in u : r.id = i} = {r \in t : r.id = i}
    PROVE  Answer(u, q) = Answer(t, q)
<1>1. CASE kind = "find"
  <2>1. \A x : Answer(x, q) = Find(x, i)
    BY <1>1 DEF Answer
  <2>2. QED
    BY <2>1 DEF Find, Live
<1>2. CASE kind = "exists"
  <2>1. \A x : Answer(x, q) = Exists(x, i)
    BY <1>2 DEF Answer
  <2>2. (\E r \in Live(u) : r.id = i) <=> (\E r \in Live(t) : r.id = i)
    BY DEF Live
  <2>3. QED
    BY <2>1, <2>2 DEF Exists
<1>3. CASE kind = "search"
  <2>1. \A x : Answer(x, q) = Search(x, i)
    BY <1>3 DEF Answer
  <2>2. QED
    BY <2>1 DEF Search
<1>4. QED
  BY <1>1, <1>2, <1>3 DEF IdKinds

\* The invalidation covers the write: an entry it leaves alone, whatever kind
\* of command ran, still holds what its query would answer now, unless it is
\* one of an id that is too long or of a row the command does not name.
THEOREM InvalidationCovers ==
    ASSUME NEW t, t \subseteq Row, NEW c \in Commands, NEW u \in Effect(t, c),
           NEW q \in Queries,
           q.key \notin DeletedBefore(c, LastStage + 1),
           q.key \notin IdKinds \X (LongIds \cup (c.rows \ c.ids))
    PROVE  Answer(u, q) = Answer(t, q)
<1>1. PICK kind \in IdKinds, i \in Ids : q.key = <<kind, i>>
  BY QueriesAreQueries, WholeInvalidation DEF Query, Keys
<1>2. i \notin c.rows
  BY <1>1, WholeInvalidation
<1>3. {r \in u : r.id = i} = {r \in t : r.id = i}
  BY <1>2, EffectIsLocal
<1>4. QED
  BY <1>1, <1>3, SameRowSameAnswer
=============================================================================
