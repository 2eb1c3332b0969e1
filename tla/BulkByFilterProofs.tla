------------------------- MODULE BulkByFilterProofs -------------------------
(***************************************************************************)
(* What UpdateMany and DeleteMany report is what they did, and without a   *)
(* full page or another writer they did all that was asked of them: for    *)
(* any number of rows, of callers and of commands in between.              *)
(***************************************************************************)
EXTENDS BulkByFilter, QueryCacheProofs, SequenceTheorems

\* The items before the command at hand and those after it; the command.
Covered(p, n) == {items[p][m] : m \in 1 .. n}
Changed(p) == IF bulk[p].op = "UpdateMany" THEN Covered(p, next[p] - 1) ELSE {}
Changing(p) ==
    IF bulk[p].op = "UpdateMany" THEN Covered(p, next[p]) ELSE ItemIds(p)
AtHand(p) ==
    IF bulk[p].op = "UpdateMany" THEN Patch(items[p][next[p]], bulk[p].val)
                                 ELSE DeleteBatch(ItemIds(p), bulk[p].val)

Shape ==
    /\ table \subseteq Row /\ PrimaryKey(table)
    /\ pc \in [Procs -> {"idle", "busy", "done", "failed"}]
    /\ arg = [p \in Procs |-> arg[p]]
    /\ res = [p \in Procs |-> res[p]]
    /\ bulk \in [Procs -> Bulks \cup {NoBulk}]
    /\ phase \in [Procs -> {"none", "list", "apply", "ok", "error"}]
    /\ items \in [Procs -> Seq(Ids)]
    /\ next \in [Procs -> Nat]
    /\ wrote = [p \in Procs |-> wrote[p]]
    /\ disturbed \in [Procs -> BOOLEAN]

\* A bulk call before its first item: its List answers with the first page of
\* some rows, the ones its filter lets through now if nobody wrote since.
Listing(p) ==
    /\ phase[p] # "none" => bulk[p] \in Bulks
    /\ phase[p] \in {"none", "list"} =>
          items[p] = <<>> /\ next[p] = 1 /\ wrote[p] = {}
    /\ phase[p] = "list" /\ pc[p] = "busy" => arg[p] = ListOf(bulk[p].filter)
    /\ phase[p] = "list" /\ pc[p] = "done" =>
          \E rows \in SUBSET Row :
             /\ PrimaryKey(rows) /\ res[p] = {FirstPage(rows, "ASC")}
             /\ ~disturbed[p] => rows = Matching(table, bulk[p].filter)

\* Amid its items.
Applying(p) ==
    phase[p] = "apply" =>
       /\ next[p] \in 1 .. Len(items[p])
       /\ pc[p] = "busy" => arg[p] = AtHand(p)
       /\ pc[p] \in {"idle", "busy"} => wrote[p] = Changed(p)
       /\ pc[p] = "done" => wrote[p] = Changing(p)
       /\ pc[p] = "failed" => wrote[p] \in {Changed(p), Changing(p)}

\* After them.
Reporting(p) ==
    /\ phase[p] \in {"ok", "error"} => pc[p] = "idle"
    /\ phase[p] = "ok" => wrote[p] = ItemIds(p)
    /\ phase[p] = "error" /\ items[p] # <<>> => wrote[p] \in {Changed(p), Changing(p)}

\* What it has still to change it has listed and not written.
Completing(p) ==
    phase[p] \in {"apply", "ok"} /\ ~disturbed[p] /\ Len(items[p]) < PageSize
        => \A r \in Left(p) : r.id \in ItemIds(p) \ wrote[p]

CallInv(p) == Listing(p) /\ Applying(p) /\ Reporting(p) /\ Completing(p)

BulkInv == Shape /\ \A p \in Procs : CallInv(p)
-----------------------------------------------------------------------------

LEMMA InitBulk == BulkInit => BulkInv
<1> SUFFICES ASSUME BulkInit PROVE BulkInv
  OBVIOUS
<1>1. Shape
  BY DEF BulkInit, Init, Shape, PrimaryKey
<1>2. ASSUME NEW p \in Procs PROVE CallInv(p)
  BY <1>2 DEF BulkInit, Init, CallInv, Listing, Applying, Reporting, Completing
<1>3. QED
  BY <1>1, <1>2 DEF BulkInv

\* A query is no command: the calls of a bulk call differ in their fields.
LEMMA CallsDiffer ==
    /\ \A f : ListOf(f) \notin Commands
    /\ \A i, v : Patch(i, v) \notin Queries
    /\ \A ids, v : DeleteBatch(ids, v) \notin Queries
<1>1. ASSUME NEW q \in Query PROVE "key" \in DOMAIN q
  BY <1>1 DEF Query
<1>2. ASSUME NEW c \in Command PROVE "op" \in DOMAIN c
  BY <1>2 DEF Command
<1>3. \A f : "op" \notin DOMAIN ListOf(f)
  BY DEF ListOf
<1>4. \A i, v : "key" \notin DOMAIN Patch(i, v)
  BY DEF Patch
<1>5. \A ids, v : "key" \notin DOMAIN DeleteBatch(ids, v)
  BY DEF DeleteBatch
<1>6. QED
  BY <1>1, <1>2, <1>3, <1>4, <1>5, QueriesAreQueries, CommandsAreCommands

\* What List answers.
LEMMA ListAnswers ==
    ASSUME NEW t, NEW f
    PROVE  Answer(t, ListOf(f)) = {FirstPage(Matching(t, f), "ASC")}
BY DEF Answer, ListOf, List

\* What the others do disturbs no bulk call that has not listed, and is noted
\* by those that have.
LEMMA OthersDoNotDisturb ==
    ASSUME NEW p \in Procs, CallInv(p), disturbed[p] \in BOOLEAN,
           pc'[p] = pc[p], arg'[p] = arg[p], res'[p] = res[p], bulk'[p] = bulk[p],
           phase'[p] = phase[p], items'[p] = items[p], next'[p] = next[p],
           wrote'[p] = wrote[p],
           \/ table' = table /\ disturbed'[p] = disturbed[p]
           \/ disturbed'[p] = (disturbed[p] \/ HasListed(p))
    PROVE  CallInv(p)'
<1>1. /\ Covered(p, next[p])' = Covered(p, next[p])
      /\ Covered(p, next[p] - 1)' = Covered(p, next[p] - 1)
      /\ ItemIds(p)' = ItemIds(p)
  BY DEF Covered, ItemIds
<1>2. Changed(p)' = Changed(p) /\ Changing(p)' = Changing(p) /\ AtHand(p)' = AtHand(p)
  BY <1>1 DEF Changed, Changing, AtHand
<1>3. Listing(p)'
  BY DEF CallInv, Listing, HasListed
<1>4. Applying(p)'
  BY <1>2 DEF CallInv, Applying
<1>5. Reporting(p)'
  BY <1>1, <1>2 DEF CallInv, Reporting
<1>6. Completing(p)'
  BY <1>1 DEF CallInv, Completing, HasListed, Left
<1>7. QED
  BY <1>3, <1>4, <1>5, <1>6 DEF CallInv

\* A call of one goroutine leaves those of the others as they are.
LEMMA OthersStay ==
    ASSUME BulkInv, NEW p \in Procs, table' = table,
           \A q \in Procs \ {p} :
              /\ pc'[q] = pc[q] /\ arg'[q] = arg[q] /\ res'[q] = res[q]
              /\ bulk'[q] = bulk[q] /\ phase'[q] = phase[q] /\ items'[q] = items[q]
              /\ next'[q] = next[q] /\ wrote'[q] = wrote[q]
              /\ disturbed'[q] = disturbed[q],
           Shape', CallInv(p)'
    PROVE  BulkInv'
<1>1. ASSUME NEW q \in Procs, q # p PROVE CallInv(q)'
  BY <1>1, OthersDoNotDisturb DEF BulkInv, Shape
<1>2. QED
  BY <1>1 DEF BulkInv

LEMMA BulkCallKeepsInv ==
    ASSUME BulkInv, NEW p \in Procs, BulkCall(p) PROVE BulkInv'
<1>1. PICK b \in Bulks :
        /\ bulk' = [bulk EXCEPT ![p] = b]
        /\ CallWith(p, ListOf(b.filter))
  BY DEF BulkCall
<1>2. /\ phase[p] = "none" /\ phase' = [phase EXCEPT ![p] = "list"]
      /\ arg' = [arg EXCEPT ![p] = ListOf(b.filter)]
      /\ pc' = [pc EXCEPT ![p] = "busy"]
      /\ UNCHANGED <<table, res, items, next, wrote, disturbed>>
  BY <1>1 DEF BulkCall, CallWith
<1>3. Shape'
  BY <1>1, <1>2 DEF BulkInv, Shape
<1>4. /\ phase'[p] = "list" /\ pc'[p] = "busy" /\ bulk'[p] = b
      /\ arg'[p] = ListOf(b.filter)
  BY <1>1, <1>2 DEF BulkInv, Shape
<1>5. CallInv(p)'
  BY <1>2, <1>4 DEF BulkInv, CallInv, Listing, Applying, Reporting, Completing
<1>6. QED
  BY <1>1, <1>2, <1>3, <1>5, OthersStay DEF BulkInv, Shape

\* List without a full page has listed every row that the filter lets through.
LEMMA ListedKeepsInv ==
    ASSUME BulkInv, NEW p \in Procs, Listed(p) PROVE BulkInv'
<1>1. /\ phase[p] = "list" /\ pc[p] = "done"
      /\ items[p] = <<>> /\ next[p] = 1 /\ wrote[p] = {} /\ bulk[p] \in Bulks
  BY DEF Listed, BulkInv, CallInv, Listing
<1>2. PICK rows \in SUBSET Row :
        /\ PrimaryKey(rows) /\ res[p] = {FirstPage(rows, "ASC")}
        /\ ~disturbed[p] => rows = Matching(table, bulk[p].filter)
  BY <1>1 DEF BulkInv, CallInv, Listing
<1> DEFINE page == FirstPage(rows, "ASC")
           ids == [n \in DOMAIN page |-> page[n].id]
<1>3. items' = [items EXCEPT ![p] = ids]
  BY <1>2 DEF Listed
<1>4. /\ DOMAIN page = 1 .. PageLength(rows) /\ PageLength(rows) \in Nat
      /\ \A n \in DOMAIN page : page[n] \in rows
  BY <1>2, PageShows, PageLengths
<1>5. /\ ids \in Seq(Ids) /\ Len(ids) = PageLength(rows)
      /\ \A n \in 1 .. PageLength(rows) : ids[n] = page[n].id
  <2>1. \A n \in DOMAIN page : page[n].id \in Ids
    BY <1>4 DEF Row
  <2> HIDE DEF page
  <2>2. ids \in [1 .. PageLength(rows) -> Ids]
    BY <1>4, <2>1
  <2>3. QED
    BY <1>4, <2>2, LenProperties
<1> HIDE DEF ids, page
<1>6. items'[p] = ids
  BY <1>3 DEF BulkInv, Shape
<1>7. /\ phase' = [phase EXCEPT ![p] = IF ids = <<>> THEN "ok" ELSE "apply"]
      /\ pc' = [q \in Procs |-> IF q = p THEN "idle" ELSE pc[q]]
      /\ arg' = [q \in Procs |-> IF q = p THEN NoCall ELSE arg[q]]
      /\ res' = [q \in Procs |-> IF q = p THEN {} ELSE res[q]]
      /\ UNCHANGED <<table, bulk, next, wrote, disturbed>>
  BY <1>6 DEF Listed, End
<1>8. Shape'
  BY <1>3, <1>5, <1>7 DEF BulkInv, Shape
<1>9. /\ phase'[p] = IF ids = <<>> THEN "ok" ELSE "apply"
      /\ pc'[p] = "idle"
  BY <1>7 DEF BulkInv, Shape
<1>10. ItemIds(p)' = {ids[n] : n \in 1 .. PageLength(rows)}
  <2>1. DOMAIN ids = 1 .. PageLength(rows)
    BY <1>5, LenProperties
  <2>2. QED
    BY <1>6, <2>1 DEF ItemIds
<1>11. ids = <<>> => PageLength(rows) = 0
  BY <1>5
<1>12. ids # <<>> => PageLength(rows) >= 1
  BY <1>4, <1>5, EmptySeq
<1>13. Listing(p)'
  BY <1>1, <1>7, <1>9 DEF Listing
<1>14. Applying(p)'
  <2>1. SUFFICES ASSUME phase'[p] = "apply"
                 PROVE  1 \in 1 .. Len(ids) /\ {} = Changed(p)'
    BY <1>1, <1>6, <1>7, <1>9 DEF Applying
  <2>2. PageLength(rows) >= 1
    BY <1>9, <1>12, <2>1
  <2>3. Covered(p, next[p] - 1)' = {}
    BY <1>1, <1>7 DEF Covered
  <2>4. QED
    BY <1>4, <1>5, <2>2, <2>3 DEF Changed
<1>15. Reporting(p)'
  BY <1>1, <1>7, <1>9, <1>10, <1>11 DEF Reporting
<1>16. Completing(p)'
  <2>1. SUFFICES ASSUME ~disturbed[p], Len(ids) < PageSize, NEW r \in Left(p)'
                 PROVE  r.id \in ItemIds(p)'
    BY <1>1, <1>6, <1>7 DEF Completing
  <2>2. r \in rows
    BY <1>2, <1>7, <2>1 DEF Left, Matching
  <2>3. PageLength(rows) # PageSize
    BY <1>4, <1>5, <2>1, PageSizePositive
  <2>4. PICK n \in 1 .. PageLength(rows) : page[n] = r
    BY <1>2, <2>2, <2>3, ShortPageShowsAll DEF page
  <2>5. QED
    BY <1>5, <1>10, <2>4
<1>17. CallInv(p)'
  BY <1>13, <1>14, <1>15, <1>16 DEF CallInv
<1>18. QED
  BY <1>3, <1>7, <1>8, <1>17, OthersStay DEF BulkInv, Shape

LEMMA ApplyKeepsInv ==
    ASSUME BulkInv, NEW p \in Procs, Apply(p) PROVE BulkInv'
<1>1. /\ phase[p] = "apply" /\ CallWith(p, AtHand(p)) /\ UNCHANGED bulkVars
  BY DEF Apply, AtHand
<1>2. /\ pc[p] = "idle" /\ arg' = [arg EXCEPT ![p] = AtHand(p)]
      /\ pc' = [pc EXCEPT ![p] = "busy"] /\ UNCHANGED <<table, res>>
      /\ UNCHANGED <<bulk, phase, items, next, wrote, disturbed>>
  BY <1>1 DEF CallWith, bulkVars
<1>3. Shape'
  BY <1>2 DEF BulkInv, Shape
<1>4. pc'[p] = "busy" /\ arg'[p] = AtHand(p)
  BY <1>2 DEF BulkInv, Shape
<1>5. AtHand(p)' = AtHand(p) /\ Changed(p)' = Changed(p)
  BY <1>2 DEF AtHand, ItemIds, Changed, Covered
<1>6. Listing(p)' /\ Reporting(p)'
  BY <1>1, <1>2, <1>4 DEF BulkInv, CallInv, Listing, Reporting
<1>7. Applying(p)'
  BY <1>1, <1>2, <1>4, <1>5 DEF BulkInv, CallInv, Applying
<1>8. Completing(p)'
  BY <1>2 DEF BulkInv, CallInv, Completing, Left, ItemIds
<1>9. QED
  BY <1>2, <1>3, <1>6, <1>7, <1>8, OthersStay DEF BulkInv, Shape, CallInv

LEMMA AppliedKeepsInv ==
    ASSUME BulkInv, NEW p \in Procs, Applied(p) PROVE BulkInv'
<1>1. /\ phase[p] = "apply" /\ pc[p] = "done"
      /\ bulk[p] \in Bulks /\ wrote[p] = Changing(p) /\ next[p] \in 1 .. Len(items[p])
      /\ items[p] \in Seq(Ids)
  BY DEF Applied, BulkInv, Shape, CallInv, Listing, Applying
<1>2. /\ pc' = [q \in Procs |-> IF q = p THEN "idle" ELSE pc[q]]
      /\ arg' = [q \in Procs |-> IF q = p THEN NoCall ELSE arg[q]]
      /\ res' = [q \in Procs |-> IF q = p THEN {} ELSE res[q]]
      /\ UNCHANGED <<table, bulk, items, wrote, disturbed>>
  BY DEF Applied, End
<1>3. pc'[p] = "idle" /\ ItemIds(p)' = ItemIds(p)
  BY <1>2 DEF ItemIds
<1>4. CASE bulk[p].op = "UpdateMany" /\ next[p] < Len(items[p])
  <2>1. next' = [next EXCEPT ![p] = @ + 1] /\ UNCHANGED phase
    BY <1>4 DEF Applied
  <2>2. next'[p] = next[p] + 1
    BY <2>1 DEF BulkInv, Shape
  <2>3. Shape'
    BY <1>2, <2>1 DEF BulkInv, Shape
  <2>4. Changed(p)' = wrote[p]
    <3>1. next'[p] - 1 = next[p]
      BY <1>1, <2>2
    <3>2. Covered(p, next[p] - 1)' = Covered(p, next[p])
      BY <1>2, <3>1 DEF Covered
    <3>3. QED
      BY <1>1, <1>2, <1>4, <3>2 DEF Changed, Changing
  <2>5. next'[p] \in 1 .. Len(items[p])
    BY <1>1, <1>4, <2>2
  <2>6. CallInv(p)'
    <3>1. Listing(p)' /\ Reporting(p)'
      BY <1>1, <1>2, <2>1 DEF Listing, Reporting
    <3>2. Applying(p)'
      BY <1>2, <1>3, <2>4, <2>5 DEF Applying
    <3>3. Completing(p)'
      BY <1>2, <1>3, <2>1 DEF BulkInv, CallInv, Completing, Left
    <3>4. QED
      BY <3>1, <3>2, <3>3 DEF CallInv
  <2>7. QED
    BY <1>2, <2>1, <2>3, <2>6, OthersStay DEF BulkInv, Shape
<1>5. CASE ~(bulk[p].op = "UpdateMany" /\ next[p] < Len(items[p]))
  <2>1. phase' = [phase EXCEPT ![p] = "ok"] /\ UNCHANGED next
    BY <1>5 DEF Applied
  <2>2. phase'[p] = "ok"
    BY <2>1 DEF BulkInv, Shape
  <2>3. Shape'
    BY <1>2, <2>1 DEF BulkInv, Shape
  <2>4. wrote[p] = ItemIds(p)
    <3>1. ASSUME bulk[p].op = "UpdateMany" PROVE Covered(p, next[p]) = ItemIds(p)
      <4>1. next[p] = Len(items[p])
        BY <1>1, <1>5, <3>1, LenProperties
      <4>2. DOMAIN items[p] = 1 .. Len(items[p])
        BY <1>1, LenProperties
      <4>3. QED
        BY <4>1, <4>2 DEF Covered, ItemIds
    <3>2. QED
      BY <1>1, <3>1 DEF Changing
  <2>5. CallInv(p)'
    <3>1. Listing(p)' /\ Applying(p)'
      BY <1>1, <1>2, <2>2 DEF Listing, Applying
    <3>2. Reporting(p)'
      BY <1>2, <1>3, <2>2, <2>4 DEF Reporting
    <3>3. Completing(p)'
      BY <1>1, <1>2, <1>3 DEF BulkInv, CallInv, Completing, Left
    <3>4. QED
      BY <3>1, <3>2, <3>3 DEF CallInv
  <2>6. QED
    BY <1>2, <2>1, <2>3, <2>5, OthersStay DEF BulkInv, Shape
<1>6. QED
  BY <1>4, <1>5

LEMMA AbandonKeepsInv ==
    ASSUME BulkInv, NEW p \in Procs, Abandon(p) PROVE BulkInv'
<1>1. /\ phase[p] \in {"list", "apply"} /\ pc[p] = "failed"
      /\ phase' = [phase EXCEPT ![p] = "error"]
      /\ pc' = [q \in Procs |-> IF q = p THEN "idle" ELSE pc[q]]
      /\ arg' = [q \in Procs |-> IF q = p THEN NoCall ELSE arg[q]]
      /\ res' = [q \in Procs |-> IF q = p THEN {} ELSE res[q]]
      /\ UNCHANGED <<table, bulk, items, next, wrote, disturbed>>
  BY DEF Abandon, End
<1>2. Shape'
  BY <1>1 DEF BulkInv, Shape
<1>3. phase'[p] = "error" /\ pc'[p] = "idle"
  BY <1>1 DEF BulkInv, Shape
<1>4. Changed(p)' = Changed(p) /\ Changing(p)' = Changing(p)
  BY <1>1 DEF Changed, Changing, Covered, ItemIds
<1>5. Listing(p)' /\ Applying(p)' /\ Completing(p)'
  BY <1>1, <1>3 DEF BulkInv, CallInv, Listing, Applying, Completing
<1>6. Reporting(p)'
  BY <1>1, <1>3, <1>4 DEF BulkInv, CallInv, Listing, Applying, Reporting
<1>7. QED
  BY <1>1, <1>2, <1>5, <1>6, OthersStay DEF BulkInv, Shape, CallInv

\* Calls that end, by a return or a crash.
LEMMA EndsKeepInv ==
    ASSUME BulkInv, NEW ps \in SUBSET Procs, EndBulks(ps),
           UNCHANGED vars \/ End(ps)
    PROVE  BulkInv'
<1>1. table' = table
  BY DEF vars, End
<1>2. Shape'
  <2>1. /\ bulk' \in [Procs -> Bulks \cup {NoBulk}]
        /\ phase' \in [Procs -> {"none", "list", "apply", "ok", "error"}]
        /\ next' \in [Procs -> Nat] /\ wrote' = [p \in Procs |-> wrote'[p]]
        /\ disturbed' \in [Procs -> BOOLEAN]
    BY DEF BulkInv, Shape, EndBulks
  <2>2. items' \in [Procs -> Seq(Ids)]
    <3>1. <<>> \in Seq(Ids)
      BY EmptySeq
    <3>2. QED
      BY <3>1 DEF BulkInv, Shape, EndBulks
  <2>3. /\ pc' \in [Procs -> {"idle", "busy", "done", "failed"}]
        /\ arg' = [p \in Procs |-> arg'[p]] /\ res' = [p \in Procs |-> res'[p]]
    BY DEF BulkInv, Shape, End, vars
  <2>4. QED
    BY <1>1, <2>1, <2>2, <2>3 DEF BulkInv, Shape
<1>3. ASSUME NEW p \in Procs \ ps PROVE CallInv(p)'
  <2>1. /\ pc'[p] = pc[p] /\ arg'[p] = arg[p] /\ res'[p] = res[p]
        /\ bulk'[p] = bulk[p] /\ phase'[p] = phase[p] /\ items'[p] = items[p]
        /\ next'[p] = next[p] /\ wrote'[p] = wrote[p]
        /\ disturbed'[p] = disturbed[p]
    BY <1>3 DEF EndBulks, End, vars
  <2>2. QED
    BY <1>1, <2>1, OthersDoNotDisturb DEF BulkInv, Shape
<1>4. ASSUME NEW p \in ps PROVE CallInv(p)'
  <2>1. /\ phase'[p] = "none" /\ items'[p] = <<>> /\ next'[p] = 1
        /\ wrote'[p] = {}
    BY <1>4 DEF EndBulks
  <2>2. QED
    BY <2>1 DEF CallInv, Listing, Applying, Reporting, Completing
<1>5. QED
  BY <1>2, <1>3, <1>4 DEF BulkInv

LEMMA BulkReturnKeepsInv ==
    ASSUME BulkInv, NEW p \in Procs, BulkReturn(p) PROVE BulkInv'
BY EndsKeepInv DEF BulkReturn

LEMMA BulkCrashKeepsInv ==
    ASSUME BulkInv, NEW ps \in SUBSET Procs, BulkCrash(ps) PROVE BulkInv'
BY EndsKeepInv DEF BulkCrash

\* The List of a bulk call finds what its filter lets through.
LEMMA QuietKeepsInv ==
    ASSUME BulkInv, NEW p \in Procs, Quiet(p) PROVE BulkInv'
<1>1. UNCHANGED <<table, bulk, phase, items, next, wrote, disturbed>>
  BY DEF Quiet, bulkVars, Call, CallWith, Return, End, Read, Fail
<1>2. /\ ItemIds(p)' = ItemIds(p) /\ Left(p)' = Left(p)
      /\ Changed(p)' = Changed(p) /\ Changing(p)' = Changing(p)
  BY <1>1 DEF ItemIds, Left, Changed, Changing, Covered
<1>3. Completing(p)'
  BY <1>1, <1>2 DEF BulkInv, CallInv, Completing
<1>4. CASE phase[p] = "none" /\ (Call(p) \/ Return(p))
  <2>1. Shape'
    BY <1>1, <1>4 DEF BulkInv, Shape, Call, CallWith, Return, End
  <2>2. Listing(p)' /\ Applying(p)' /\ Reporting(p)'
    BY <1>1, <1>4 DEF BulkInv, CallInv, Listing, Applying, Reporting
  <2>3. \A q \in Procs \ {p} : pc'[q] = pc[q] /\ arg'[q] = arg[q] /\ res'[q] = res[q]
    BY <1>4 DEF BulkInv, Shape, Call, CallWith, Return, End
  <2>4. QED
    BY <1>1, <1>3, <2>1, <2>2, <2>3, OthersStay DEF CallInv
<1>5. CASE Read(p)
  <2>1. /\ pc[p] = "busy" /\ arg[p] \in Queries /\ UNCHANGED arg
        /\ pc' = [pc EXCEPT ![p] = "done"]
        /\ res' = [res EXCEPT ![p] = Answer(table, arg[p])]
    BY <1>5 DEF Read
  <2>2. Shape'
    BY <1>1, <2>1 DEF BulkInv, Shape
  <2>3. pc'[p] = "done" /\ res'[p] = Answer(table, arg[p])
    BY <2>1 DEF BulkInv, Shape
  <2>4. phase[p] # "apply"
    BY <2>1, CallsDiffer DEF BulkInv, CallInv, Applying, AtHand
  <2>5. Applying(p)' /\ Reporting(p)'
    BY <1>1, <1>2, <2>1, <2>4 DEF BulkInv, CallInv, Applying, Reporting
  <2>6. Listing(p)'
    <3>1. CASE phase[p] = "list"
      <4> DEFINE rows == Matching(table, bulk[p].filter)
      <4>1. res'[p] = {FirstPage(rows, "ASC")}
        BY <2>1, <2>3, <3>1, ListAnswers DEF BulkInv, CallInv, Listing
      <4>2. rows \in SUBSET Row /\ PrimaryKey(rows)
        BY DEF BulkInv, Shape, Matching, Live, PrimaryKey
      <4>3. rows = Matching(table', bulk'[p].filter)
        BY <1>1
      <4> HIDE DEF rows
      <4>4. QED
        BY <1>1, <2>3, <4>1, <4>2, <4>3 DEF BulkInv, CallInv, Listing
    <3>2. CASE phase[p] # "list"
      BY <1>1, <3>2 DEF BulkInv, CallInv, Listing
    <3>3. QED
      BY <3>1, <3>2
  <2>7. QED
    BY <1>1, <1>3, <2>1, <2>2, <2>5, <2>6, OthersStay DEF BulkInv, Shape, CallInv
<1>6. CASE Fail(p)
  <2>1. /\ pc[p] = "busy" /\ pc' = [pc EXCEPT ![p] = "failed"] /\ UNCHANGED <<arg, res>>
    BY <1>6 DEF Fail
  <2>2. Shape' /\ pc'[p] = "failed"
    BY <1>1, <2>1 DEF BulkInv, Shape
  <2>3. Listing(p)' /\ Applying(p)' /\ Reporting(p)'
    BY <1>1, <1>2, <2>1, <2>2 DEF BulkInv, CallInv, Listing, Applying, Reporting
  <2>4. QED
    BY <1>1, <1>3, <2>1, <2>2, <2>3, OthersStay DEF BulkInv, Shape, CallInv
<1>7. QED
  BY <1>4, <1>5, <1>6 DEF Quiet

\* What a command of a bulk call leaves of the bulk call's rows.
LEMMA CommandDoesItsPart ==
    ASSUME BulkInv, NEW p \in Procs, phase[p] = "apply", Write(p),
           bulk'[p] = bulk[p], arg[p] = AtHand(p), NEW r \in Left(p)'
    PROVE  r \in Left(p) /\ r.id \notin arg[p].ids
<1>1. table' \in Effect(table, arg[p]) /\ table \subseteq Row /\ bulk[p] \in Bulks
  BY DEF Write, BulkInv, Shape, CallInv, Listing
<1> DEFINE i == items[p][next[p]]
           v == bulk[p].val
<1>2. CASE bulk[p].op = "UpdateMany"
  <2>1. arg[p].op = "Replace" /\ arg[p].ids = {i} /\ arg[p].val = v
    BY <1>2 DEF AtHand, Patch
  <2>2. table' = {IF ~q.deleted /\ q.id \in {i} THEN [q EXCEPT !.val = v] ELSE q
                     : q \in table}
    BY <1>1, <2>1 DEF Effect, Replace, Update
  <2>3. PICK q \in table :
          r = IF ~q.deleted /\ q.id \in {i} THEN [q EXCEPT !.val = v] ELSE q
    BY <2>2 DEF Left, Matching, Live
  <2>4. ~r.deleted /\ r.val \in bulk[p].filter /\ r.val # v
    BY <1>2 DEF Left, Matching, Live
  <2>5. ~(~q.deleted /\ q.id \in {i})
    BY <1>1, <2>3, <2>4 DEF Row
  <2>6. QED
    BY <1>2, <2>1, <2>3, <2>4, <2>5 DEF Left, Matching, Live
<1>3. CASE bulk[p].op # "UpdateMany"
  <2>1. arg[p].op = "Delete" /\ arg[p].ids = ItemIds(p)
    BY <1>3 DEF AtHand, DeleteBatch
  <2>2. table' = {q \in table : q.id \notin ItemIds(p)}
    BY <1>1, <2>1 DEF Effect, Delete
  <2>3. QED
    BY <1>3, <2>1, <2>2 DEF Left, Matching, Live
<1>4. QED
  BY <1>2, <1>3

LEMMA EffectiveKeepsInv ==
    ASSUME BulkInv, NEW p \in Procs, Effective(p) PROVE BulkInv'
<1>1. /\ pc[p] = "busy" /\ arg[p] \in Commands
      /\ table' \in Effect(table, arg[p])
      /\ UNCHANGED <<arg, res, bulk, phase, items, next>>
      /\ wrote' = IF phase[p] = "apply"
                  THEN [wrote EXCEPT ![p] = @ \cup arg[p].ids] ELSE wrote
      /\ disturbed' = [q \in Procs |-> disturbed[q] \/ (q # p /\ HasListed(q))]
  BY DEF Effective, Write
<1>2. PICK end \in {"done", "failed"} : pc' = [pc EXCEPT ![p] = end]
  BY DEF Effective, Write
<1>3. table' \subseteq Row /\ PrimaryKey(table')
  BY <1>1, EffectKeepsPrimaryKey DEF BulkInv, Shape
<1>4. Shape'
  BY <1>1, <1>2, <1>3 DEF BulkInv, Shape
<1>5. ASSUME NEW q \in Procs, q # p PROVE CallInv(q)'
  <2>1. wrote'[q] = wrote[q] /\ pc'[q] = pc[q]
    BY <1>1, <1>2, <1>5 DEF BulkInv, Shape
  <2>2. disturbed'[q] = (disturbed[q] \/ HasListed(q))
    BY <1>1, <1>5
  <2>3. QED
    BY <1>1, <2>1, <2>2, OthersDoNotDisturb DEF BulkInv, Shape
<1>6. CallInv(p)'
  <2>1. phase[p] \in {"none", "apply"}
    <3>1. phase[p] # "list"
      <4>1. arg[p] # ListOf(bulk[p].filter)
        BY <1>1, CallsDiffer
      <4>2. QED
        BY <1>1, <4>1 DEF BulkInv, CallInv, Listing
    <3>2. phase[p] \notin {"ok", "error"}
      BY <1>1 DEF BulkInv, CallInv, Reporting
    <3>3. QED
      BY <3>1, <3>2 DEF BulkInv, Shape
  <2>2. CASE phase[p] = "none"
    BY <1>1, <2>2 DEF BulkInv, CallInv, Listing, Applying, Reporting, Completing
  <2>3. CASE phase[p] = "apply"
    <3>1. /\ wrote'[p] = wrote[p] \cup arg[p].ids /\ pc'[p] = end
          /\ disturbed'[p] = disturbed[p]
      BY <1>1, <1>2, <2>3 DEF BulkInv, Shape
    <3>2. /\ arg[p] = AtHand(p) /\ wrote[p] = Changed(p)
          /\ next[p] \in 1 .. Len(items[p])
      BY <1>1, <2>3 DEF BulkInv, CallInv, Applying
    <3>3. wrote'[p] = Changing(p)
      <4>1. CASE bulk[p].op = "UpdateMany"
        <5>1. arg[p].ids = {items[p][next[p]]}
          BY <3>2, <4>1 DEF AtHand, Patch
        <5>2. Len(items[p]) \in Nat
          BY LenProperties DEF BulkInv, Shape
        <5>3. 1 .. next[p] = (1 .. next[p] - 1) \cup {next[p]}
          BY <3>2, <5>2
        <5>4. QED
          BY <3>1, <3>2, <4>1, <5>1, <5>3 DEF Changed, Changing, Covered
      <4>2. CASE bulk[p].op # "UpdateMany"
        BY <3>1, <3>2, <4>2 DEF AtHand, DeleteBatch, Changed, Changing
      <4>3. QED
        BY <4>1, <4>2
    <3>4. /\ ItemIds(p)' = ItemIds(p)
          /\ Changed(p)' = Changed(p) /\ Changing(p)' = Changing(p)
      BY <1>1 DEF ItemIds, Changed, Changing, Covered
    <3>5. Listing(p)' /\ Reporting(p)'
      BY <1>1, <2>3 DEF BulkInv, CallInv, Listing, Reporting
    <3>6. Applying(p)'
      BY <1>1, <1>2, <3>1, <3>2, <3>3, <3>4 DEF Applying
    <3>7. Completing(p)'
      <4>1. SUFFICES ASSUME ~disturbed[p], Len(items[p]) < PageSize, NEW r \in Left(p)'
                     PROVE  r.id \in ItemIds(p) \ (wrote[p] \cup arg[p].ids)
        BY <1>1, <3>1, <3>4 DEF Completing
      <4>2. r \in Left(p) /\ r.id \notin arg[p].ids
        BY <1>1, <2>3, <3>2, CommandDoesItsPart DEF Effective
      <4>3. QED
        BY <2>3, <4>1, <4>2 DEF BulkInv, CallInv, Completing
    <3>8. QED
      BY <3>5, <3>6, <3>7 DEF CallInv
  <2>4. QED
    BY <2>1, <2>2, <2>3
<1>7. QED
  BY <1>4, <1>5, <1>6 DEF BulkInv

LEMMA NextBulk == BulkInv /\ [BulkNext]_allVars => BulkInv'
<1> SUFFICES ASSUME BulkInv, [BulkNext]_allVars PROVE BulkInv'
  OBVIOUS
<1>1. CASE UNCHANGED allVars
  <2>1. /\ UNCHANGED <<table, pc, arg, res>>
        /\ UNCHANGED <<bulk, phase, items, next, wrote, disturbed>>
    BY <1>1 DEF allVars, vars, bulkVars
  <2>2. Shape'
    BY <2>1 DEF BulkInv, Shape
  <2>3. \A p \in Procs : CallInv(p)'
    BY <2>1, OthersDoNotDisturb DEF BulkInv, Shape
  <2>4. QED
    BY <2>2, <2>3 DEF BulkInv
<1>2. QED
  BY <1>1, BulkCallKeepsInv, ListedKeepsInv, ApplyKeepsInv, AppliedKeepsInv,
     AbandonKeepsInv, BulkReturnKeepsInv, QuietKeepsInv, EffectiveKeepsInv,
     BulkCrashKeepsInv DEF BulkNext

LEMMA BulkInvHolds == BulkSpec => []BulkInv
BY InitBulk, NextBulk, PTL DEF BulkSpec

-----------------------------------------------------------------------------

\* ReportIsTrue: after nil UpdateMany and DeleteMany (aliases.go) have changed
\* every row they listed; after an error UpdateMany has changed those before
\* the one that failed, and perhaps that one, DeleteMany all or none.
THEOREM BulkReportsAreTrue == BulkSpec => []ReportIsTrue
<1>1. BulkInv => ReportIsTrue
  <2>1. SUFFICES ASSUME BulkInv, NEW p \in Procs
                 PROVE  /\ phase[p] = "ok" => wrote[p] = ItemIds(p)
                        /\ phase[p] = "error" /\ items[p] # <<>> =>
                              wrote[p] \in {Changed(p), Changing(p)}
    BY DEF ReportIsTrue, Changed, Changing, Covered
  <2>2. QED
    BY <2>1 DEF BulkInv, CallInv, Reporting
<1>2. QED
  BY <1>1, BulkInvHolds, PTL

\* CompleteUnlessFullPage: a bulk call that returns nil has changed every row
\* its filter lets through, if nobody else wrote since its List and that List
\* came back with less than a page.
THEOREM BulkIsComplete == BulkSpec => []CompleteUnlessFullPage
<1>1. BulkInv => CompleteUnlessFullPage
  <2>1. SUFFICES ASSUME BulkInv, NEW p \in Procs, phase[p] = "ok", ~disturbed[p],
                        Len(items[p]) < PageSize, NEW r \in Left(p)
                 PROVE  FALSE
    BY DEF CompleteUnlessFullPage
  <2>2. r.id \in ItemIds(p) \ wrote[p] /\ wrote[p] = ItemIds(p)
    BY <2>1 DEF BulkInv, CallInv, Reporting, Completing
  <2>3. QED
    BY <2>2
<1>2. QED
  BY <1>1, BulkInvHolds, PTL

\* The command at hand is one that callers make.
LEMMA AtHandIsACommand ==
    ASSUME BulkInv, NEW p \in Procs, phase[p] = "apply"
    PROVE  AtHand(p) \in Commands
<1>1. /\ bulk[p] \in Bulks /\ bulk[p] \in Bulk /\ items[p] \in Seq(Ids)
      /\ next[p] \in 1 .. Len(items[p])
  BY BulksAreBulks DEF BulkInv, Shape, CallInv, Listing, Applying
<1>2. next[p] \in DOMAIN items[p] /\ \A n \in DOMAIN items[p] : items[p][n] \in Ids
  <2>1. DOMAIN items[p] = 1 .. Len(items[p])
    BY <1>1, LenProperties
  <2>2. QED
    BY <1>1, <2>1, ElementOfSeq
<1>3. ItemIds(p) \in (SUBSET Ids) \ {{}}
  <2>1. items[p][next[p]] \in ItemIds(p)
    BY <1>2 DEF ItemIds
  <2>2. ItemIds(p) \subseteq Ids
    <3>1. SUFFICES ASSUME NEW i \in ItemIds(p) PROVE i \in Ids
      OBVIOUS
    <3>2. PICK n \in DOMAIN items[p] : i = items[p][n]
      BY Zenon DEF ItemIds
    <3>3. QED
      BY <1>2, <3>2
  <2>3. QED
    BY <2>1, <2>2
<1>4. bulk[p].op \in {"UpdateMany", "DeleteMany"}
  BY <1>1 DEF Bulk
<1>5. QED
  BY <1>1, <1>2, <1>3, <1>4, BulksMakeCalls DEF AtHand

\* UpdateMany and DeleteMany (aliases.go) do nothing that calls of List, Patch
\* and DeleteBatch could not: a program that uses them is, to the repository,
\* one that uses those.  With RepositoryImplementsAtomic, they may be called on
\* a repository with a cache.
THEOREM BulksAreCalls == BulkSpec => Spec
<1>1. BulkInit => Init
  BY DEF BulkInit
<1>2. ASSUME BulkInv, [BulkNext]_allVars PROVE [Next]_vars
  <2>1. ASSUME NEW p \in Procs, BulkCall(p) PROVE Next
    <3>1. \E b \in Bulks : CallWith(p, ListOf(b.filter))
      BY <2>1 DEF BulkCall
    <3>2. Call(p)
      BY <3>1, BulksMakeCalls DEF Call
    <3>3. QED
      BY <3>2 DEF Next
  <2>2. ASSUME NEW p \in Procs, Listed(p) \/ Applied(p) \/ Abandon(p) PROVE Next
    BY <2>2 DEF Listed, Applied, Abandon, Return, Next
  <2>3. ASSUME NEW p \in Procs, Apply(p) PROVE Next
    <3>1. CallWith(p, AtHand(p)) /\ AtHand(p) \in Commands
      BY <1>2, <2>3, AtHandIsACommand DEF Apply, AtHand
    <3>2. Call(p)
      BY <3>1 DEF Call
    <3>3. QED
      BY <3>2 DEF Next
  <2>4. ASSUME NEW p \in Procs, Quiet(p) \/ Effective(p) PROVE Next
    BY <2>4 DEF Quiet, Effective, Next
  <2>5. ASSUME NEW ps \in SUBSET Procs, BulkCrash(ps) PROVE Next
    BY <2>5 DEF BulkCrash, Next, Crash
  <2>6. ASSUME NEW p \in Procs, BulkReturn(p) PROVE UNCHANGED vars
    BY <2>6 DEF BulkReturn
  <2>7. UNCHANGED allVars => UNCHANGED vars
    BY DEF allVars
  <2>8. QED
    BY <1>2, <2>1, <2>2, <2>3, <2>4, <2>5, <2>6, <2>7 DEF BulkNext
<1>3. QED
  BY <1>1, <1>2, BulkInvHolds, PTL DEF BulkSpec, Spec
=============================================================================
