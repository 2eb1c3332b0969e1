-------------------------- MODULE StreamReadProofs --------------------------
(***************************************************************************)
(* Stream, for any number of streams, any batch sizes, any collection and  *)
(* any commands that commit while it reads.                                *)
(***************************************************************************)
EXTENDS StreamRead, QueryCacheProofs

\* What a window holds: rows, as many as there are left, at most a batch.
LEMMA WindowsHold ==
    ASSUME NEW rows \in SUBSET Row, NEW k \in Nat, NEW n \in Nat \ {0},
           NEW w \in AnyWindows(rows, k, n)
    PROVE  /\ w \in SUBSET Row /\ w \subseteq rows
           /\ Cardinality(w) = WindowSize(rows, k, n)
BY DEF AnyWindows

LEMMA WindowSizes ==
    ASSUME NEW rows \in SUBSET Row, NEW k \in Nat, NEW n \in Nat \ {0},
           k <= Cardinality(rows)
    PROVE  LET size == WindowSize(rows, k, n)
           IN  /\ size \in 0 .. n /\ k + size <= Cardinality(rows)
               /\ size < n => k + size = Cardinality(rows)
BY RowSetsAreFinite DEF WindowSize

LEMMA RanksAreNumbers ==
    ASSUME NEW rows \in SUBSET Row, NEW r
    PROVE  Rank(rows, r) \in Nat
<1>1. {s \in rows : s.id < r.id} \in SUBSET Row
  OBVIOUS
<1>2. QED
  BY <1>1, RowSetsAreFinite DEF Rank

\* Filters choose among the rows of a table.
LEMMA CollectionsAreRows ==
    ASSUME TypeOK, NEW s \in Streams
    PROVE  Collection(s) \in SUBSET Row
BY DEF TypeOK, Collection, Matching, Live

LEMMA InitHolds == Init => StreamInv
<1> SUFFICES ASSUME Init PROVE StreamInv
  OBVIOUS
<1>1. TypeOK
  BY DEF Init, TypeOK, PrimaryKey, Filters
<1>2. \A s \in Streams : Loop(s) /\ ~stable[s]
  BY DEF Init, Loop, Collection, Matching, Live
<1>3. QED
  BY <1>1, <1>2 DEF StreamInv

\* Commands that commit beside a stream leave its loop alone.
LEMMA WriteKeepsInv == StreamInv /\ Write => StreamInv'
<1> SUFFICES ASSUME StreamInv, Write PROVE StreamInv'
  OBVIOUS
<1>1. PICK c \in Commands : table' \in Effect(table, c)
  BY DEF Write
<1>2. table' \subseteq Row /\ PrimaryKey(table')
  BY <1>1, EffectKeepsPrimaryKey DEF StreamInv, TypeOK
<1>3. UNCHANGED <<pc, filter, batchSize, stable, snapshot, offset, batch, seen>>
  BY DEF Write, callVars
<1>4. TypeOK'
  BY <1>2, <1>3 DEF StreamInv, TypeOK
<1>5. \A s \in Streams : (Loop(s))' /\ (stable'[s] => (InOrder(s))')
  BY <1>3 DEF StreamInv, Loop, InOrder, Collection
<1>6. QED
  BY <1>4, <1>5 DEF StreamInv

LEMMA TypesKept ==
    ASSUME StreamInv, NEW s \in Streams, Call(s) \/ Run(s) \/ Fail(s)
    PROVE  TypeOK'
<1> USE DEF StreamInv, TypeOK, Goto, callVars
<1>1. CASE Call(s)
  BY <1>1, SizesAssumption DEF Call
<1>2. CASE TakeSnapshot(s)
  BY <1>2 DEF TakeSnapshot
<1>3. CASE ReadWindow(s)
  <2>1. PICK w \in Windows(s) :
            /\ batch' = [batch EXCEPT ![s] = w]
            /\ pc' = [pc EXCEPT ![s] = IF w = {} THEN "commit" ELSE "fn"]
    BY <1>3 DEF ReadWindow
  <2>2. w \in SUBSET Row
    BY CollectionsAreRows DEF Windows, StableWindows, AnyWindows, Collection
  <2>3. QED
    BY <1>3, <2>1, <2>2 DEF ReadWindow
<1>4. CASE Callback(s)
  <2>1. Cardinality(batch[s]) \in Nat
    BY RowSetsAreFinite
  <2>2. QED
    BY <1>4, <2>1 DEF Callback
<1>5. CASE CallbackFails(s)
  BY <1>5 DEF CallbackFails
<1>6. CASE Commit(s)
  BY <1>6 DEF Commit
<1>7. CASE Return(s)
  BY <1>7 DEF Return, Filters
<1>8. CASE Fail(s)
  BY <1>8 DEF Fail
<1>9. QED
  BY <1>1, <1>2, <1>3, <1>4, <1>5, <1>6, <1>7, <1>8 DEF Run

\* A stream's step is no business of the others.
LEMMA OthersKept ==
    ASSUME StreamInv, NEW s \in Streams, Call(s) \/ Run(s) \/ Fail(s),
           NEW o \in Streams, o # s
    PROVE  (Loop(o))' /\ (stable'[o] => (InOrder(o))')
<1>1. /\ pc'[o] = pc[o] /\ filter'[o] = filter[o] /\ batchSize'[o] = batchSize[o]
      /\ stable'[o] = stable[o] /\ snapshot'[o] = snapshot[o]
      /\ offset'[o] = offset[o] /\ batch'[o] = batch[o] /\ seen'[o] = seen[o]
  BY DEF StreamInv, TypeOK, Call, Run, TakeSnapshot, ReadWindow, Callback,
         CallbackFails, Commit, Return, Fail, Goto, callVars
<1>2. (Collection(o))' = Collection(o)
  BY <1>1 DEF Collection
<1>3. QED
  BY <1>1, <1>2 DEF StreamInv, Loop, InOrder

\* The window that ReadWindow takes is the one that comes next.
LEMMA ReadWindowKeepsLoop ==
    ASSUME StreamInv, NEW s \in Streams, ReadWindow(s)
    PROVE  (Loop(s))' /\ (stable'[s] => (InOrder(s))')
<1> DEFINE rows == Collection(s)
<1>1. rows \in SUBSET Row /\ Cardinality(rows) \in Nat
  BY CollectionsAreRows, RowSetsAreFinite DEF StreamInv
<1>2. PICK w \in Windows(s) :
          /\ batch' = [batch EXCEPT ![s] = w]
          /\ pc' = [pc EXCEPT ![s] = IF w = {} THEN "commit" ELSE "fn"]
  BY DEF ReadWindow, Goto
<1>3. /\ pc[s] = "window" /\ offset[s] \in Nat /\ batchSize[s] \in Nat \ {0}
      /\ batch'[s] = w /\ pc'[s] = IF w = {} THEN "commit" ELSE "fn"
      /\ offset'[s] = offset[s] /\ seen'[s] = seen[s] /\ stable'[s] = stable[s]
      /\ batchSize'[s] = batchSize[s] /\ (Collection(s))' = rows
  BY <1>2 DEF StreamInv, TypeOK, ReadWindow, callVars, Collection
<1>4. /\ w \in AnyWindows(rows, offset[s], batchSize[s])
      /\ stable[s] => \A r \in w : /\ offset[s] <= Rank(rows, r)
                                   /\ Rank(rows, r) < offset[s] + batchSize[s]
  BY DEF Windows, StableWindows, Collection
<1>5. w \subseteq rows /\ Cardinality(w) = WindowSize(rows, offset[s], batchSize[s])
  BY <1>1, <1>3, <1>4, WindowsHold
<1>6. offset[s] <= Cardinality(rows)
  BY <1>3 DEF StreamInv, Loop
<1>7. w = {} => offset[s] = Cardinality(rows)
  BY <1>1, <1>3, <1>5, <1>6, WindowSizes, FS_EmptySet
<1> HIDE DEF rows
<1>8. (Loop(s))'
  BY <1>3, <1>5, <1>6, <1>7 DEF StreamInv, Loop, rows
<1>9. stable[s] => (InOrder(s))'
  BY <1>3, <1>4 DEF StreamInv, InOrder, rows
<1>10. QED
  BY <1>3, <1>8, <1>9

\* The callback's batch goes over to the rows handed out; with one order it
\* has none of them in common.
LEMMA CallbackKeepsLoop ==
    ASSUME StreamInv, NEW s \in Streams, Callback(s)
    PROVE  (Loop(s))' /\ (stable'[s] => (InOrder(s))')
<1> DEFINE rows == Collection(s)
           size == Cardinality(batch[s])
<1>1. /\ rows \in SUBSET Row /\ Cardinality(rows) \in Nat
      /\ batch[s] \in SUBSET Row /\ size \in Nat /\ seen[s] \in SUBSET Row
  BY CollectionsAreRows, RowSetsAreFinite DEF StreamInv, TypeOK
<1>2. /\ pc[s] = "fn" /\ offset[s] \in Nat /\ batchSize[s] \in Nat \ {0}
      /\ seen'[s] = seen[s] \cup batch[s] /\ offset'[s] = offset[s] + size
      /\ pc'[s] = IF size < batchSize[s] THEN "commit" ELSE "window"
      /\ stable'[s] = stable[s] /\ (Collection(s))' = rows
  BY DEF StreamInv, TypeOK, Callback, Goto, callVars, Collection
<1>3. /\ batch[s] \subseteq rows /\ seen[s] \subseteq rows
      /\ offset[s] <= Cardinality(rows)
      /\ size = WindowSize(rows, offset[s], batchSize[s])
  BY <1>2 DEF StreamInv, Loop
<1>4. /\ size <= batchSize[s] /\ offset[s] + size <= Cardinality(rows)
      /\ size < batchSize[s] => offset[s] + size = Cardinality(rows)
  BY <1>1, <1>2, <1>3, WindowSizes
<1> HIDE DEF rows, size
<1>5. (Loop(s))'
  BY <1>1, <1>2, <1>3, <1>4 DEF Loop
<1>6. ASSUME stable[s] PROVE (InOrder(s))'
  <2>1. /\ \A r \in seen[s] : Rank(rows, r) < offset[s]
        /\ \A r \in batch[s] : /\ offset[s] <= Rank(rows, r)
                               /\ Rank(rows, r) < offset[s] + batchSize[s]
        /\ Cardinality(seen[s]) = offset[s]
    BY <1>2, <1>6 DEF StreamInv, InOrder, rows
  <2>2. \A r \in Row : Rank(rows, r) \in Nat
    BY <1>1, RanksAreNumbers
  <2>3. seen[s] \cap batch[s] = {}
    BY <1>1, <1>2, <2>1, <2>2
  <2>4. Cardinality(seen[s] \cup batch[s]) = offset[s] + size
    <3>1. IsFiniteSet(seen[s]) /\ IsFiniteSet(batch[s])
      BY <1>1, RowSetsAreFinite
    <3>2. Cardinality(seen[s] \cup batch[s])
            = Cardinality(seen[s]) + size - Cardinality(seen[s] \cap batch[s])
      BY <3>1, FS_Union DEF size
    <3>3. Cardinality(seen[s] \cap batch[s]) = 0
      BY <2>3, FS_EmptySet, Zenon
    <3>4. QED
      BY <1>1, <1>2, <2>1, <3>2, <3>3
  <2>5. pc'[s] = "window" => \A r \in seen[s] \cup batch[s] : Rank(rows, r) < offset'[s]
    BY <1>1, <1>2, <1>4, <2>1, <2>2
  <2>6. QED
    BY <1>2, <2>4, <2>5 DEF InOrder
<1>7. QED
  BY <1>2, <1>5, <1>6

\* The steps that move no row.
LEMMA OtherStepsKeepLoop ==
    ASSUME StreamInv, NEW s \in Streams,
           \/ Call(s) \/ TakeSnapshot(s) \/ CallbackFails(s) \/ Commit(s)
           \/ Return(s) \/ Fail(s)
    PROVE  (Loop(s))' /\ (stable'[s] => (InOrder(s))')
<1> USE DEF StreamInv, TypeOK, Goto, callVars
<1>1. CASE Call(s)
  <2>1. /\ pc'[s] = "open" /\ offset'[s] = 0 /\ seen'[s] = {}
    BY <1>1 DEF Call, Loop
  <2>2. QED
    BY <2>1 DEF Loop, InOrder
<1>2. CASE TakeSnapshot(s)
  <2>1. /\ pc'[s] = "window" /\ offset'[s] = 0 /\ seen'[s] = {} /\ TypeOK'
    BY <1>2, TypesKept DEF TakeSnapshot, Loop, Run
  <2>2. Cardinality((Collection(s))') \in Nat
    BY <2>1, RowSetsAreFinite DEF Collection, Matching, Live
  <2>3. QED
    BY <2>1, <2>2, FS_EmptySet DEF Loop, InOrder
<1>3. CASE CallbackFails(s)
  <2>1. /\ pc[s] = "fn" /\ pc'[s] = "failed" /\ (Collection(s))' = Collection(s)
        /\ seen'[s] = seen[s] \cup batch[s]
    BY <1>3 DEF CallbackFails, Collection
  <2>2. QED
    BY <2>1 DEF Loop, InOrder
<1>4. CASE Commit(s)
  <2>1. /\ pc[s] = "commit" /\ pc'[s] = "done" /\ (Collection(s))' = Collection(s)
        /\ seen'[s] = seen[s] /\ offset'[s] = offset[s] /\ stable'[s] = stable[s]
    BY <1>4 DEF Commit, Collection
  <2>2. QED
    BY <2>1 DEF Loop, InOrder
<1>5. CASE Return(s)
  <2>1. pc'[s] = "idle" /\ offset'[s] = 0 /\ seen'[s] = {}
    BY <1>5 DEF Return
  <2>2. QED
    BY <2>1 DEF Loop, InOrder
<1>6. CASE Fail(s)
  <2>1. /\ pc'[s] = "failed" /\ (Collection(s))' = Collection(s)
        /\ seen'[s] = seen[s]
    BY <1>6 DEF Fail, Collection
  <2>2. QED
    BY <2>1 DEF Loop, InOrder
<1>7. QED
  BY <1>1, <1>2, <1>3, <1>4, <1>5, <1>6

LEMMA StepsKeepInv == StreamInv /\ [Next]_vars => StreamInv'
<1> SUFFICES ASSUME StreamInv, [Next]_vars PROVE StreamInv'
  OBVIOUS
<1>1. ASSUME NEW s \in Streams, Call(s) \/ Run(s) \/ Fail(s)
      PROVE  StreamInv'
  <2>1. TypeOK'
    BY <1>1, TypesKept
  <2>2. (Loop(s))' /\ (stable'[s] => (InOrder(s))')
    BY <1>1, ReadWindowKeepsLoop, CallbackKeepsLoop, OtherStepsKeepLoop DEF Run
  <2>3. \A o \in Streams \ {s} : (Loop(o))' /\ (stable'[o] => (InOrder(o))')
    BY <1>1, OthersKept
  <2>4. QED
    BY <2>1, <2>2, <2>3 DEF StreamInv
<1>2. CASE UNCHANGED vars
  <2>1. TypeOK'
    BY <1>2 DEF StreamInv, TypeOK, vars, callVars
  <2>2. \A s \in Streams : (Loop(s))' /\ (stable'[s] => (InOrder(s))')
    BY <1>2 DEF StreamInv, Loop, InOrder, Collection, vars, callVars
  <2>3. QED
    BY <2>1, <2>2 DEF StreamInv
<1>3. QED
  BY <1>1, <1>2, WriteKeepsInv DEF Next

\* The loop of Stream (readmodel.go:334-365): what it has handed out and what
\* it has counted keep pace, and it ends where the collection of its snapshot
\* ends.
THEOREM StreamKeepsCount == Spec => []StreamInv
<1>1. QED
  BY InitHolds, StepsKeepInv, PTL DEF Spec

\* Stream (readmodel.go:333): a stream that returns nil has handed out as many
\* rows as its snapshot has, in whatever order PostgreSQL answered.
THEOREM StreamCounts == Spec => []CountIsRight
<1>1. StreamInv => CountIsRight
  BY DEF StreamInv, Loop, CountIsRight
<1>2. QED
  BY <1>1, StreamKeepsCount, PTL

\* Its batches, whoever commits in between, come from that one snapshot.
THEOREM StreamReadsOneSnapshot == Spec => []OneSnapshot
<1>1. StreamInv => OneSnapshot
  BY DEF StreamInv, Loop, OneSnapshot
<1>2. QED
  BY <1>1, StreamKeepsCount, PTL

\* And if PostgreSQL keeps to one order, they have each row exactly once.
THEOREM StreamVisitsOnce == Spec => []EachOnceInOneOrder
<1>1. StreamInv => EachOnceInOneOrder
  <2> SUFFICES ASSUME StreamInv, NEW s \in Streams, pc[s] = "done", stable[s]
               PROVE  seen[s] = Collection(s) /\ offset[s] = Cardinality(seen[s])
    BY DEF EachOnceInOneOrder
  <2>1. /\ seen[s] \subseteq Collection(s) /\ offset[s] = Cardinality(Collection(s))
        /\ Cardinality(seen[s]) = offset[s]
    BY DEF StreamInv, Loop, InOrder
  <2>2. IsFiniteSet(Collection(s))
    BY CollectionsAreRows, RowSetsAreFinite DEF StreamInv
  <2>3. QED
    BY <2>1, <2>2, FS_Subset
<1>2. QED
  BY <1>1, StreamKeepsCount, PTL
=============================================================================
