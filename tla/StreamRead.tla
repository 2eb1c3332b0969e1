----------------------------- MODULE StreamRead -----------------------------
(***************************************************************************)
(* Stream of readmodel.go: one read-only transaction that reads a          *)
(* collection window by window (OFFSET, LIMIT) and hands each window to a  *)
(* callback.  It takes no mutex: commands of the same instance, the        *)
(* callback's own among them, commit while it runs.                        *)
(*                                                                         *)
(* The statements have no ORDER BY.  PostgreSQL answers each in the order  *)
(* its scan comes upon the rows, which may be the same from one statement  *)
(* to the next, and may be not (a scan that joins another in the middle of *)
(* the table, a different plan).  A stream is marked with which it meets.  *)
(***************************************************************************)
EXTENDS RowStore, Integers

CONSTANTS
    Streams,        \* goroutines that call Stream
    BatchSizes,     \* the sizes they ask for
    DefaultBatch    \* the size they get if they ask for none (100 in the code)

ASSUME SizesAssumption == BatchSizes \subseteq Int /\ DefaultBatch \in Nat \ {0}

VARIABLES
    table,      \* the committed rows
    pc,         \* "idle", "open", "window", "fn", "commit", "done", "failed"
    filter,     \* the filter of the call
    batchSize,  \* its batch size
    stable,     \* whether PostgreSQL keeps one order through the transaction
    snapshot,   \* the rows its transaction sees
    offset,     \* the rows it has handed out, as the code counts them
    batch,      \* the window it has read
    seen        \* history: the rows the callback was given

vars == <<table, pc, filter, batchSize, stable, snapshot, offset, batch, seen>>
callVars == <<filter, batchSize, stable>>

Goto(s, label) == pc' = [pc EXCEPT ![s] = label]

Init ==
    /\ table = {}
    /\ pc = [s \in Streams |-> "idle"]
    /\ filter = [s \in Streams |-> {}]
    /\ batchSize = [s \in Streams |-> 1]
    /\ stable = [s \in Streams |-> FALSE]
    /\ snapshot = [s \in Streams |-> {}]
    /\ offset = [s \in Streams |-> 0]
    /\ batch = [s \in Streams |-> {}]
    /\ seen = [s \in Streams |-> {}]

\* A command of anybody commits.
Write ==
    /\ \E c \in Commands : table' \in Effect(table, c)
    /\ UNCHANGED <<pc, callVars, snapshot, offset, batch, seen>>

Call(s) ==
    /\ pc[s] = "idle"
    /\ \E f \in Filters, n \in BatchSizes, o \in BOOLEAN :
          /\ filter' = [filter EXCEPT ![s] = f]
          /\ batchSize' = [batchSize EXCEPT ![s] = IF n <= 0 THEN DefaultBatch ELSE n]
          /\ stable' = [stable EXCEPT ![s] = o]
    /\ Goto(s, "open")
    /\ UNCHANGED <<table, snapshot, offset, batch, seen>>

\* The first statement of a Serializable transaction fixes what it sees.
TakeSnapshot(s) ==
    /\ pc[s] = "open"
    /\ snapshot' = [snapshot EXCEPT ![s] = table]
    /\ Goto(s, "window")
    /\ UNCHANGED <<table, callVars, offset, batch, seen>>

WindowSize(rows, k, n) ==
    LET left == Cardinality(rows) - k
    IN  IF left <= 0 THEN 0 ELSE IF left < n THEN left ELSE n

\* OFFSET k LIMIT n where nothing fixes the order, and in the one order of a
\* scan, for which the ids stand.
AnyWindows(rows, k, n) ==
    {w \in SUBSET rows : Cardinality(w) = WindowSize(rows, k, n)}
Rank(rows, r) == Cardinality({s \in rows : s.id < r.id})
StableWindows(rows, k, n) ==
    {w \in AnyWindows(rows, k, n) :
        \A r \in w : k <= Rank(rows, r) /\ Rank(rows, r) < k + n}

Windows_SkipOne(s) ==
    LET rows == Matching(snapshot[s], filter[s])
        k == IF offset[s] = 0 THEN 0 ELSE offset[s] + 1
    IN  IF stable[s] THEN StableWindows(rows, k, batchSize[s])
                     ELSE AnyWindows(rows, k, batchSize[s])

Windows_OfTable(s) ==
    LET rows == Matching(table, filter[s])
    IN  IF stable[s] THEN StableWindows(rows, offset[s], batchSize[s])
                     ELSE AnyWindows(rows, offset[s], batchSize[s])

Windows(s) ==
    LET rows == Matching(snapshot[s], filter[s])
    IN  IF stable[s] THEN StableWindows(rows, offset[s], batchSize[s])
                     ELSE AnyWindows(rows, offset[s], batchSize[s])

\* One round of the loop: a window, and the end if it is empty.
ReadWindow(s) ==
    /\ pc[s] = "window"
    /\ \E w \in Windows(s) :
          /\ batch' = [batch EXCEPT ![s] = w]
          /\ Goto(s, IF w = {} THEN "commit" ELSE "fn")
    /\ UNCHANGED <<table, callVars, snapshot, offset, seen>>

Callback_StopsEarly(s) ==
    /\ pc[s] = "fn"
    /\ seen' = [seen EXCEPT ![s] = @ \cup batch[s]]
    /\ offset' = [offset EXCEPT ![s] = @ + Cardinality(batch[s])]
    /\ Goto(s, IF Cardinality(batch[s]) <= batchSize[s] THEN "commit" ELSE "window")
    /\ UNCHANGED <<table, callVars, snapshot, batch>>

Callback_OffsetStays(s) ==
    /\ pc[s] = "fn"
    /\ seen' = [seen EXCEPT ![s] = @ \cup batch[s]]
    /\ Goto(s, IF Cardinality(batch[s]) < batchSize[s] THEN "commit" ELSE "window")
    /\ UNCHANGED <<table, callVars, snapshot, offset, batch>>

\* The callback accepts the batch; a short one was the last.
Callback(s) ==
    /\ pc[s] = "fn"
    /\ seen' = [seen EXCEPT ![s] = @ \cup batch[s]]
    /\ offset' = [offset EXCEPT ![s] = @ + Cardinality(batch[s])]
    /\ Goto(s, IF Cardinality(batch[s]) < batchSize[s] THEN "commit" ELSE "window")
    /\ UNCHANGED <<table, callVars, snapshot, batch>>

\* It returns an error, having seen the batch.
CallbackFails(s) ==
    /\ pc[s] = "fn"
    /\ seen' = [seen EXCEPT ![s] = @ \cup batch[s]]
    /\ Goto(s, "failed")
    /\ UNCHANGED <<table, callVars, snapshot, offset, batch>>

Commit(s) ==
    /\ pc[s] = "commit"
    /\ Goto(s, "done")
    /\ UNCHANGED <<table, callVars, snapshot, offset, batch, seen>>

\* The context ends, a statement fails, PostgreSQL rejects the transaction,
\* at COMMIT too: nothing is retried, what was handed out stays handed out.
Fail(s) ==
    /\ pc[s] \in {"open", "window", "commit"}
    /\ Goto(s, "failed")
    /\ UNCHANGED <<table, callVars, snapshot, offset, batch, seen>>

Return(s) ==
    /\ pc[s] \in {"done", "failed"}
    /\ Goto(s, "idle")
    /\ snapshot' = [snapshot EXCEPT ![s] = {}]
    /\ offset' = [offset EXCEPT ![s] = 0]
    /\ batch' = [batch EXCEPT ![s] = {}]
    /\ seen' = [seen EXCEPT ![s] = {}]
    /\ filter' = [filter EXCEPT ![s] = {}]
    /\ batchSize' = [batchSize EXCEPT ![s] = 1]
    /\ stable' = [stable EXCEPT ![s] = FALSE]
    /\ UNCHANGED table

Run(s) ==
    \/ TakeSnapshot(s) \/ ReadWindow(s) \/ Callback(s) \/ CallbackFails(s)
    \/ Commit(s) \/ Return(s)

Next == Write \/ \E s \in Streams : Call(s) \/ Run(s) \/ Fail(s)

Spec == Init /\ [][Next]_vars

\* The goroutine runs, its statements and its callback return.
FairSpec == Spec /\ \A s \in Streams : WF_vars(Run(s))

-----------------------------------------------------------------------------
(* Properties.                                                             *)

Collection(s) == Matching(snapshot[s], filter[s])

TypeOK ==
    /\ table \subseteq Row /\ PrimaryKey(table)
    /\ pc \in [Streams -> {"idle", "open", "window", "fn", "commit", "done", "failed"}]
    /\ filter \in [Streams -> Filters]
    /\ batchSize \in [Streams -> Nat \ {0}]
    /\ stable \in [Streams -> BOOLEAN]
    /\ snapshot \in [Streams -> SUBSET Row]
    /\ offset \in [Streams -> Nat]
    /\ batch \in [Streams -> SUBSET Row]
    /\ seen \in [Streams -> SUBSET Row]

\* The loop: what is handed out and what is counted keep pace, the window is
\* the one that comes next, and the loop ends where the collection does.
Loop(s) ==
    LET rows == Collection(s)
        here == pc[s]
    IN  /\ seen[s] \subseteq rows
        /\ here \in {"idle", "open"} => offset[s] = 0 /\ seen[s] = {}
        /\ here \in {"window", "fn"} => offset[s] <= Cardinality(rows)
        /\ here \in {"commit", "done"} => offset[s] = Cardinality(rows)
        /\ here = "fn" =>
              /\ batch[s] \subseteq rows
              /\ Cardinality(batch[s]) = WindowSize(rows, offset[s], batchSize[s])

\* With one order, the rows handed out are the first of it, each once.
InOrder(s) ==
    LET rows == Collection(s)
        here == pc[s]
    IN  /\ here \in {"window", "fn"} => \A r \in seen[s] : Rank(rows, r) < offset[s]
        /\ here = "fn" => \A r \in batch[s] :
              offset[s] <= Rank(rows, r) /\ Rank(rows, r) < offset[s] + batchSize[s]
        /\ here \in {"window", "fn", "commit", "done"} => Cardinality(seen[s]) = offset[s]

\* The inductive invariant behind the properties below.
StreamInv == TypeOK /\ \A s \in Streams : Loop(s) /\ (stable[s] => InOrder(s))

\* A stream that returns nil has handed out as many rows as its filter finds
\* in its snapshot, whatever the orders of its statements and whoever writes.
CountIsRight ==
    \A s \in Streams : pc[s] = "done" => offset[s] = Cardinality(Collection(s))

\* All batches come from one state of the table, also after a failure.
OneSnapshot == \A s \in Streams : seen[s] \subseteq Collection(s)

\* If the statements keep one order, it has handed out each row exactly once.
EachOnceInOneOrder ==
    \A s \in Streams :
        pc[s] = "done" /\ stable[s] =>
            seen[s] = Collection(s) /\ offset[s] = Cardinality(seen[s])

\* No stream goes round for ever.
StreamEnds == \A s \in Streams : pc[s] # "idle" ~> pc[s] = "idle"
=============================================================================
