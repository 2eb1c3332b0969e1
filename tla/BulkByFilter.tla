---------------------------- MODULE BulkByFilter ----------------------------
(***************************************************************************)
(* UpdateMany and DeleteMany of aliases.go over a repository.  Neither is  *)
(* a statement of its own: the method calls List, then Patch for one row   *)
(* after the other, or DeleteBatch for all of them, each a whole call with *)
(* a mutex and a transaction of its own.  The calls are those of           *)
(* AtomicRepository, which CacheAside implements; other callers make       *)
(* theirs in between.                                                      *)
(***************************************************************************)
EXTENDS AtomicRepository

CONSTANTS Bulks, NoBulk

\* What callers ask for: the filter, and the value UpdateMany writes.
Bulk == [op : {"UpdateMany", "DeleteMany"}, filter : Filters, val : Vals]

ASSUME BulksAreBulks == Bulks \subseteq Bulk /\ NoBulk \notin Bulk

VARIABLES
    bulk,       \* the bulk call a goroutine is in
    phase,      \* "none", "list", "apply", "ok" (nil), "error"
    items,      \* the ids of the rows List gave it
    next,       \* the item it is at
    wrote,      \* history: the ids its commands named when they took effect,
                \* which for DeleteBatch need not all have had a row
    disturbed   \* history: somebody else has changed the table since its List

bulkVars == <<bulk, phase, items, next, wrote, disturbed>>
allVars == <<vars, bulkVars>>

BulkInit ==
    /\ Init
    /\ bulk = [p \in Procs |-> NoBulk]
    /\ phase = [p \in Procs |-> "none"]
    /\ items = [p \in Procs |-> <<>>]
    /\ next = [p \in Procs |-> 1]
    /\ wrote = [p \in Procs |-> {}]
    /\ disturbed = [p \in Procs |-> FALSE]

\* List without options: the first page, in no promised order.
ListOf(f) ==
    [key |-> <<"list", Printed[f]>>, filter |-> f, order |-> "ASC", direct |-> FALSE]

Patch(i, v) == [op |-> "Replace", ids |-> {i}, rows |-> {i}, val |-> v]
DeleteBatch(ids, v) == [op |-> "Delete", ids |-> ids, rows |-> ids, val |-> v]

\* What a bulk call is made of, others may call as well.
ASSUME BulksMakeCalls ==
    \A b \in Bulks :
        /\ ListOf(b.filter) \in Queries
        /\ b.op = "UpdateMany" => \A i \in Ids : Patch(i, b.val) \in Commands
        /\ b.op = "DeleteMany" =>
              \A ids \in (SUBSET Ids) \ {{}} : DeleteBatch(ids, b.val) \in Commands

ItemIds(p) == {items[p][n] : n \in DOMAIN items[p]}

BulkCall(p) ==
    /\ phase[p] = "none"
    /\ \E b \in Bulks :
          /\ bulk' = [bulk EXCEPT ![p] = b]
          /\ CallWith(p, ListOf(b.filter))
    /\ phase' = [phase EXCEPT ![p] = "list"]
    /\ UNCHANGED <<items, next, wrote, disturbed>>

\* List has returned: what remains are its rows' ids.
Listed(p) ==
    /\ phase[p] = "list" /\ pc[p] = "done"
    /\ \E page \in res[p] :
          items' = [items EXCEPT ![p] = [n \in DOMAIN page |-> page[n].id]]
    /\ phase' = [phase EXCEPT ![p] = IF items'[p] = <<>> THEN "ok" ELSE "apply"]
    /\ End({p})
    /\ UNCHANGED <<bulk, next, wrote, disturbed>>

\* The next Patch of UpdateMany, the DeleteBatch of DeleteMany.
Apply(p) ==
    /\ phase[p] = "apply"
    /\ CallWith(p, IF bulk[p].op = "UpdateMany"
                   THEN Patch(items[p][next[p]], bulk[p].val)
                   ELSE DeleteBatch(ItemIds(p), bulk[p].val))
    /\ UNCHANGED bulkVars

Applied_SkipsLast(p) ==
    /\ phase[p] = "apply" /\ pc[p] = "done"
    /\ IF bulk[p].op = "UpdateMany" /\ next[p] < Len(items[p]) - 1
       THEN next' = [next EXCEPT ![p] = @ + 1] /\ UNCHANGED phase
       ELSE phase' = [phase EXCEPT ![p] = "ok"] /\ UNCHANGED next
    /\ End({p})
    /\ UNCHANGED <<bulk, items, wrote, disturbed>>

\* It returned nil: go on, or return nil after the last.
Applied(p) ==
    /\ phase[p] = "apply" /\ pc[p] = "done"
    /\ IF bulk[p].op = "UpdateMany" /\ next[p] < Len(items[p])
       THEN next' = [next EXCEPT ![p] = @ + 1] /\ UNCHANGED phase
       ELSE phase' = [phase EXCEPT ![p] = "ok"] /\ UNCHANGED next
    /\ End({p})
    /\ UNCHANGED <<bulk, items, wrote, disturbed>>

Abandon_GoesOn(p) ==
    /\ phase[p] \in {"list", "apply"} /\ pc[p] = "failed"
    /\ IF phase[p] = "apply" /\ bulk[p].op = "UpdateMany" /\ next[p] < Len(items[p])
       THEN next' = [next EXCEPT ![p] = @ + 1] /\ UNCHANGED phase
       ELSE phase' = [phase EXCEPT ![p] = "error"] /\ UNCHANGED next
    /\ End({p})
    /\ UNCHANGED <<bulk, items, wrote, disturbed>>

\* It returned an error: so does the bulk call, whatever it has done so far.
Abandon(p) ==
    /\ phase[p] \in {"list", "apply"} /\ pc[p] = "failed"
    /\ phase' = [phase EXCEPT ![p] = "error"]
    /\ End({p})
    /\ UNCHANGED <<bulk, items, next, wrote, disturbed>>

EndBulks(ps) ==
    /\ bulk' = [p \in Procs |-> IF p \in ps THEN NoBulk ELSE bulk[p]]
    /\ phase' = [p \in Procs |-> IF p \in ps THEN "none" ELSE phase[p]]
    /\ items' = [p \in Procs |-> IF p \in ps THEN <<>> ELSE items[p]]
    /\ next' = [p \in Procs |-> IF p \in ps THEN 1 ELSE next[p]]
    /\ wrote' = [p \in Procs |-> IF p \in ps THEN {} ELSE wrote[p]]
    /\ disturbed' = [p \in Procs |-> IF p \in ps THEN FALSE ELSE disturbed[p]]

BulkReturn(p) ==
    /\ phase[p] \in {"ok", "error"}
    /\ EndBulks({p})
    /\ UNCHANGED vars

\* A step of a call of the repository that leaves the table alone.
Quiet(p) ==
    /\ \/ phase[p] = "none" /\ (Call(p) \/ Return(p))
       \/ Read(p) \/ Fail(p)
    /\ UNCHANGED bulkVars

HasListed(p) ==
    phase[p] \in {"apply", "ok", "error"} \/ (phase[p] = "list" /\ pc[p] = "done")

\* A command takes effect, a bulk call's or another's.
Effective(p) ==
    /\ Write(p)
    /\ wrote' = IF phase[p] = "apply"
                THEN [wrote EXCEPT ![p] = @ \cup arg[p].ids] ELSE wrote
    /\ disturbed' = [q \in Procs |-> disturbed[q] \/ (q # p /\ HasListed(q))]
    /\ UNCHANGED <<bulk, phase, items, next>>

BulkCrash(ps) == End(ps) /\ EndBulks(ps)

BulkNext ==
    \/ \E p \in Procs :
          \/ BulkCall(p) \/ Listed(p) \/ Apply(p) \/ Applied(p) \/ Abandon(p)
          \/ BulkReturn(p) \/ Quiet(p) \/ Effective(p)
    \/ \E ps \in SUBSET Procs : BulkCrash(ps)

BulkSpec == BulkInit /\ [][BulkNext]_allVars

-----------------------------------------------------------------------------
(* Properties.                                                             *)

\* The rows that a bulk call has still to change: those that its filter lets
\* through, without the ones that UpdateMany has given the value it writes.
Left(p) ==
    Matching(table, IF bulk[p].op = "UpdateMany"
                    THEN bulk[p].filter \ {bulk[p].val} ELSE bulk[p].filter)

\* A bulk call that returns nil has left no row of its filter, if nobody else
\* wrote since its List and the List did not fill a page.
CompleteUnlessFullPage ==
    \A p \in Procs :
        phase[p] = "ok" /\ ~disturbed[p] /\ Len(items[p]) < PageSize
            => Left(p) = {}

\* What a bulk call says is true, whoever writes beside it: after nil
\* UpdateMany has changed every row it listed; after an error the rows before
\* the one that failed, and that one if its acknowledgement was lost.
\* DeleteMany's statement has run for all of its rows or for none; those that
\* somebody else had removed by then are gone as well.
ReportIsTrue ==
    \A p \in Procs :
        LET before(n) == {items[p][m] : m \in 1 .. n}
        IN  /\ phase[p] = "ok" => wrote[p] = ItemIds(p)
            /\ phase[p] = "error" /\ items[p] # <<>> =>
                  wrote[p] \in IF bulk[p].op = "UpdateMany"
                               THEN {before(next[p] - 1), before(next[p])}
                               ELSE {{}, ItemIds(p)}
=============================================================================
