----------------------------- MODULE QueryCache -----------------------------
(***************************************************************************)
(* The keys a repository caches answers under and the keys it deletes      *)
(* after a write.  A write deletes by exact key the entries of the ids it  *)
(* names, then, kind by kind, everything that a filter could have reached. *)
(***************************************************************************)
EXTENDS RowStore

CONSTANT LongIds    \* ids of more than 255 bytes

ASSUME LongIdsAreIds == LongIds \subseteq Ids

IdKindsDeleted_NoExists == {"find", "search"}
IdKindsDeleted == {"find", "exists", "search"}

FilterPatterns_NoCount == <<"findby", "list", "list", "listSoft", "nolistSoft">>
\* The globs invalidateAfterWrite passes to SCAN, in its order.
FilterPatterns == <<"findby", "list", "count", "listSoft", "nolistSoft">>

\* The last stage of an invalidation: stage 0 deletes the keys of the ids,
\* each later one what one glob matches.
LastStage == 5

IdKeys(ids) == IdKindsDeleted \X (ids \ LongIds)

\* The keys stage n of the invalidation after command c deletes.
Stage(c, n) ==
    IF n = 0 THEN IdKeys(c.ids) ELSE {FilterPatterns[n]} \X Texts

\* The keys deleted before stage n begins.
DeletedBefore(c, n) == UNION {Stage(c, m) : m \in {m \in 0..LastStage : m < n}}

\* The entries invalidateAfterWrite never deletes.
LongKeys == IdKinds \X LongIds

\* The queries that are answered from, and fill, the entry of key k.
CachedUnder(k) == {q \in Queries : q.key = k /\ ~q.direct}

\* What the entry of key k may hold when the table is t.
Current(t, k) == UNION {Answer(t, q) : q \in CachedUnder(k)}

-----------------------------------------------------------------------------
(* What callers may promise; the theorems that need it say so.             *)

\* An entity's ID names the row its command writes.
CommandsNameTheirRows == \A c \in Commands : c.rows \subseteq c.ids

\* Callers that share a key ask the same: in one order, and with filters that
\* do not print alike unless they are one.
OneQueryPerKey ==
    \A q, r \in Queries : q.key = r.key /\ ~q.direct /\ ~r.direct => q = r
=============================================================================
