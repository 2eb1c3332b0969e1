----------------------------- MODULE TxSession -----------------------------
(***************************************************************************)
(* Tx, TxSpecial, TxQuery and TxQuerySpecial beside plain calls.           *)
(* newTxInstance hands the callback an allopDB with a mutex of its own and *)
(* the parent's Redis: what a session does is ordered by PostgreSQL's row  *)
(* locks and snapshots only, never by the parent's mutex.                  *)
(*                                                                         *)
(* All calls go through one cached instance, the topology in which         *)
(* CacheAside keeps the cache exact.  A plain call takes the mutex in its  *)
(* first step; the six stages of an invalidation are one step, since       *)
(* entries are deleted key by key and nothing below relates two keys.  A   *)
(* session is one iteration of runWithRetry, whose loop is in RetryLoops;  *)
(* a transaction that is run again after its COMMIT is one more call.  A   *)
(* COMMIT whose client gave up may land later; of a session it is the step *)
(* CommitSession, whose goroutine has left and done nothing in between.    *)
(***************************************************************************)
EXTENDS QueryCache

CONSTANTS
    Plain,      \* goroutines that call the repository itself
    Sessions,   \* goroutines inside a transaction function
    MaxOps,     \* bound on the commands of one session
    Verbs,      \* the explicit calls sessions make
    MaxLate,        \* bound on SETs that Redis has yet to run
    MaxUnfinished,  \* bound on plain COMMITs that PostgreSQL has yet to finish
    Nobody

ASSUME GoroutinesDiffer == Plain \cap Sessions = {} /\ Nobody \notin Plain \cup Sessions
ASSUME BoundsAssumption == MaxOps \in Nat /\ MaxLate \in Nat /\ MaxUnfinished \in Nat
ASSUME VerbsAreVerbs == Verbs \subseteq {"commit", "rollback", "abort"}

VARIABLES
    table,      \* the committed rows
    cache,      \* cache[k]: no answer, or the one Redis holds under k
    late,       \* SETs whose client gave up waiting and Redis still runs
    unfinished, \* plain commands whose client gave up waiting for COMMIT and
                \* whose transaction PostgreSQL has yet to end
    pc,         \* where a goroutine is; "committed": in no session, and its
                \* last one committed commands
    arg,        \* the query or the command of a plain call
    res,        \* the answer of a plain query that missed
    base,       \* the snapshot of a session
    view,       \* what a session sees: its snapshot and its own writes
    did,        \* the commands a session has run, each in its savepoint
    asked,      \* the explicit Commit, Rollback or Abort that a session has
                \* called since its last command
    owed,       \* the keys that a command of a session ought to have deleted
                \* and may have left
    filler      \* history: the goroutine that stored the entry of key k

vars == <<table, cache, late, unfinished, pc, arg, res, base, view, did, asked,
          owed, filler>>
plainVars == <<arg, res>>
sessionVars == <<base, view, did, asked, owed>>
backlog == <<late, unfinished>>

Procs == Plain \cup Sessions
NoArg == [key |-> Nobody]

Init ==
    /\ table = {}
    /\ cache = [k \in Keys |-> {}]
    /\ late = {}
    /\ unfinished = {}
    /\ pc = [p \in Procs |-> "idle"]
    /\ arg = [p \in Plain |-> NoArg]
    /\ res = [p \in Plain |-> {}]
    /\ base = [s \in Sessions |-> {}]
    /\ view = [s \in Sessions |-> {}]
    /\ did = [s \in Sessions |-> {}]
    /\ asked = [s \in Sessions |-> "nothing"]
    /\ owed = [s \in Sessions |-> {}]
    /\ filler = [k \in Keys |-> Nobody]

Goto(p, label) == pc' = [pc EXCEPT ![p] = label]

InSession(s) == pc[s] \in {"tx", "txquery"}

\* The rows a session has written, and the keys its commands have deleted.
Written(s) == UNION {c.rows : c \in did[s]}
Deleted == [c \in Commands |-> DeletedBefore(c, LastStage + 1)]
DeletedBy(s) == UNION {Deleted[c] : c \in did[s]}

\* PostgreSQL's row locks: the rows that open transactions of others wrote.
LockedAgainst(p) ==
    (UNION {arg[q].rows : q \in {r \in Plain \ {p} : pc[r] = "commit"}})
        \cup (UNION {Written(s) : s \in Sessions \ {p}})
        \cup (UNION {c.rows : c \in unfinished})

Of(t, ids) == {r \in t : r.id \in ids}

Store(p, k, answer) ==
    /\ cache' = [cache EXCEPT ![k] = answer]
    /\ filler' = [filler EXCEPT ![k] = p]

\* The client gives up on its SET; Redis has yet to run it.
Abandon(k, answer) ==
    /\ Cardinality(late) < MaxLate
    /\ late' = late \cup {<<k, answer>>}

Invalidate(keys) ==
    /\ cache' = [k \in Keys |-> IF k \in keys THEN {} ELSE cache[k]]
    /\ filler' = [k \in Keys |-> IF k \in keys THEN Nobody ELSE filler[k]]

-----------------------------------------------------------------------------
(* Plain calls.  A query that hits changes nothing.                        *)

\* A query misses and reads its snapshot, under RLock.
Read(p) ==
    /\ pc[p] = "idle"
    /\ \A q \in Plain : pc[q] # "commit"
    /\ \E q \in Queries :
          /\ Answer(table, q) # {} /\ ~q.direct
          /\ arg' = [arg EXCEPT ![p] = q]
          /\ res' = [res EXCEPT ![p] = Answer(table, q)]
    /\ Goto(p, "set")
    /\ UNCHANGED <<table, cache, backlog, sessionVars, filler>>

\* It stores the answer, or Redis fails or is late, and returns.
Fill(p) ==
    /\ pc[p] = "set"
    /\ \/ Store(p, arg[p].key, res[p]) /\ UNCHANGED late
       \/ UNCHANGED <<cache, filler, late>>
       \/ Abandon(arg[p].key, res[p]) /\ UNCHANGED <<cache, filler>>
    /\ Goto(p, "idle")
    /\ arg' = [arg EXCEPT ![p] = NoArg]
    /\ res' = [res EXCEPT ![p] = {}]
    /\ UNCHANGED <<table, unfinished, sessionVars>>

\* A command runs its statements and its invalidation, under Lock.
Execute(p) ==
    /\ pc[p] = "idle"
    /\ \A q \in Plain : pc[q] = "idle"
    /\ \E c \in Commands :
          /\ Effect(table, c) # {}
          /\ c.rows \cap LockedAgainst(p) = {}
          /\ arg' = [arg EXCEPT ![p] = c]
          /\ Invalidate(Deleted[c])
    /\ Goto(p, "commit")
    /\ UNCHANGED <<table, backlog, res, sessionVars>>

\* Its transaction commits, or is rejected or lost; or the client gives up
\* while PostgreSQL is still at it.
Commit(p) ==
    /\ pc[p] = "commit"
    /\ \/ table' \in Effect(table, arg[p]) \cup {table} /\ UNCHANGED unfinished
       \/ /\ Cardinality(unfinished) < MaxUnfinished
          /\ unfinished' = unfinished \cup {arg[p]}
          /\ UNCHANGED table
    /\ Goto(p, "idle")
    /\ arg' = [arg EXCEPT ![p] = NoArg]
    /\ UNCHANGED <<cache, late, res, sessionVars, filler>>

-----------------------------------------------------------------------------
(* Sessions.                                                               *)

\* Tx and TxSpecial, or TxQuery and TxQuerySpecial; the snapshot is the one
\* of the first statement.
Begin(s) ==
    /\ ~InSession(s)
    /\ \E kind \in {"tx", "txquery"} : Goto(s, kind)
    /\ base' = [base EXCEPT ![s] = table]
    /\ view' = [view EXCEPT ![s] = table]
    /\ asked' = [asked EXCEPT ![s] = "nothing"]
    /\ UNCHANGED <<table, cache, backlog, plainVars, did, owed, filler>>

\* A query misses and stores the answer it reads in the transaction.  Commands
\* only list: UpdateMany and DeleteMany do.  What the session sees does not
\* depend on when it looks, so that the look and the SET are one step.
SessionRead(s) ==
    /\ InSession(s)
    /\ \E q \in Queries :
          /\ pc[s] = "tx" => q.key[1] = "list"
          /\ ~q.direct /\ Answer(view[s], q) # {}
          /\ \/ /\ Store(s, q.key, Answer(view[s], q))
                /\ owed' = [owed EXCEPT ![s] = @ \ {q.key}]
                /\ UNCHANGED late
             \/ Abandon(q.key, Answer(view[s], q)) /\ UNCHANGED <<cache, filler, owed>>
    /\ UNCHANGED <<table, unfinished, pc, plainVars, base, view, did, asked>>

SnapshotIsCurrent_ReadCommitted(s, ids) == TRUE

\* sql.LevelSerializable: PostgreSQL refuses to write a row that has changed
\* since the snapshot.
SnapshotIsCurrent(s, ids) == Of(base[s], ids) = Of(table, ids)

SessionDeletes_AtCommit(c) == {}

\* The keys a command of a session deletes at once.
SessionDeletes(c) == Deleted[c]

\* A command runs in a savepoint and invalidates; COMMIT is far away.  One
\* that fails leaves the rows as they were; the entries it had deleted by
\* then are gone, as if they had expired.  Unless its invalidation fails with
\* the deadline of WithTimeout over: ROLLBACK TO SAVEPOINT, which has the same
\* context, is not sent, the callback gets an error and the write stays.
SessionCommand(s) ==
    /\ pc[s] = "tx"
    /\ Cardinality(did[s]) < MaxOps
    /\ \E c \in Commands :
          /\ view' \in {[view EXCEPT ![s] = t] : t \in Effect(view[s], c)}
          /\ c.rows \cap LockedAgainst(s) = {}
          /\ SnapshotIsCurrent(s, c.rows)
          /\ did' = [did EXCEPT ![s] = @ \cup {c}]
          /\ \/ /\ Invalidate(SessionDeletes(c))
                /\ owed' = [owed EXCEPT ![s] = @ \ Deleted[c]]
             \/ /\ owed' = [owed EXCEPT ![s] = @ \cup Deleted[c]]
                /\ UNCHANGED <<cache, filler>>
    /\ asked' = [asked EXCEPT ![s] = "nothing"]
    /\ UNCHANGED <<table, backlog, pc, plainVars, base>>

\* Commit, Rollback and Abort of Transactional: they return nil.
ExplicitCall(s) ==
    /\ pc[s] = "tx"
    /\ \E verb \in Verbs : asked' = [asked EXCEPT ![s] = verb]
    /\ UNCHANGED <<table, cache, backlog, pc, plainVars, base, view, did, owed, filler>>

EndSession(s, label) ==
    /\ Goto(s, label)
    /\ base' = [base EXCEPT ![s] = {}]
    /\ view' = [view EXCEPT ![s] = {}]
    /\ did' = [did EXCEPT ![s] = {}]
    /\ owed' = [owed EXCEPT ![s] = {}]
    /\ asked' = [asked EXCEPT ![s] = IF label = "committed" THEN @ ELSE "nothing"]
    /\ UNCHANGED <<cache, backlog, plainVars, filler>>

\* The function returned nil and COMMIT succeeds.
CommitSession(s) ==
    /\ InSession(s)
    /\ table' = {r \in table : r.id \notin Written(s)} \cup Of(view[s], Written(s))
    /\ EndSession(s, IF did[s] = {} THEN "idle" ELSE "committed")

\* It returned an error, was rejected, or the program died.
RollbackSession(s) ==
    /\ InSession(s)
    /\ EndSession(s, "idle")
    /\ UNCHANGED table

\* The TTL of an entry runs out.
Expire(k) ==
    /\ cache[k] # {}
    /\ Invalidate({k})
    /\ UNCHANGED <<table, backlog, pc, plainVars, sessionVars>>

\* Redis gets to a SET whose client is gone.
LateSet(e) ==
    /\ e \in late
    /\ Store(Nobody, e[1], e[2])
    /\ late' = late \ {e}
    /\ UNCHANGED <<table, unfinished, pc, plainVars, sessionVars>>

\* PostgreSQL ends a plain command whose client is gone: it commits, or not.
LateCommit(c) ==
    /\ c \in unfinished
    /\ table' \in Effect(table, c) \cup {table}
    /\ unfinished' = unfinished \ {c}
    /\ UNCHANGED <<cache, late, pc, plainVars, sessionVars, filler>>

Next ==
    \/ \E p \in Plain : Read(p) \/ Fill(p) \/ Execute(p) \/ Commit(p)
    \/ \E s \in Sessions :
          \/ Begin(s) \/ SessionRead(s) \/ SessionCommand(s) \/ ExplicitCall(s)
          \/ CommitSession(s) \/ RollbackSession(s)
    \/ \E k \in Keys : Expire(k)
    \/ \E e \in late : LateSet(e)
    \/ \E c \in unfinished : LateCommit(c)

Spec == Init /\ [][Next]_vars

-----------------------------------------------------------------------------
(* Properties.                                                             *)

\* Types, and what a commit relies on: a session sees its snapshot and the
\* rows it wrote, no two open transactions wrote one row, and the rows it
\* wrote have not changed since its snapshot: its commit overwrites nothing
\* it has not seen.
SessionInv ==
    /\ table \subseteq Row /\ PrimaryKey(table) /\ unfinished \subseteq Commands
    /\ \A s \in Sessions :
          /\ view[s] \subseteq Row /\ PrimaryKey(view[s])
          /\ did[s] \subseteq Commands /\ (did[s] # {} => pc[s] = "tx")
          /\ view[s] \ Of(view[s], Written(s)) = base[s] \ Of(base[s], Written(s))
          /\ Of(base[s], Written(s)) = Of(table, Written(s))
          /\ Written(s) \cap LockedAgainst(s) = {}

Stale(k) == cache[k] # {} /\ ~(cache[k] \subseteq Current(table, k))

\* What the goroutines leave in the cache.  A plain command is alone among the
\* plain calls from its first statement until it gives the mutex back, so that
\* until then no plain query fills again what it has deleted.  And what a
\* session itself leaves under a key that its commands have deleted is the list
\* it would read now: between its first command and its commit it never leaves
\* an entry that its own later command outdates.  Not so under the keys of a
\* command whose invalidation failed after its deadline (owed).
FillersInv ==
    /\ \A p, q \in Plain : pc[p] = "commit" /\ q # p => pc[q] = "idle"
    /\ \A p \in Plain : pc[p] = "commit" =>
          \A k \in Deleted[arg[p]] : cache[k] # {} => filler[k] \notin Plain
    /\ \A s \in Sessions : \A k \in DeletedBy(s) \ owed[s] :
          cache[k] # {} /\ filler[k] = s =>
              \E q \in CachedUnder(k) :
                  q.key[1] = "list" /\ cache[k] = Answer(view[s], q)

\* A session stores what it sees, uncommitted or old; a plain query stores a
\* snapshot that a commit has overtaken, of a session or one that landed late;
\* a SET runs late; a session commits and another goroutine has filled the
\* entry since the session's commands deleted it, or the command that ought to
\* have deleted it failed after its deadline and its write stayed; a plain
\* command commits and a session or a late SET has filled the entry since; the
\* COMMIT of a plain command lands after its client gave up.
SessionWay(k) ==
    \/ \E s \in Sessions : filler'[k] = s /\ cache'[k] # cache[k]
    \/ \E p \in Plain :
          /\ pc[p] = "set" /\ arg[p].key = k
          /\ res[p] # Answer(table, arg[p])
    \/ \E e \in late \ late' : e[1] = k
    \/ \E s \in Sessions :
          /\ InSession(s) /\ pc'[s] = "committed"
          /\ \/ k \in DeletedBy(s) /\ filler[k] # s
             \/ k \in owed[s]
    \/ \E p \in Plain :
          /\ pc[p] = "commit" /\ pc'[p] = "idle"
          /\ k \in Deleted[arg[p]] /\ filler[k] \notin Plain
    \/ \E c \in unfinished \ unfinished' : k \in Deleted[c]

\* With sessions beside plain calls on one instance, an entry goes stale in
\* those ways only.  No rollback does it, and no session does it to itself by
\* committing: its commands delete every entry that its own lists left and they
\* outdate, unless one failed after its deadline and its callback went on.
StaleOnlyBySessions ==
    [][\A k \in Keys \ LongKeys : ~Stale(k) /\ Stale(k)' => SessionWay(k)]_vars

-----------------------------------------------------------------------------
(* What a comment of the repository says, checked against the code above.  *)

\* interfaces.go:52: "Rollback reverte o estado da sessão transacional atual":
\* a session that calls Rollback after its commands does not commit them.
RollbackReverts ==
    \A s \in Sessions : asked[s] \in {"rollback", "abort"} => pc[s] # "committed"
=============================================================================
