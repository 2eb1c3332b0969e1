----------------------------- MODULE CacheAside -----------------------------
(***************************************************************************)
(* Repositories over one table and one Redis.  A goroutine calls a query   *)
(* or a command on a repository instance (allopDB), which takes its own    *)
(* sync.RWMutex: RLock around "look in Redis, read a snapshot, fill        *)
(* Redis", Lock around "run the statements, delete the cached answers,     *)
(* commit".  Instances share the table and the cache and nothing else; the *)
(* constructors C, Q, S, R each build a new one.                           *)
(*                                                                         *)
(* PostgreSQL is modelled by what the code relies on: a query sees the     *)
(* committed rows of one instant, a row written by an open transaction is  *)
(* locked, a rejected transaction (40001, 40P01) leaves nothing behind.    *)
(* Both servers may go on with what a client that gave up has sent: Redis  *)
(* with a SET, PostgreSQL with a COMMIT.                                   *)
(***************************************************************************)
EXTENDS QueryCache

CONSTANTS
    Procs,          \* goroutines
    Instances,      \* repository instances
    ReadInst,       \* the instances queries are called on
    WriteInst,      \* the instances commands are called on
    Cached,         \* the instances built with a usable WithCache
    MaxAttempts,    \* maxAttempts of runSerializableTx (5 in the code)
    MaxLate,        \* bound on SETs that Redis has yet to run
    MaxUnfinished,  \* bound on COMMITs that PostgreSQL has yet to finish
    Misread,        \* whether the error of a connection that broke at COMMIT
                    \* may have 40001 in its text
    NoCall

ASSUME InstancesAssumption ==
    /\ ReadInst \cup WriteInst \subseteq Instances
    /\ Cached \subseteq Instances
ASSUME BoundsAssumption ==
    MaxAttempts \in Nat \ {0} /\ MaxLate \in Nat /\ MaxUnfinished \in Nat
ASSUME MisreadAssumption == Misread \in BOOLEAN

VARIABLES
    table,      \* the committed rows
    cache,      \* cache[k]: no answer, or the one Redis holds under k
    late,       \* SETs whose client gave up waiting and Redis still runs
    unfinished, \* commands whose client gave up waiting for COMMIT and whose
                \* transaction PostgreSQL has yet to end
    rlock,      \* rlock[x]: the goroutines that hold x's mutex for reading
    wlock,      \* wlock[x]: the goroutine that holds, or is next to hold, it
    pc,         \* where a goroutine is in its call
    inst,       \* the instance it called
    arg,        \* its query or command
    res,        \* the answer its query found: a set of at most one
    attempt,    \* transactions of this call that PostgreSQL rejected
    stage       \* the next stage of its invalidation

vars == <<table, cache, late, unfinished, rlock, wlock, pc, inst, arg, res,
          attempt, stage>>
callVars == <<inst, arg>>
lockVars == <<rlock, wlock>>
txVars == <<attempt, stage>>
backlog == <<late, unfinished>>

ReadPCs == {"get", "query", "set"}
WritePCs == {"exec", "inval", "commit"}
PCs == {"idle", "rlock", "lock", "drain", "ret", "fail"} \cup ReadPCs \cup WritePCs

Goto(p, label) == pc' = [pc EXCEPT ![p] = label]

CacheEnabled(p) == inst[p] \in Cached
Cacheable(p) == CacheEnabled(p) /\ ~arg[p].direct

Init ==
    /\ table = {}
    /\ cache = [k \in Keys |-> {}]
    /\ late = {}
    /\ unfinished = {}
    /\ rlock = [x \in Instances |-> {}]
    /\ wlock = [x \in Instances |-> {}]
    /\ pc = [p \in Procs |-> "idle"]
    /\ inst = [p \in Procs |-> NoCall]
    /\ arg = [p \in Procs |-> NoCall]
    /\ res = [p \in Procs |-> {}]
    /\ attempt = [p \in Procs |-> 0]
    /\ stage = [p \in Procs |-> 0]

-----------------------------------------------------------------------------
(* A call starts, and takes the mutex of its instance.                     *)

CallRead(p) ==
    /\ pc[p] = "idle"
    /\ \E x \in ReadInst, q \in Queries :
          /\ inst' = [inst EXCEPT ![p] = x]
          /\ arg' = [arg EXCEPT ![p] = q]
    /\ Goto(p, "rlock")
    /\ UNCHANGED <<table, cache, backlog, lockVars, res, txVars>>

CallWrite(p) ==
    /\ pc[p] = "idle"
    /\ \E x \in WriteInst, c \in Commands :
          /\ inst' = [inst EXCEPT ![p] = x]
          /\ arg' = [arg EXCEPT ![p] = c]
    /\ Goto(p, "lock")
    /\ UNCHANGED <<table, cache, backlog, lockVars, res, txVars>>

RLock_BesideWriter(p) ==
    /\ pc[p] = "rlock"
    /\ rlock' = [rlock EXCEPT ![inst[p]] = @ \cup {p}]
    /\ Goto(p, "get")
    /\ UNCHANGED <<table, cache, backlog, wlock, callVars, res, txVars>>

\* sync.RWMutex.RLock: a writer that holds or awaits the mutex keeps it out.
RLock(p) ==
    /\ pc[p] = "rlock"
    /\ wlock[inst[p]] = {}
    /\ rlock' = [rlock EXCEPT ![inst[p]] = @ \cup {p}]
    /\ Goto(p, "get")
    /\ UNCHANGED <<table, cache, backlog, wlock, callVars, res, txVars>>

\* sync.RWMutex.Lock, first half: one writer at a time keeps new readers out.
Announce(p) ==
    /\ pc[p] = "lock"
    /\ wlock[inst[p]] = {}
    /\ wlock' = [wlock EXCEPT ![inst[p]] = {p}]
    /\ Goto(p, "drain")
    /\ UNCHANGED <<table, cache, backlog, rlock, callVars, res, txVars>>

Drain_NoWait(p) ==
    /\ pc[p] = "drain"
    /\ Goto(p, "exec")
    /\ UNCHANGED <<table, cache, backlog, lockVars, callVars, res, txVars>>

\* Second half: the writer waits for the readers inside to leave.
Drain(p) ==
    /\ pc[p] = "drain"
    /\ rlock[inst[p]] = {}
    /\ Goto(p, "exec")
    /\ UNCHANGED <<table, cache, backlog, lockVars, callVars, res, txVars>>

-----------------------------------------------------------------------------
(* A query.                                                                *)

\* The entry is there and decodes: it is the answer.
Hit(p) ==
    /\ pc[p] = "get"
    /\ Cacheable(p)
    /\ cache[arg[p].key] # {}
    /\ res' = [res EXCEPT ![p] = cache[arg[p].key]]
    /\ Goto(p, "ret")
    /\ UNCHANGED <<table, cache, backlog, lockVars, callVars, txVars>>

\* No entry, no cache, or any failure of Redis: all of them mean "not found".
Miss(p) ==
    /\ pc[p] = "get"
    /\ Goto(p, "query")
    /\ UNCHANGED <<table, cache, backlog, lockVars, callVars, res, txVars>>

\* runReadTx: one snapshot, one SELECT.  ErrRecordNotFound is not cached.
ReadSnapshot(p) ==
    /\ pc[p] = "query"
    /\ res' = [res EXCEPT ![p] = Answer(table, arg[p])]
    /\ Goto(p, IF Cacheable(p) /\ res'[p] # {} THEN "set" ELSE "ret")
    /\ UNCHANGED <<table, cache, backlog, lockVars, callVars, txVars>>

\* cacheSet.  Its error is dropped; a SET that timed out may still be run.
Fill(p) ==
    /\ pc[p] = "set"
    /\ \/ /\ cache' = [cache EXCEPT ![arg[p].key] = res[p]]
          /\ UNCHANGED late
       \/ UNCHANGED <<cache, late>>
       \/ /\ Cardinality(late) < MaxLate
          /\ late' = late \cup {<<arg[p].key, res[p]>>}
          /\ UNCHANGED cache
    /\ Goto(p, "ret")
    /\ UNCHANGED <<table, unfinished, lockVars, callVars, res, txVars>>

-----------------------------------------------------------------------------
(* A command: runSerializableTx around the statements and the invalidation.*)

OpenWrite(p) == pc[p] \in {"inval", "commit"}

RowsLocked(p) ==
    \/ \E q \in Procs \ {p} : OpenWrite(q) /\ arg[q].rows \cap arg[p].rows # {}
    \/ \E c \in unfinished : c.rows \cap arg[p].rows # {}

\* The statements succeed; their rows are locked until the transaction ends.
Execute(p) ==
    /\ pc[p] = "exec"
    /\ Effect(table, arg[p]) # {}
    /\ ~RowsLocked(p)
    /\ stage' = [stage EXCEPT ![p] = 0]
    /\ Goto(p, IF CacheEnabled(p) THEN "inval" ELSE "commit")
    /\ UNCHANGED <<table, cache, backlog, lockVars, callVars, res, attempt>>

\* No such row, or a duplicate key: an error that is not retried.
Reject(p) ==
    /\ pc[p] = "exec"
    /\ Effect(table, arg[p]) = {}
    /\ Goto(p, "fail")
    /\ UNCHANGED <<table, cache, backlog, lockVars, callVars, res, txVars>>

\* One stage of invalidateAfterWrite, inside the open transaction.
Invalidate(p) ==
    /\ pc[p] = "inval"
    /\ cache' = [k \in Keys |->
                    IF k \in Stage(arg[p], stage[p]) THEN {} ELSE cache[k]]
    /\ stage' = [stage EXCEPT ![p] = @ + 1]
    /\ Goto(p, IF stage[p] = LastStage THEN "commit" ELSE "inval")
    /\ UNCHANGED <<table, backlog, lockVars, callVars, res, attempt>>

\* The loop of runSerializableTx goes round: back off and run the transaction
\* again, at most MaxAttempts times in all.
Retry(p) ==
    /\ IF attempt[p] < MaxAttempts - 1
       THEN /\ attempt' = [attempt EXCEPT ![p] = @ + 1]
            /\ Goto(p, "exec")
       ELSE /\ Goto(p, "fail")
            /\ UNCHANGED attempt
    /\ stage' = [stage EXCEPT ![p] = 0]

\* The call does not learn how its COMMIT ended: the connection broke or the
\* context is over.  It returns the error; or takes its text for a rejection
\* and runs the transaction again.
Unacknowledged(p) ==
    \/ Goto(p, "fail") /\ UNCHANGED txVars
    \/ Misread /\ Retry(p)

\* COMMIT takes effect, and the caller hears of it or not; or the client gives
\* up while PostgreSQL is still at it.
Commit(p) ==
    /\ pc[p] = "commit"
    /\ \/ /\ table' \in Effect(table, arg[p])
          /\ \/ Goto(p, "ret") /\ UNCHANGED txVars
             \/ Unacknowledged(p)
          /\ UNCHANGED unfinished
       \/ /\ Cardinality(unfinished) < MaxUnfinished
          /\ unfinished' = unfinished \cup {arg[p]}
          /\ Unacknowledged(p)
          /\ UNCHANGED table
    /\ UNCHANGED <<cache, late, lockVars, callVars, res>>

\* A stage of the invalidation that fails may have deleted some of its keys:
\* a Redis that answers too late has run the DELs.
DeletesSome(p) ==
    \/ UNCHANGED cache
    \/ /\ pc[p] = "inval"
       /\ \E gone \in SUBSET {k \in Stage(arg[p], stage[p]) : cache[k] # {}} :
             cache' = [k \in Keys |-> IF k \in gone THEN {} ELSE cache[k]]

\* PostgreSQL rejects the transaction with 40001 or 40P01, at a statement or
\* at COMMIT, or Redis fails with an error that has 40001 in its text.
SerializationFailure(p) ==
    /\ pc[p] \in {"exec", "inval", "commit"}
    /\ DeletesSome(p)
    /\ Retry(p)
    /\ UNCHANGED <<table, backlog, lockVars, callVars, res>>

\* Any other error of the database or of Redis, or a context that ended: the
\* transaction rolls back.
Break(p) ==
    /\ pc[p] \in {"query", "exec", "inval", "commit"}
    /\ DeletesSome(p)
    /\ Goto(p, "fail")
    /\ UNCHANGED <<table, backlog, lockVars, callVars, res, txVars>>

-----------------------------------------------------------------------------
(* Calls end; Redis and the machine do what they do.                       *)

Return_KeepsLock(p) ==
    /\ pc[p] \in {"ret", "fail"}
    /\ Goto(p, "idle")
    /\ rlock' = [rlock EXCEPT ![inst[p]] = @ \ {p}]
    /\ wlock' = [wlock EXCEPT ![inst[p]] = IF pc[p] = "ret" THEN @ \ {p} ELSE @]
    /\ inst' = [inst EXCEPT ![p] = NoCall]
    /\ arg' = [arg EXCEPT ![p] = NoCall]
    /\ res' = [res EXCEPT ![p] = {}]
    /\ attempt' = [attempt EXCEPT ![p] = 0]
    /\ stage' = [stage EXCEPT ![p] = 0]
    /\ UNCHANGED <<table, cache, backlog>>

\* The deferred RUnlock or Unlock runs on every way out.
Return(p) ==
    /\ pc[p] \in {"ret", "fail"}
    /\ Goto(p, "idle")
    /\ rlock' = [rlock EXCEPT ![inst[p]] = @ \ {p}]
    /\ wlock' = [wlock EXCEPT ![inst[p]] = @ \ {p}]
    /\ inst' = [inst EXCEPT ![p] = NoCall]
    /\ arg' = [arg EXCEPT ![p] = NoCall]
    /\ res' = [res EXCEPT ![p] = {}]
    /\ attempt' = [attempt EXCEPT ![p] = 0]
    /\ stage' = [stage EXCEPT ![p] = 0]
    /\ UNCHANGED <<table, cache, backlog>>

Expire_Never(k) == FALSE /\ UNCHANGED vars

\* The TTL that cacheSet gave the entry runs out.
Expire(k) ==
    /\ cache[k] # {}
    /\ cache' = [cache EXCEPT ![k] = {}]
    /\ UNCHANGED <<table, backlog, lockVars, pc, callVars, res, txVars>>

\* Redis gets to a SET whose client is gone.
LateSet(e) ==
    /\ e \in late
    /\ cache' = [cache EXCEPT ![e[1]] = e[2]]
    /\ late' = late \ {e}
    /\ UNCHANGED <<table, unfinished, lockVars, pc, callVars, res, txVars>>

\* PostgreSQL ends a transaction whose client is gone: it commits, or not.
LateCommit(c) ==
    /\ c \in unfinished
    /\ table' \in Effect(table, c) \cup {table}
    /\ unfinished' = unfinished \ {c}
    /\ UNCHANGED <<cache, late, lockVars, pc, callVars, res, txVars>>

\* The program that owns instance x dies and starts again: its calls and its
\* mutex are gone, its open transactions roll back, Redis keeps its entries.
Crash(x) ==
    LET In(p) == inst[p] = x
    IN  /\ \E p \in Procs : In(p)
        /\ pc' = [p \in Procs |-> IF In(p) THEN "idle" ELSE pc[p]]
        /\ inst' = [p \in Procs |-> IF In(p) THEN NoCall ELSE inst[p]]
        /\ arg' = [p \in Procs |-> IF In(p) THEN NoCall ELSE arg[p]]
        /\ res' = [p \in Procs |-> IF In(p) THEN {} ELSE res[p]]
        /\ attempt' = [p \in Procs |-> IF In(p) THEN 0 ELSE attempt[p]]
        /\ stage' = [p \in Procs |-> IF In(p) THEN 0 ELSE stage[p]]
        /\ rlock' = [rlock EXCEPT ![x] = {}]
        /\ wlock' = [wlock EXCEPT ![x] = {}]
        /\ UNCHANGED <<table, cache, backlog>>

ReadStep(p) == Hit(p) \/ Miss(p) \/ ReadSnapshot(p) \/ Fill(p)
WriteStep(p) == Execute(p) \/ Reject(p) \/ Invalidate(p) \/ Commit(p)

Next ==
    \/ \E p \in Procs :
          \/ CallRead(p) \/ RLock(p) \/ ReadStep(p)
          \/ CallWrite(p) \/ Announce(p) \/ Drain(p) \/ WriteStep(p)
          \/ SerializationFailure(p) \/ Break(p) \/ Return(p)
    \/ \E k \in Keys : Expire(k)
    \/ \E e \in late : LateSet(e)
    \/ \E c \in unfinished : LateCommit(c)
    \/ \E x \in Instances : Crash(x)

Spec == Init /\ [][Next]_vars

\* Goroutines run; a mutex and a row lock let everyone in eventually
\* (sync.RWMutex starves nobody, PostgreSQL queues); entries have a TTL, and
\* both servers work off their connections.  Failures and calls are not
\* required.
Run(p) == Drain(p) \/ ReadStep(p) \/ Invalidate(p) \/ Commit(p) \/ Return(p)
Acquire(p) == RLock(p) \/ Announce(p) \/ Execute(p) \/ Reject(p)

Fairness ==
    /\ \A p \in Procs : WF_vars(Run(p)) /\ SF_vars(Acquire(p))
    /\ \A k \in {q.key : q \in Queries} : WF_vars(Expire(k))
    /\ WF_vars(\E e \in late : LateSet(e))
    /\ WF_vars(\E c \in unfinished : LateCommit(c))

FairSpec == Spec /\ Fairness

-----------------------------------------------------------------------------
(* Properties.                                                             *)

\* Every variable has its type, and the table a primary key.  A reader of
\* Redis never sees a key outside the formats of the code.
TypeOK ==
    /\ table \subseteq Row /\ PrimaryKey(table)
    /\ cache = [k \in Keys |-> cache[k]]
    /\ \A e \in late : e = <<e[1], e[2]>> /\ e[1] \in Keys
    /\ unfinished \subseteq Commands
    /\ rlock \in [Instances -> SUBSET Procs]
    /\ wlock \in [Instances -> SUBSET Procs]
    /\ pc \in [Procs -> PCs]
    /\ inst \in [Procs -> Instances \cup {NoCall}]
    /\ arg \in [Procs -> Queries \cup Commands \cup {NoCall}]
    /\ res = [p \in Procs |-> res[p]]
    /\ attempt \in [Procs -> 0 .. MaxAttempts - 1]
    /\ stage \in [Procs -> 0 .. LastStage + 1]

\* The topology in which the mutex protects the cache: queries that fill the
\* cache are called on the very instance that commands are called on.
FillersAreWriters == \A x \in ReadInst \cap Cached, y \in WriteInst : x = y

Stale(k) == cache[k] # {} /\ ~(cache[k] \subseteq Current(table, k))

\* No answer in Redis is out of date, at any instant: not while a command
\* runs, not after one that failed half-way, not after a crash.  Entries of
\* ids that invalidateAfterWrite skips are left out.  Holds when fillers are
\* writers, commands name their rows, no SET runs and no COMMIT lands after
\* its client gave up; also when a committed transaction is run again.
Coherent == \A k \in Keys \ LongKeys : ~Stale(k)

\* The mutex of an instance: a call that is past its Lock or RLock has it,
\* a command shares it with nobody.
LocksHeld ==
    \A p \in Procs :
        /\ pc[p] \in ReadPCs => p \in rlock[inst[p]]
        /\ pc[p] \in WritePCs \cup {"drain"} => wlock[inst[p]] = {p}
        /\ pc[p] \in WritePCs => rlock[inst[p]] = {}

\* A call is where its kind of call can be.
CallsTyped ==
    \A p \in Procs :
        /\ pc[p] \in ReadPCs \cup {"rlock"} =>
              inst[p] \in ReadInst /\ arg[p] \in Queries
        /\ pc[p] \in WritePCs \cup {"lock", "drain"} =>
              inst[p] \in WriteInst /\ arg[p] \in Commands
        /\ pc[p] \in {"ret", "fail"} =>
              inst[p] \in ReadInst \cup WriteInst
        /\ pc[p] = "set" => Cacheable(p)
        /\ pc[p] = "inval" => stage[p] <= LastStage
        /\ pc[p] = "commit" /\ CacheEnabled(p) => stage[p] = LastStage + 1

\* The inductive invariant of the mutex, whatever the topology: nobody reads
\* or fills beside a command of the same instance, at no stage of the call.
MutexInv == TypeOK /\ LocksHeld /\ CallsTyped

\* What the mutex buys: the answer a query is about to store is current, and
\* what a command has deleted stays deleted until it commits.
FillsAreCurrent ==
    \A p \in Procs : pc[p] = "set" => res[p] = Answer(table, arg[p])
DeletedStaysDeleted ==
    \A p \in Procs :
        OpenWrite(p) /\ CacheEnabled(p) =>
            \A k \in DeletedBefore(arg[p], stage[p]) : cache[k] = {}
NothingLate == late = {} /\ unfinished = {}
CacheHasFillers == (\E k \in Keys : cache[k] # {}) => ReadInst \cap Cached # {}

\* The inductive invariant behind Coherent.
CoherenceInv ==
    /\ MutexInv
    /\ FillsAreCurrent /\ DeletedStaysDeleted
    /\ NothingLate /\ CacheHasFillers /\ Coherent

\* What a caller can tell of where its call is.
Phase(here) ==
    IF here = "idle" THEN "idle"
    ELSE IF here \in {"set", "ret"} THEN "done"
    ELSE IF here = "fail" THEN "failed"
    ELSE "busy"

\* The repository with its cache, its mutex, its retries and its crashes
\* answers like one that has none of them: a hit, too, is the answer of the
\* table at an instant of the call.  Holds where Coherent does, when callers
\* that share a key ask the same, no id is too long and no error of a lost
\* connection is taken for a rejection.
Repository == INSTANCE AtomicRepository WITH pc <- [p \in Procs |-> Phase(pc[p])]
RepositoryIsAtomic == Repository!Spec

\* The keys that a command deletes or ought to.
KeysOf(c) ==
    DeletedBefore(c, LastStage + 1) \cup IdKinds \X (LongIds \cup c.rows)

\* The step fills the entry with a snapshot that a commit has overtaken; or
\* it is a SET that runs late; or a command commits and another instance has
\* filled the entry again since the command deleted it, or its own instance
\* has no cache, or the entry is one of an id that is too long or of a row
\* that the command changed without naming it; or a COMMIT lands that its
\* client has given up on, and whose mutex it has released, so that its own
\* instance, too, may have filled again an entry that it deleted.
WayToGoStale(k) ==
    \/ \E p \in Procs :
          /\ pc[p] = "set" /\ arg[p].key = k
          /\ res[p] # Answer(table, arg[p])
    \/ \E e \in late \ late' : e[1] = k
    \/ \E p \in Procs :
          /\ pc[p] = "commit" /\ pc'[p] # "commit"
          /\ \/ k \in DeletedBefore(arg[p], stage[p])
             \/ ~CacheEnabled(p)
             \/ k \in IdKinds \X (LongIds \cup (arg[p].rows \ arg[p].ids))
    \/ \E c \in unfinished \ unfinished' : k \in KeysOf(c)

\* However queries and commands are spread over instances, with the cache or
\* without, an entry goes stale in those ways only.  No crash, retry, rollback
\* or failed invalidation does it, and no other command commits without having
\* deleted every entry it outdates; not even one that is run again.
StaleOnlyByRace ==
    [][\A k \in Keys : ~Stale(k) /\ Stale(k)' => WayToGoStale(k)]_vars

\* Every call returns: no mutex is lost, no writer starves readers or readers
\* a writer, no retry loop runs for ever.
CallsReturn == \A p \in Procs : pc[p] # "idle" ~> pc[p] = "idle"

\* Whatever the races left behind, once commands have ceased the TTL heals
\* the cache for good.
EventuallyCoherent ==
    <>[](\A p \in Procs : pc[p] \notin WritePCs)
        => <>[]Coherent

-----------------------------------------------------------------------------
(* What a comment of the repository says, checked against the code above.  *)

\* interfaces.go:99: "List retorna a coleção filtrada e paginada conforme
\* opts", and opts include WithOrder: what List is about to return is what
\* its own options select.
ListFollowsOpts ==
    \A p \in Procs :
        pc[p] = "ret" /\ arg[p] \in Queries /\ arg[p].key[1] = "list"
            => res[p] = Answer(table, arg[p])
=============================================================================
