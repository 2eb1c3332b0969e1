-------------------------- MODULE CacheAsideProofs --------------------------
(***************************************************************************)
(* The mutex of an instance, the coherence of the cache it protects, and   *)
(* why callers need not know of either, for any number of goroutines,      *)
(* instances, rows, queries and commands.                                  *)
(***************************************************************************)
EXTENDS CacheAside, QueryCacheProofs

USE DEF ReadPCs, WritePCs, PCs, Goto, callVars, lockVars, txVars, backlog, vars, LastStage

\* The mutex discipline holds in the initial state.
LEMMA InitMutex == Init => MutexInv
BY BoundsAssumption
   DEF Init, MutexInv, TypeOK, LocksHeld, CallsTyped, PrimaryKey

\* A new call holds no mutex yet and has a typed argument.
LEMMA CallKeepsMutex ==
    ASSUME MutexInv, NEW p \in Procs, CallRead(p) \/ CallWrite(p)
    PROVE  MutexInv'
<1>1. PICK x \in ReadInst \cup WriteInst, a \in Queries \cup Commands :
         inst' = [inst EXCEPT ![p] = x] /\ arg' = [arg EXCEPT ![p] = a]
  BY DEF CallRead, CallWrite
<1>2. TypeOK'
  BY <1>1, InstancesAssumption DEF CallRead, CallWrite, MutexInv, TypeOK
<1>3. LocksHeld'
  BY <1>1 DEF CallRead, CallWrite, MutexInv, TypeOK, LocksHeld
<1>4. CallsTyped'
  BY DEF CallRead, CallWrite, MutexInv, TypeOK, CallsTyped, Cacheable, CacheEnabled
<1>5. QED
  BY <1>2, <1>3, <1>4 DEF MutexInv

\* Readers enter when no writer holds or awaits the mutex; the writer that
\* announced itself enters when the readers have left.
LEMMA LockKeepsMutex ==
    ASSUME MutexInv, NEW p \in Procs, RLock(p) \/ Announce(p) \/ Drain(p)
    PROVE  MutexInv'
<1>1. inst[p] \in Instances
  BY InstancesAssumption
     DEF MutexInv, TypeOK, CallsTyped, RLock, Announce, Drain
<1>2. TypeOK'
  BY <1>1 DEF MutexInv, TypeOK, RLock, Announce, Drain
<1>3. LocksHeld'
  <2>1. CASE RLock(p)
    BY <2>1, <1>1 DEF MutexInv, TypeOK, LocksHeld, RLock
  <2>2. CASE Announce(p)
    BY <2>2, <1>1 DEF MutexInv, TypeOK, LocksHeld, Announce
  <2>3. CASE Drain(p)
    BY <2>3, <1>1 DEF MutexInv, TypeOK, LocksHeld, Drain
  <2>4. QED
    BY <2>1, <2>2, <2>3
<1>4. CallsTyped'
  BY DEF MutexInv, TypeOK, CallsTyped, Cacheable, CacheEnabled, RLock, Announce, Drain
<1>5. QED
  BY <1>2, <1>3, <1>4 DEF MutexInv

\* A query keeps the mutex from its RLock to its return.
LEMMA QueryKeepsMutex ==
    ASSUME MutexInv, NEW p \in Procs, ReadStep(p)
    PROVE  MutexInv'
<1>1. arg[p] \in Queries
  BY DEF MutexInv, CallsTyped, ReadStep, Hit, Miss, ReadSnapshot, Fill
<1>2. arg[p].key \in Keys
  BY <1>1, QueriesAreQueries DEF Query
<1>3. TypeOK'
  <2>1. CASE Hit(p)
    BY <2>1 DEF MutexInv, TypeOK, Hit
  <2>2. CASE Miss(p)
    BY <2>2 DEF MutexInv, TypeOK, Miss
  <2>3. CASE ReadSnapshot(p)
    BY <2>3 DEF MutexInv, TypeOK, ReadSnapshot
  <2>4. CASE Fill(p)
    BY <2>4, <1>2 DEF MutexInv, TypeOK, Fill
  <2>5. QED
    BY <2>1, <2>2, <2>3, <2>4 DEF ReadStep
<1>4. LocksHeld'
  <2>1. /\ UNCHANGED <<rlock, wlock, inst>> /\ pc[p] \in ReadPCs
        /\ \E here \in {"query", "set", "ret"} : pc' = [pc EXCEPT ![p] = here]
    BY DEF ReadStep, Hit, Miss, ReadSnapshot, Fill
  <2>2. QED
    BY <2>1 DEF MutexInv, TypeOK, LocksHeld
<1>5. CallsTyped'
  BY DEF MutexInv, TypeOK, CallsTyped, Cacheable, CacheEnabled,
         ReadStep, Hit, Miss, ReadSnapshot, Fill
<1>6. QED
  BY <1>3, <1>4, <1>5 DEF MutexInv

\* Another attempt is one of the attempts there are.
LEMMA RetryIsBounded ==
    ASSUME MutexInv, NEW p \in Procs, Retry(p)
    PROVE  /\ attempt' \in [Procs -> 0 .. MaxAttempts - 1]
           /\ stage' \in [Procs -> 0 .. LastStage + 1]
           /\ pc' \in [Procs -> PCs]
<1>1. attempt' \in [Procs -> 0 .. MaxAttempts - 1]
  BY BoundsAssumption DEF Retry, MutexInv, TypeOK
<1>2. stage' \in [Procs -> 0 .. LastStage + 1]
  BY DEF Retry, MutexInv, TypeOK
<1>3. PICK here \in {"exec", "fail"} : pc' = [pc EXCEPT ![p] = here]
  BY DEF Retry
<1>4. pc' \in [Procs -> PCs]
  BY <1>3 DEF MutexInv, TypeOK
<1>5. QED
  BY <1>1, <1>2, <1>4

\* The ways out of a COMMIT: the call has its answer, or gives up, or goes
\* round once more.
LEMMA CommitEnds ==
    ASSUME NEW p, Commit(p)
    PROVE  \/ \E here \in {"ret", "fail"} :
                 pc' = [pc EXCEPT ![p] = here] /\ UNCHANGED txVars
           \/ Misread /\ Retry(p)
BY Zenon DEF Commit, Unacknowledged

\* A failed invalidation stores nothing.
LEMMA DeletesOnly ==
    ASSUME MutexInv, NEW p, DeletesSome(p)
    PROVE  /\ cache' = [k \in Keys |-> cache'[k]]
           /\ \A k \in Keys : cache'[k] \in {cache[k], {}}
BY DEF DeletesSome, MutexInv, TypeOK

\* So does a command, through its statements, every stage of its
\* invalidation, its commit, its retries and its errors; and what it commits
\* is a table with a primary key.
LEMMA CommandKeepsMutex ==
    ASSUME MutexInv, NEW p \in Procs,
           WriteStep(p) \/ SerializationFailure(p) \/ Break(p)
    PROVE  MutexInv'
<1>1. TypeOK'
  <2>1. CASE Execute(p)
    BY <2>1 DEF MutexInv, TypeOK, Execute
  <2>2. CASE Reject(p)
    BY <2>2 DEF MutexInv, TypeOK, Reject
  <2>3. CASE Invalidate(p)
    BY <2>3 DEF MutexInv, TypeOK, CallsTyped, Invalidate
  <2>4. CASE Commit(p)
    <3>1. table' \subseteq Row /\ PrimaryKey(table')
      BY <2>4, EffectKeepsPrimaryKey DEF MutexInv, TypeOK, CallsTyped, Commit
    <3>2. PrimaryKey(table)'
      BY <3>1 DEF PrimaryKey
    <3>3. unfinished' \subseteq Commands
      BY <2>4 DEF MutexInv, TypeOK, CallsTyped, Commit
    <3>4. /\ attempt' \in [Procs -> 0 .. MaxAttempts - 1]
          /\ stage' \in [Procs -> 0 .. LastStage + 1]
          /\ pc' \in [Procs -> PCs]
      BY <2>4, CommitEnds, RetryIsBounded DEF MutexInv, TypeOK
    <3>5. QED
      BY <2>4, <3>1, <3>2, <3>3, <3>4 DEF MutexInv, TypeOK, Commit
  <2>5. CASE SerializationFailure(p)
    <3>1. /\ attempt' \in [Procs -> 0 .. MaxAttempts - 1]
          /\ stage' \in [Procs -> 0 .. LastStage + 1]
          /\ pc' \in [Procs -> PCs]
      BY <2>5, RetryIsBounded DEF SerializationFailure
    <3>2. cache' = [k \in Keys |-> cache'[k]]
      BY <2>5, DeletesOnly DEF SerializationFailure
    <3>3. QED
      BY <2>5, <3>1, <3>2 DEF MutexInv, TypeOK, SerializationFailure, PrimaryKey
  <2>6. CASE Break(p)
    <3>1. cache' = [k \in Keys |-> cache'[k]]
      BY <2>6, DeletesOnly DEF Break
    <3>2. QED
      BY <2>6, <3>1 DEF MutexInv, TypeOK, Break, PrimaryKey
  <2>7. QED
    BY <2>1, <2>2, <2>3, <2>4, <2>5, <2>6 DEF WriteStep
<1>2. LocksHeld'
  <2>1. CASE Execute(p) \/ Reject(p) \/ Invalidate(p) \/ Break(p)
    BY <2>1 DEF MutexInv, TypeOK, LocksHeld, Execute, Reject, Invalidate, Break
  <2>2. CASE Commit(p)
    BY <2>2, CommitEnds DEF MutexInv, TypeOK, LocksHeld, Commit, Retry
  <2>3. CASE SerializationFailure(p)
    BY <2>3 DEF MutexInv, TypeOK, LocksHeld, SerializationFailure, Retry
  <2>4. QED
    BY <2>1, <2>2, <2>3 DEF WriteStep
<1>3. CallsTyped'
  <2>1. CASE Execute(p) \/ Reject(p)
    BY <2>1 DEF MutexInv, TypeOK, CallsTyped, Cacheable, CacheEnabled, Execute, Reject
  <2>2. CASE Invalidate(p)
    BY <2>2 DEF MutexInv, TypeOK, CallsTyped, Cacheable, CacheEnabled, Invalidate
  <2>3. CASE Break(p)
    BY <2>3 DEF MutexInv, TypeOK, CallsTyped, Cacheable, CacheEnabled, Break
  <2>4. CASE Commit(p)
    BY <2>4, CommitEnds
       DEF MutexInv, TypeOK, CallsTyped, Cacheable, CacheEnabled, Commit, Retry
  <2>5. CASE SerializationFailure(p)
    BY <2>5 DEF MutexInv, TypeOK, CallsTyped, Cacheable, CacheEnabled,
                SerializationFailure, Retry
  <2>6. QED
    BY <2>1, <2>2, <2>3, <2>4, <2>5 DEF WriteStep
<1>4. QED
  BY <1>1, <1>2, <1>3 DEF MutexInv

\* The mutex is given back by the goroutine that holds it, or dies with all
\* the calls of its instance.
LEMMA EndKeepsMutex ==
    ASSUME MutexInv,
           \/ \E p \in Procs : Return(p)
           \/ \E x \in Instances : Crash(x)
    PROVE  MutexInv'
<1>1. CASE \E p \in Procs : Return(p)
  <2>1. PICK p \in Procs : Return(p)
    BY <1>1
  <2>2. TypeOK'
    <3>1. inst[p] \in Instances
      BY <2>1, InstancesAssumption DEF MutexInv, CallsTyped, Return
    <3>2. rlock' \in [Instances -> SUBSET Procs] /\ wlock' \in [Instances -> SUBSET Procs]
      BY <2>1, <3>1 DEF MutexInv, TypeOK, Return
    <3>3. 0 \in 0 .. MaxAttempts - 1 /\ 0 \in 0 .. LastStage + 1
      BY BoundsAssumption
    <3>4. /\ attempt' \in [Procs -> 0 .. MaxAttempts - 1]
          /\ stage' \in [Procs -> 0 .. LastStage + 1]
      BY <2>1, <3>3 DEF MutexInv, TypeOK, Return
    <3>5. QED
      BY <2>1, <3>2, <3>4 DEF MutexInv, TypeOK, Return
  <2>3. LocksHeld'
    BY <2>1 DEF MutexInv, TypeOK, LocksHeld, Return
  <2>4. CallsTyped'
    BY <2>1 DEF MutexInv, TypeOK, CallsTyped, Cacheable, CacheEnabled, Return
  <2>5. QED
    BY <2>2, <2>3, <2>4 DEF MutexInv
<1>2. CASE \E x \in Instances : Crash(x)
  <2>1. PICK x \in Instances : Crash(x)
    BY <1>2
  <2>2. TypeOK'
    BY <2>1, BoundsAssumption DEF MutexInv, TypeOK, Crash
  <2>3. LocksHeld'
    BY <2>1 DEF MutexInv, TypeOK, LocksHeld, Crash
  <2>4. CallsTyped'
    BY <2>1 DEF MutexInv, TypeOK, CallsTyped, Cacheable, CacheEnabled, Crash
  <2>5. QED
    BY <2>2, <2>3, <2>4 DEF MutexInv
<1>3. QED
  BY <1>1, <1>2

\* The servers never touch a mutex, and a COMMIT that lands late leaves a
\* table with a primary key, too.
LEMMA ServersKeepMutex ==
    ASSUME MutexInv,
           \/ \E k \in Keys : Expire(k)
           \/ \E e \in late : LateSet(e)
           \/ \E c \in unfinished : LateCommit(c)
    PROVE  MutexInv'
<1>1. TypeOK'
  <2>1. CASE (\E k \in Keys : Expire(k)) \/ \E e \in late : LateSet(e)
    BY <2>1 DEF MutexInv, TypeOK, Expire, LateSet, PrimaryKey
  <2>2. CASE \E c \in unfinished : LateCommit(c)
    <3>1. table' \subseteq Row /\ PrimaryKey(table')
      BY <2>2, EffectKeepsPrimaryKey DEF MutexInv, TypeOK, LateCommit
    <3>2. PrimaryKey(table)'
      BY <3>1 DEF PrimaryKey
    <3>3. QED
      BY <2>2, <3>1, <3>2 DEF MutexInv, TypeOK, LateCommit
  <2>3. QED
    BY <2>1, <2>2
<1>2. LocksHeld' /\ CallsTyped'
  BY DEF MutexInv, LocksHeld, CallsTyped, Cacheable, CacheEnabled, Expire, LateSet,
         LateCommit
<1>3. QED
  BY <1>1, <1>2 DEF MutexInv

\* Every step keeps the mutex discipline.
LEMMA NextMutex == MutexInv /\ [Next]_vars => MutexInv'
<1>1. ASSUME MutexInv, UNCHANGED vars PROVE MutexInv'
  BY <1>1 DEF MutexInv, TypeOK, LocksHeld, CallsTyped, Cacheable, CacheEnabled,
              PrimaryKey
<1>2. ASSUME MutexInv, Next PROVE MutexInv'
  BY <1>2, CallKeepsMutex, LockKeepsMutex, QueryKeepsMutex, CommandKeepsMutex,
     EndKeepsMutex, ServersKeepMutex DEF Next
<1>3. QED
  BY <1>1, <1>2

\* MutexInv: no goroutine reads or fills beside a command on its instance, a
\* call past its Lock or RLock holds it on every path of the retry loop, and
\* the rows keep their primary key; in every topology, with any failures.
THEOREM MutexProtects == Spec => []MutexInv
BY InitMutex, NextMutex, PTL DEF Spec

\* TypeOK: in particular a table never has two rows with one id.
THEOREM TypeCorrect == Spec => []TypeOK
<1>1. MutexInv => TypeOK
  BY DEF MutexInv
<1>2. QED
  BY <1>1, MutexProtects, PTL

-----------------------------------------------------------------------------
\* A query that is about to fill the cache does so on the one instance that
\* commands are called on, whose mutex it holds: no transaction is open.
LEMMA FillerIsAlone ==
    ASSUME FillersAreWriters, MutexInv, NEW p \in Procs, pc[p] = "set",
           NEW w \in Procs
    PROVE  pc[w] \notin WritePCs
<1>1. inst[p] \in ReadInst \cap Cached /\ p \in rlock[inst[p]]
  BY DEF MutexInv, CallsTyped, LocksHeld, Cacheable, CacheEnabled
<1>2. pc[w] \in WritePCs => inst[w] = inst[p] /\ rlock[inst[w]] = {}
  BY <1>1 DEF MutexInv, CallsTyped, LocksHeld, FillersAreWriters
<1>3. QED
  BY <1>1, <1>2

\* The cache starts empty, and so coherent.
LEMMA InitCoherent == Init => CoherenceInv
<1> SUFFICES ASSUME Init PROVE CoherenceInv
  OBVIOUS
<1>1. MutexInv
  BY InitMutex
<1>2. /\ FillsAreCurrent /\ NothingLate /\ CacheHasFillers
      /\ DeletedStaysDeleted /\ Coherent
  BY DEF Init, FillsAreCurrent, DeletedStaysDeleted, NothingLate, CacheHasFillers,
         Coherent, Stale, OpenWrite
<1>3. QED
  BY <1>1, <1>2 DEF CoherenceInv

\* A step that only removes entries, and neither commits nor brings a query
\* to its fill nor a command to its next stage, keeps the cache coherent.
LEMMA EvictionIsCoherent ==
    ASSUME CoherenceInv, MutexInv',
           UNCHANGED <<table, backlog>>,
           cache' = [k \in Keys |-> cache'[k]],
           \A k \in Keys : cache'[k] = cache[k] \/ cache'[k] = {},
           \A p \in Procs : pc'[p] = "set" =>
               pc[p] = "set" /\ res'[p] = res[p] /\ arg'[p] = arg[p],
           \A p \in Procs : OpenWrite(p)' =>
               \/ stage'[p] = 0
               \/ OpenWrite(p) /\ UNCHANGED <<arg[p], stage[p], inst[p]>>
    PROVE  CoherenceInv'
<1>1. FillsAreCurrent'
  BY DEF CoherenceInv, FillsAreCurrent
<1>2. DeletedStaysDeleted'
  <2>1. SUFFICES ASSUME NEW p \in Procs, OpenWrite(p)', CacheEnabled(p)',
                        NEW k \in DeletedBefore(arg'[p], stage'[p])
                 PROVE  cache'[k] = {}
    BY DEF DeletedStaysDeleted
  <2>2. CASE stage'[p] = 0
    BY <2>1, <2>2 DEF DeletedBefore
  <2>3. CASE OpenWrite(p) /\ UNCHANGED <<arg[p], stage[p], inst[p]>>
    <3>1. cache[k] = {}
      BY <2>1, <2>3 DEF CoherenceInv, DeletedStaysDeleted, CacheEnabled
    <3>2. k \in Keys
      BY <2>1, DeletedKeysAreKeys, <2>3 DEF CoherenceInv, MutexInv, CallsTyped, OpenWrite
    <3>3. QED
      BY <3>1, <3>2
  <2>4. QED
    BY <2>1, <2>2, <2>3
<1>3. NothingLate' /\ CacheHasFillers'
  BY DEF CoherenceInv, NothingLate, CacheHasFillers
<1>4. Coherent'
  BY DEF CoherenceInv, Coherent, Stale
<1>5. QED
  BY <1>1, <1>2, <1>3, <1>4 DEF CoherenceInv

\* A query answers from the table of the moment; nothing commits until it has
\* filled the cache, because it holds the mutex.
LEMMA SnapshotIsCoherent ==
    ASSUME CoherenceInv, MutexInv', NEW p \in Procs, ReadSnapshot(p)
    PROVE  CoherenceInv'
<1>1. FillsAreCurrent'
  BY DEF CoherenceInv, MutexInv, TypeOK, FillsAreCurrent, ReadSnapshot
<1>2. DeletedStaysDeleted'
  BY DEF CoherenceInv, MutexInv, TypeOK, DeletedStaysDeleted, OpenWrite,
         CacheEnabled, ReadSnapshot
<1>3. NothingLate' /\ CacheHasFillers' /\ Coherent'
  BY DEF CoherenceInv, NothingLate, CacheHasFillers, Coherent, Stale, ReadSnapshot
<1>4. QED
  BY <1>1, <1>2, <1>3 DEF CoherenceInv

\* The fill stores what the table says, and finds no transaction open whose
\* deletions it could undo.
LEMMA FillIsCoherent ==
    ASSUME FillersAreWriters, MaxLate = 0, CoherenceInv, MutexInv',
           NEW p \in Procs, Fill(p)
    PROVE  CoherenceInv'
<1>1. /\ pc[p] = "set" /\ Cacheable(p) /\ inst[p] \in ReadInst
      /\ res[p] = Answer(table, arg[p])
      /\ arg[p] \in Queries /\ arg[p].key \in Keys
  BY QueriesAreQueries
     DEF CoherenceInv, MutexInv, CallsTyped, FillsAreCurrent, Fill, Query
<1>2. /\ UNCHANGED backlog
      /\ \/ cache' = [cache EXCEPT ![arg[p].key] = res[p]]
         \/ UNCHANGED cache
  BY FS_EmptySet DEF Fill, CoherenceInv, NothingLate
<1>3. FillsAreCurrent'
  BY DEF CoherenceInv, MutexInv, TypeOK, FillsAreCurrent, Fill
<1>4. DeletedStaysDeleted'
  <2>1. \A w \in Procs : ~OpenWrite(w)
    BY <1>1, FillerIsAlone DEF CoherenceInv, OpenWrite
  <2>2. \A w \in Procs : ~OpenWrite(w)'
    BY <2>1 DEF OpenWrite, Fill, CoherenceInv, MutexInv, TypeOK
  <2>3. QED
    BY <2>2 DEF DeletedStaysDeleted
<1>5. NothingLate' /\ CacheHasFillers'
  BY <1>1, <1>2 DEF CoherenceInv, NothingLate, CacheHasFillers, Cacheable, CacheEnabled
<1>6. Coherent'
  <2>1. res[p] \subseteq Current(table, arg[p].key)
    BY <1>1 DEF Current, CachedUnder, Cacheable
  <2>2. \A k \in Keys :
           \/ cache'[k] = cache[k]
           \/ k = arg[p].key /\ cache'[k] = res[p]
    BY <1>2 DEF CoherenceInv, MutexInv, TypeOK
  <2>3. UNCHANGED table
    BY DEF Fill
  <2>4. QED
    BY <2>1, <2>2, <2>3 DEF CoherenceInv, Coherent, Stale
<1>7. QED
  BY <1>3, <1>4, <1>5, <1>6 DEF CoherenceInv

\* A stage adds its keys to those that are gone.
LEMMA InvalidateIsCoherent ==
    ASSUME CoherenceInv, MutexInv', NEW p \in Procs, Invalidate(p)
    PROVE  CoherenceInv'
<1>1. \A k \in Keys : cache'[k] = IF k \in Stage(arg[p], stage[p]) THEN {} ELSE cache[k]
  BY DEF Invalidate
<1>2. FillsAreCurrent' /\ NothingLate' /\ CacheHasFillers' /\ Coherent'
  BY <1>1 DEF CoherenceInv, MutexInv, TypeOK, FillsAreCurrent, NothingLate,
              CacheHasFillers, Coherent, Stale, Invalidate
<1>3. DeletedStaysDeleted'
  <2>1. SUFFICES ASSUME NEW w \in Procs, OpenWrite(w)', CacheEnabled(w)',
                        NEW k \in DeletedBefore(arg'[w], stage'[w])
                 PROVE  cache'[k] = {}
    BY DEF DeletedStaysDeleted
  <2>2. OpenWrite(w) /\ CacheEnabled(w) /\ UNCHANGED arg[w]
    BY <2>1 DEF OpenWrite, CacheEnabled, Invalidate, CoherenceInv, MutexInv, TypeOK
  <2>3. arg[w] \in Commands /\ k \in Keys
    BY <2>1, <2>2, DeletedKeysAreKeys
       DEF CoherenceInv, MutexInv, CallsTyped, OpenWrite
  <2>4. CASE w = p
    <3>1. stage[p] \in 0..LastStage /\ stage'[p] = stage[p] + 1
      BY DEF CoherenceInv, MutexInv, TypeOK, CallsTyped, Invalidate
    <3>2. k \in DeletedBefore(arg[p], stage[p]) \cup Stage(arg[p], stage[p])
      BY <2>1, <2>2, <2>4, <3>1, NextStage
    <3>3. QED
      BY <1>1, <2>2, <2>3, <2>4, <3>2 DEF CoherenceInv, DeletedStaysDeleted
  <2>5. CASE w # p
    <3>1. stage'[w] = stage[w]
      BY <2>5 DEF Invalidate, CoherenceInv, MutexInv, TypeOK
    <3>2. QED
      BY <1>1, <2>1, <2>2, <2>3, <3>1 DEF CoherenceInv, DeletedStaysDeleted
  <2>6. QED
    BY <2>4, <2>5
<1>4. QED
  BY <1>2, <1>3 DEF CoherenceInv

\* A commit outdates no entry: the ones its command could outdate were all
\* deleted, and nobody filled them again.  That the caller may not hear of it
\* and run the command again makes no difference.
LEMMA CommitIsCoherent ==
    ASSUME FillersAreWriters, CommandsNameTheirRows, MaxUnfinished = 0,
           CoherenceInv, MutexInv', NEW p \in Procs, Commit(p)
    PROVE  CoherenceInv'
<1>1. pc[p] = "commit" /\ arg[p] \in Commands /\ inst[p] \in WriteInst
  BY DEF CoherenceInv, MutexInv, CallsTyped, Commit
<1>a. table' \in Effect(table, arg[p]) /\ UNCHANGED <<cache, backlog, callVars, res>>
  BY FS_EmptySet DEF Commit, CoherenceInv, NothingLate
<1>b. /\ \A q \in Procs : q # p => pc'[q] = pc[q] /\ stage'[q] = stage[q]
      /\ pc'[p] \in {"ret", "fail", "exec"}
  BY CommitEnds DEF Retry, CoherenceInv, MutexInv, TypeOK
<1>2. FillsAreCurrent'
  <2>1. \A q \in Procs : pc[q] # "set"
    BY <1>1, FillerIsAlone DEF CoherenceInv
  <2>2. \A q \in Procs : pc'[q] # "set"
    BY <1>b, <2>1
  <2>3. QED
    BY <2>2 DEF FillsAreCurrent
<1>3. DeletedStaysDeleted'
  BY <1>a, <1>b DEF CoherenceInv, DeletedStaysDeleted, OpenWrite, CacheEnabled
<1>4. NothingLate' /\ CacheHasFillers'
  BY <1>a DEF CoherenceInv, NothingLate, CacheHasFillers
<1>5. Coherent'
  <2>1. SUFFICES ASSUME NEW k \in Keys \ LongKeys, cache[k] # {}
                 PROVE  cache[k] \subseteq Current(table', k)
    BY <1>a DEF Coherent, Stale
  <2>2. CacheEnabled(p)
    BY <1>1, <2>1 DEF CoherenceInv, CacheHasFillers, FillersAreWriters, CacheEnabled
  <2>3. k \notin DeletedBefore(arg[p], LastStage + 1)
    BY <1>1, <2>1, <2>2
       DEF CoherenceInv, MutexInv, CallsTyped, DeletedStaysDeleted, OpenWrite
  <2>4. \A q \in CachedUnder(k) : Answer(table', q) = Answer(table, q)
    BY <1>1, <1>a, <2>1, <2>3, InvalidationCovers
       DEF CachedUnder, CommandsNameTheirRows, LongKeys, CoherenceInv, MutexInv,
           TypeOK
  <2>5. Current(table', k) = Current(table, k)
    BY <2>4 DEF Current
  <2>6. QED
    BY <2>1, <2>5 DEF CoherenceInv, Coherent, Stale
<1>6. QED
  BY <1>2, <1>3, <1>4, <1>5 DEF CoherenceInv

\* Every step keeps the cache coherent.
LEMMA NextCoherent ==
    ASSUME FillersAreWriters, CommandsNameTheirRows, MaxLate = 0, MaxUnfinished = 0
    PROVE  CoherenceInv /\ [Next]_vars => CoherenceInv'
<1> SUFFICES ASSUME CoherenceInv, [Next]_vars PROVE CoherenceInv'
  OBVIOUS
<1>1. MutexInv'
  BY NextMutex DEF CoherenceInv
<1> USE <1>1
<1>2. CASE UNCHANGED vars
  BY <1>2, EvictionIsCoherent DEF CoherenceInv, MutexInv, TypeOK, OpenWrite
<1>3. CASE \E p \in Procs : CallRead(p) \/ CallWrite(p)
  BY <1>3, EvictionIsCoherent
     DEF CoherenceInv, MutexInv, TypeOK, OpenWrite, CallRead, CallWrite
<1>4. CASE \E p \in Procs : RLock(p) \/ Announce(p) \/ Drain(p)
  BY <1>4, EvictionIsCoherent
     DEF CoherenceInv, MutexInv, TypeOK, OpenWrite, RLock, Announce, Drain
<1>5. CASE \E p \in Procs : Hit(p) \/ Miss(p)
  BY <1>5, EvictionIsCoherent
     DEF CoherenceInv, MutexInv, TypeOK, OpenWrite, Hit, Miss
<1>6. CASE \E p \in Procs : Execute(p) \/ Reject(p)
  BY <1>6, EvictionIsCoherent
     DEF CoherenceInv, MutexInv, TypeOK, OpenWrite, Execute, Reject
<1>7. CASE \E p \in Procs : SerializationFailure(p) \/ Break(p)
  <2>1. PICK p \in Procs : SerializationFailure(p) \/ Break(p)
    BY <1>7
  <2>2. /\ cache' = [k \in Keys |-> cache'[k]]
        /\ \A k \in Keys : cache'[k] = cache[k] \/ cache'[k] = {}
    BY <2>1, DeletesOnly DEF CoherenceInv, SerializationFailure, Break
  <2>3. /\ UNCHANGED <<table, backlog, inst, arg, res>>
        /\ \A q \in Procs : q # p => pc'[q] = pc[q] /\ stage'[q] = stage[q]
        /\ pc'[p] \in {"fail", "exec"}
    BY <2>1 DEF SerializationFailure, Break, Retry, CoherenceInv, MutexInv, TypeOK
  <2>4. QED
    BY <2>2, <2>3, EvictionIsCoherent DEF CoherenceInv, OpenWrite
<1>8. CASE \E p \in Procs : Return(p)
  BY <1>8, EvictionIsCoherent DEF CoherenceInv, MutexInv, TypeOK, OpenWrite, Return
<1>9. CASE \E x \in Instances : Crash(x)
  BY <1>9, EvictionIsCoherent DEF CoherenceInv, MutexInv, TypeOK, OpenWrite, Crash
<1>10. CASE \E k \in Keys : Expire(k)
  BY <1>10, EvictionIsCoherent DEF CoherenceInv, MutexInv, TypeOK, OpenWrite, Expire
<1>11. CASE (\E e \in late : LateSet(e)) \/ \E c \in unfinished : LateCommit(c)
  BY <1>11 DEF CoherenceInv, NothingLate
<1>12. QED
  BY <1>2, <1>3, <1>4, <1>5, <1>6, <1>7, <1>8, <1>9, <1>10, <1>11,
     SnapshotIsCoherent, FillIsCoherent, InvalidateIsCoherent, CommitIsCoherent
     DEF Next, ReadStep, WriteStep

\* CoherenceInv: what is stored is current, what is deleted stays deleted, and
\* Redis holds no answer that the table does not give; for any number of
\* goroutines, rows, queries and commands, through retries, failed
\* invalidations, rollbacks, lost answers and crashes; if the queries that fill
\* the cache and the commands share one instance, commands name the rows they
\* write, and neither Redis runs a SET nor PostgreSQL finishes a COMMIT that its
\* client gave up on.
THEOREM InvariantHolds ==
    ASSUME FillersAreWriters, CommandsNameTheirRows, MaxLate = 0, MaxUnfinished = 0
    PROVE  Spec => []CoherenceInv
BY InitCoherent, NextCoherent, PTL DEF Spec

\* Coherent: the part of it that a caller sees.
THEOREM CacheIsCoherent ==
    ASSUME FillersAreWriters, CommandsNameTheirRows, MaxLate = 0, MaxUnfinished = 0
    PROVE  Spec => []Coherent
<1>1. CoherenceInv => Coherent
  BY DEF CoherenceInv
<1>2. QED
  BY <1>1, InvariantHolds, PTL

-----------------------------------------------------------------------------
\* Where nothing commits, an entry goes stale only by being stored.
LEMMA StaleWhenStored ==
    ASSUME UNCHANGED table, NEW k \in Keys, cache'[k] \in {cache[k], {}},
           ~Stale(k)
    PROVE  ~Stale(k)'
BY DEF Stale

\* A query stores an answer that is stale only if the table has moved on.
LEMMA FillWay ==
    ASSUME MutexInv, NEW p \in Procs, Fill(p), NEW k \in Keys, ~Stale(k), Stale(k)'
    PROVE  WayToGoStale(k)
<1>1. pc[p] = "set" /\ Cacheable(p) /\ arg[p] \in Queries /\ UNCHANGED table
  BY DEF MutexInv, CallsTyped, Fill
<1>2. cache'[k] # cache[k]
  BY <1>1, StaleWhenStored
<1>3. k = arg[p].key /\ cache'[k] = res[p]
  BY <1>2 DEF Fill, MutexInv, TypeOK
<1>4. res[p] # Answer(table, arg[p])
  BY <1>1, <1>3 DEF Stale, Current, CachedUnder, Cacheable
<1>5. QED
  BY <1>1, <1>3, <1>4 DEF WayToGoStale

\* A command that has deleted its entries outdates only the ones that were
\* filled again, and those its invalidation does not know about.
LEMMA CommitWay ==
    ASSUME MutexInv, NEW p \in Procs, Commit(p), NEW k \in Keys, ~Stale(k), Stale(k)'
    PROVE  WayToGoStale(k)
<1>1. /\ pc[p] = "commit" /\ pc'[p] # "commit" /\ arg[p] \in Commands
      /\ UNCHANGED cache /\ table' \in Effect(table, arg[p])
  <2>1. pc[p] = "commit" /\ arg[p] \in Commands /\ UNCHANGED cache
    BY DEF MutexInv, CallsTyped, Commit
  <2>2. pc'[p] # "commit"
    BY CommitEnds DEF Retry, MutexInv, TypeOK
  <2>3. table' # table
    BY <2>1 DEF Stale
  <2>4. QED
    BY <2>1, <2>2, <2>3 DEF Commit
<1>2. SUFFICES ASSUME CacheEnabled(p), k \notin DeletedBefore(arg[p], stage[p]),
                      k \notin IdKinds \X (LongIds \cup (arg[p].rows \ arg[p].ids))
               PROVE  FALSE
  BY <1>1 DEF WayToGoStale
<1>3. stage[p] = LastStage + 1
  BY <1>1, <1>2 DEF MutexInv, CallsTyped
<1>4. \A q \in CachedUnder(k) : Answer(table', q) = Answer(table, q)
  BY <1>1, <1>2, <1>3, InvalidationCovers
     DEF CachedUnder, MutexInv, TypeOK
<1>5. Current(table', k) = Current(table, k)
  BY <1>4 DEF Current
<1>6. QED
  BY <1>1, <1>5 DEF Stale

\* A COMMIT that lands late outdates entries of its command.
LEMMA LateCommitWay ==
    ASSUME MutexInv, NEW c \in unfinished, LateCommit(c),
           NEW k \in Keys, ~Stale(k), Stale(k)'
    PROVE  WayToGoStale(k)
<1>1. UNCHANGED cache /\ c \in unfinished \ unfinished'
  BY DEF LateCommit
<1>2. table' \in Effect(table, c)
  BY <1>1 DEF LateCommit, Stale
<1>3. k \in KeysOf(c)
  <2>1. SUFFICES ASSUME k \notin KeysOf(c) PROVE FALSE
    OBVIOUS
  <2>2. /\ k \notin DeletedBefore(c, LastStage + 1)
        /\ k \notin IdKinds \X (LongIds \cup (c.rows \ c.ids))
    BY <2>1 DEF KeysOf
  <2>3. \A q \in CachedUnder(k) : Answer(table', q) = Answer(table, q)
    BY <1>2, <2>2, InvalidationCovers DEF CachedUnder, MutexInv, TypeOK
  <2>4. Current(table', k) = Current(table, k)
    BY <2>3 DEF Current
  <2>5. QED
    BY <1>1, <2>4 DEF Stale
<1>4. QED
  BY <1>1, <1>3 DEF WayToGoStale

\* StaleOnlyByRace: in every topology, with or without the cache, and through
\* every failure, those are the only ways.
THEOREM OnlyRacesAreStale == Spec => StaleOnlyByRace
<1>1. ASSUME MutexInv, [Next]_vars
      PROVE  \A k \in Keys : ~Stale(k) /\ Stale(k)' => WayToGoStale(k)
  <2>1. SUFFICES ASSUME NEW k \in Keys, ~Stale(k), Stale(k)'
                 PROVE  WayToGoStale(k)
    OBVIOUS
  <2>2. CASE UNCHANGED <<table, cache>>
    BY <2>1, <2>2, StaleWhenStored
  <2>3. CASE \E p \in Procs : Invalidate(p) \/ SerializationFailure(p) \/ Break(p)
    <3>1. UNCHANGED table /\ cache'[k] \in {cache[k], {}}
      BY <1>1, <2>3, DeletesOnly DEF Invalidate, SerializationFailure, Break
    <3>2. QED
      BY <2>1, <3>1, StaleWhenStored
  <2>4. CASE \E l \in Keys : Expire(l)
    <3>1. UNCHANGED table /\ cache'[k] \in {cache[k], {}}
      BY <2>4 DEF Expire, MutexInv, TypeOK
    <3>2. QED
      BY <2>1, <3>1, StaleWhenStored
  <2>5. CASE \E e \in late : LateSet(e)
    <3>1. PICK e \in late : LateSet(e)
      BY <2>5
    <3>2. UNCHANGED table /\ (k # e[1] => cache'[k] = cache[k]) /\ e \in late \ late'
      BY <3>1 DEF LateSet, MutexInv, TypeOK
    <3>3. k = e[1]
      BY <2>1, <3>2, StaleWhenStored
    <3>4. QED
      BY <3>2, <3>3 DEF WayToGoStale
  <2>6. QED
    BY <1>1, <2>1, <2>2, <2>3, <2>4, <2>5, FillWay, CommitWay, LateCommitWay
       DEF Next, ReadStep, WriteStep, CallRead, CallWrite, RLock, Announce, Drain,
           Hit, Miss, ReadSnapshot, Execute, Reject, Return, Crash
<1>2. QED
  BY <1>1, MutexProtects, PTL DEF Spec, StaleOnlyByRace, WayToGoStale

-----------------------------------------------------------------------------
(* The repository is atomic: every step of CacheAside is a step of         *)
(* AtomicRepository, or none of its callers can see it.                    *)

\* The instance speaks of the same table, the same queries and commands.
LEMMA SameCardinality == \A S : Repository!Cardinality(S) = Cardinality(S)
<1>1. \A S : Repository!IsFiniteSet(S) <=> IsFiniteSet(S)
  BY DEF Repository!IsFiniteSet, IsFiniteSet
<1>2. QED
  BY <1>1 DEF Repository!Cardinality, Cardinality

LEMMA SameAnswers == \A t, q : Repository!Answer(t, q) = Answer(t, q)
<1>1. \A rows, order : Repository!FirstPage(rows, order) = FirstPage(rows, order)
  BY DEF Repository!FirstPage, FirstPage, Repository!Cardinality, Cardinality,
         Repository!IsFiniteSet, IsFiniteSet
<1>2. QED
  BY <1>1, SameCardinality
     DEF Repository!Answer, Answer, Repository!Live, Live,
         Repository!Matching, Matching, Repository!Exists, Exists,
         Repository!Count, Count, Repository!Find, Find,
         Repository!FindBy, FindBy, Repository!List, List,
         Repository!OnlyListDeleted, OnlyListDeleted,
         Repository!NoListDeleted, NoListDeleted, Repository!Search, Search

LEMMA SameEffects == \A t, c : Repository!Effect(t, c) = Effect(t, c)
BY DEF Repository!Effect, Effect, Repository!Live, Live, Repository!Fresh, Fresh,
       Repository!Insert, Insert, Repository!Update, Update,
       Repository!Replace, Replace, Repository!Upsert, Upsert, Repository!Delete, Delete,
       Repository!HardDelete, HardDelete, Repository!SoftDelete, SoftDelete,
       Repository!Restore, Restore, Repository!PatchId, PatchId

\* A query has at most one answer.
LEMMA OneAnswer ==
    ASSUME NEW t, t \subseteq Row, PrimaryKey(t), NEW q \in Queries,
           NEW a \in Answer(t, q), NEW b \in Answer(t, q)
    PROVE  a = b
<1>1. PICK kind \in IdKinds \cup FilterKinds : \E on : q.key = <<kind, on>>
  BY QueriesAreQueries DEF Query, Keys
<1>2. PICK on : q.key = <<kind, on>>
  BY <1>1
<1>3. Live(t) \subseteq t /\ \A f : Matching(t, f) \subseteq t
  BY DEF Live, Matching
<1>4. CASE kind \in {"find", "search"}
  <2>1. Answer(t, q) = Find(t, on) \/ Answer(t, q) = Search(t, on)
    BY <1>2, <1>4 DEF Answer
  <2>2. Answer(t, q) \subseteq {r \in t : r.id = on}
    BY <2>1, <1>3 DEF Find, Search
  <2>3. QED
    BY <2>2 DEF PrimaryKey
<1>5. CASE kind = "findby"
  <2>1. Answer(t, q) = FindBy(t, q.filter)
    BY <1>2, <1>5 DEF Answer
  <2>2. a \in t /\ b \in t /\ a.id <= b.id /\ b.id <= a.id
    BY <2>1, <1>3 DEF FindBy
  <2>3. a.id \in Nat /\ b.id \in Nat
    BY <2>2, IdsAreNumbers DEF Row
  <2>4. a.id = b.id
    BY <2>2, <2>3
  <2>5. QED
    BY <2>2, <2>4 DEF PrimaryKey
<1>6. CASE kind \in {"exists", "count", "list", "listSoft", "nolistSoft"}
  <2>1. \/ Answer(t, q) = Exists(t, on)
        \/ Answer(t, q) = Count(t, q.filter)
        \/ Answer(t, q) = List(t, q.filter, q.order)
        \/ Answer(t, q) = OnlyListDeleted(t, q.order)
        \/ Answer(t, q) = NoListDeleted(t, q.order)
    BY <1>2, <1>6 DEF Answer
  <2>2. \E x : Answer(t, q) = {x}
    BY <2>1 DEF Exists, Count, List, OnlyListDeleted, NoListDeleted
  <2>3. QED
    BY <2>2
<1>7. QED
  BY <1>4, <1>5, <1>6 DEF IdKinds, FilterKinds

\* What a hit returns is the answer of the table of the moment.
LEMMA HitsAreRight ==
    ASSUME CoherenceInv, OneQueryPerKey, LongIds = {}, NEW q \in Queries, ~q.direct,
           cache[q.key] # {}
    PROVE  cache[q.key] = Answer(table, q)
<1>1. q.key \in Keys \ LongKeys /\ table \subseteq Row /\ PrimaryKey(table)
  BY QueriesAreQueries DEF Query, LongKeys, CoherenceInv, MutexInv, TypeOK
<1>2. cache[q.key] \subseteq Current(table, q.key)
  BY <1>1 DEF CoherenceInv, Coherent, Stale
<1>3. ASSUME NEW r \in CachedUnder(q.key) PROVE r = q
  BY <1>3 DEF CachedUnder, OneQueryPerKey
<1>4. cache[q.key] \subseteq Answer(table, q)
  BY <1>2, <1>3 DEF Current
<1>5. QED
  BY <1>1, <1>4, OneAnswer

\* How a step of one call looks from outside.
LEMMA PhaseMoves ==
    ASSUME pc \in [Procs -> PCs], NEW p \in Procs, NEW here, pc' = [pc EXCEPT ![p] = here]
    PROVE  /\ [q \in Procs |-> Phase(pc'[q])]
                = [[q \in Procs |-> Phase(pc[q])] EXCEPT ![p] = Phase(here)]
           /\ [q \in Procs |-> Phase(pc[q])][p] = Phase(pc[p])
BY Zenon

\* A call begins.
LEMMA CallLooksAtomic ==
    ASSUME MutexInv, NEW p \in Procs, CallRead(p) \/ CallWrite(p)
    PROVE  Repository!Call(p)
<1>1. PICK a \in Queries \cup Commands : arg' = [arg EXCEPT ![p] = a]
  BY DEF CallRead, CallWrite
<1>2. PICK here \in {"rlock", "lock"} : pc' = [pc EXCEPT ![p] = here]
  BY DEF CallRead, CallWrite
<1>3. pc[p] = "idle" /\ UNCHANGED <<table, res>> /\ pc \in [Procs -> PCs]
  BY DEF CallRead, CallWrite, MutexInv, TypeOK
<1>4. Phase(pc[p]) = "idle" /\ Phase(here) = "busy"
  BY <1>2, <1>3 DEF Phase
<1>5. Repository!CallWith(p, a)
  BY <1>1, <1>2, <1>3, <1>4, PhaseMoves DEF Repository!CallWith
<1>6. QED
  BY <1>5 DEF Repository!Call

\* A query finds its answer, in Redis or in the table.
LEMMA AnswerLooksAtomic ==
    ASSUME CoherenceInv, OneQueryPerKey, LongIds = {},
           NEW p \in Procs, Hit(p) \/ ReadSnapshot(p)
    PROVE  Repository!Read(p)
<1>1. pc[p] \in {"get", "query"} /\ UNCHANGED <<table, arg>> /\ pc \in [Procs -> PCs]
  BY DEF Hit, ReadSnapshot, CoherenceInv, MutexInv, TypeOK
<1>2. arg[p] \in Queries
  BY <1>1 DEF CoherenceInv, MutexInv, CallsTyped
<1>3. res' = [res EXCEPT ![p] = Answer(table, arg[p])]
  <2>1. CASE Hit(p)
    BY <1>2, <2>1, HitsAreRight DEF Hit, Cacheable
  <2>2. CASE ReadSnapshot(p)
    BY <2>2 DEF ReadSnapshot
  <2>3. QED
    BY <2>1, <2>2
<1>4. PICK here \in {"set", "ret"} : pc' = [pc EXCEPT ![p] = here]
  BY DEF Hit, ReadSnapshot
<1>5. Phase(pc[p]) = "busy" /\ Phase(here) = "done"
  BY <1>1, <1>4 DEF Phase
<1>6. QED
  BY <1>1, <1>2, <1>3, <1>4, <1>5, PhaseMoves, SameAnswers DEF Repository!Read

\* A command commits.
LEMMA CommitLooksAtomic ==
    ASSUME CoherenceInv, MaxUnfinished = 0, ~Misread, NEW p \in Procs, Commit(p)
    PROVE  Repository!Write(p)
<1>1. /\ pc[p] = "commit" /\ UNCHANGED <<arg, res>> /\ pc \in [Procs -> PCs]
      /\ table' \in Effect(table, arg[p])
  BY FS_EmptySet DEF Commit, CoherenceInv, NothingLate, MutexInv, TypeOK
<1>2. arg[p] \in Commands
  BY <1>1 DEF CoherenceInv, MutexInv, CallsTyped
<1>3. PICK here \in {"ret", "fail"} : pc' = [pc EXCEPT ![p] = here]
  BY CommitEnds
<1>4. Phase(pc[p]) = "busy" /\ Phase(here) \in {"done", "failed"}
  BY <1>1, <1>3 DEF Phase
<1>5. QED
  BY <1>1, <1>2, <1>3, <1>4, PhaseMoves, SameEffects DEF Repository!Write

\* A call is about to return an error.
LEMMA ErrorLooksAtomic ==
    ASSUME MutexInv, NEW p \in Procs, pc[p] \in {"query", "exec", "inval", "commit"},
           UNCHANGED <<table, arg, res>>, pc' = [pc EXCEPT ![p] = "fail"]
    PROVE  Repository!Fail(p)
<1>1. Phase(pc[p]) = "busy" /\ Phase("fail") = "failed" /\ pc \in [Procs -> PCs]
  BY DEF Phase, MutexInv, TypeOK
<1>2. QED
  BY <1>1, PhaseMoves DEF Repository!Fail

\* Calls end, one by its return or all of a program by its death.
LEMMA EndLooksAtomic ==
    ASSUME MutexInv, NEW ps \in SUBSET Procs, UNCHANGED table,
           pc' = [p \in Procs |-> IF p \in ps THEN "idle" ELSE pc[p]],
           arg' = [p \in Procs |-> IF p \in ps THEN NoCall ELSE arg[p]],
           res' = [p \in Procs |-> IF p \in ps THEN {} ELSE res[p]]
    PROVE  Repository!End(ps)
<1>1. [p \in Procs |-> Phase(pc'[p])]
        = [p \in Procs |-> IF p \in ps THEN "idle" ELSE [q \in Procs |-> Phase(pc[q])][p]]
  BY DEF Phase
<1>2. QED
  BY <1>1 DEF Repository!End

LEMMA ReturnLooksAtomic ==
    ASSUME MutexInv, NEW p \in Procs, Return(p)
    PROVE  Repository!Return(p)
<1>1. /\ UNCHANGED table
      /\ pc' = [q \in Procs |-> IF q \in {p} THEN "idle" ELSE pc[q]]
      /\ arg' = [q \in Procs |-> IF q \in {p} THEN NoCall ELSE arg[q]]
      /\ res' = [q \in Procs |-> IF q \in {p} THEN {} ELSE res[q]]
  BY DEF Return, MutexInv, TypeOK
<1>2. Repository!End({p})
  BY <1>1, EndLooksAtomic
<1>3. [q \in Procs |-> Phase(pc[q])][p] \in {"done", "failed"}
  BY DEF Return, Phase
<1>4. QED
  BY <1>2, <1>3 DEF Repository!Return

LEMMA CrashLooksAtomic ==
    ASSUME MutexInv, NEW x \in Instances, Crash(x)
    PROVE  Repository!Crash
<1> DEFINE ps == {p \in Procs : inst[p] = x}
<1>1. Repository!End(ps)
  BY EndLooksAtomic DEF Crash
<1>2. QED
  BY <1>1 DEF Repository!Crash

\* The steps that nobody outside sees: those of the mutex, of Redis, and the
\* ones that lead to another attempt.
LEMMA UnseenSteps ==
    ASSUME MutexInv, UNCHANGED <<table, arg, res>>,
           \/ UNCHANGED pc
           \/ \E p \in Procs, here \in PCs :
                 pc' = [pc EXCEPT ![p] = here] /\ Phase(here) = Phase(pc[p])
    PROVE  UNCHANGED Repository!vars
<1>1. \A q \in Procs : Phase(pc'[q]) = Phase(pc[q])
  BY DEF MutexInv, TypeOK
<1>2. QED
  BY <1>1 DEF Repository!vars

\* Every step is a step of the atomic repository, or unseen.
LEMMA StepsLookAtomic ==
    ASSUME CoherenceInv, MaxUnfinished = 0, ~Misread, OneQueryPerKey, LongIds = {},
           [Next]_vars
    PROVE  [Repository!Next]_(Repository!vars)
<1>1. MutexInv
  BY DEF CoherenceInv
<1>2. CASE UNCHANGED vars
  BY <1>1, <1>2, UnseenSteps
<1>3. ASSUME NEW p \in Procs, CallRead(p) \/ CallWrite(p) PROVE Repository!Next
  BY <1>1, <1>3, CallLooksAtomic DEF Repository!Next
<1>4. ASSUME NEW p \in Procs, Hit(p) \/ ReadSnapshot(p) PROVE Repository!Next
  BY <1>4, AnswerLooksAtomic DEF Repository!Next
<1>5. ASSUME NEW p \in Procs, Commit(p) PROVE Repository!Next
  BY <1>5, CommitLooksAtomic DEF Repository!Next
<1>6. ASSUME NEW p \in Procs, Reject(p) \/ Break(p) PROVE Repository!Next
  BY <1>1, <1>6, ErrorLooksAtomic DEF Reject, Break, Repository!Next
<1>7. ASSUME NEW p \in Procs, SerializationFailure(p)
      PROVE  [Repository!Next]_(Repository!vars)
  <2>1. /\ pc[p] \in {"exec", "inval", "commit"} /\ UNCHANGED <<table, arg, res>>
        /\ pc' = [pc EXCEPT ![p] = "exec"] \/ pc' = [pc EXCEPT ![p] = "fail"]
    BY <1>7 DEF SerializationFailure, Retry
  <2>2. CASE pc' = [pc EXCEPT ![p] = "exec"]
    <3>1. Phase("exec") = Phase(pc[p])
      BY <2>1 DEF Phase
    <3>2. QED
      BY <1>1, <2>1, <2>2, <3>1, UnseenSteps
  <2>3. CASE pc' = [pc EXCEPT ![p] = "fail"]
    BY <1>1, <2>1, <2>3, ErrorLooksAtomic DEF Repository!Next
  <2>4. QED
    BY <2>1, <2>2, <2>3
<1>8. ASSUME NEW p \in Procs, Return(p) PROVE Repository!Next
  BY <1>1, <1>8, ReturnLooksAtomic DEF Repository!Next
<1>9. ASSUME NEW x \in Instances, Crash(x) PROVE Repository!Next
  BY <1>1, <1>9, CrashLooksAtomic DEF Repository!Next
<1>10. ASSUME NEW p \in Procs,
              \/ RLock(p) \/ Announce(p) \/ Drain(p) \/ Miss(p) \/ Fill(p)
              \/ Execute(p) \/ Invalidate(p)
       PROVE  UNCHANGED Repository!vars
  <2>1. UNCHANGED <<table, arg, res>>
    BY <1>10 DEF RLock, Announce, Drain, Miss, Fill, Execute, Invalidate
  <2>2. CASE Fill(p)
    BY <1>1, <2>1, <2>2, UnseenSteps DEF Fill, Phase
  <2>3. CASE RLock(p) \/ Announce(p) \/ Drain(p) \/ Miss(p) \/ Execute(p) \/ Invalidate(p)
    <3>1. /\ pc[p] \in {"rlock", "lock", "drain", "get", "exec", "inval"}
          /\ \E here \in {"get", "drain", "exec", "query", "inval", "commit"} :
                pc' = [pc EXCEPT ![p] = here]
      BY <2>3 DEF RLock, Announce, Drain, Miss, Execute, Invalidate
    <3>2. QED
      BY <1>1, <2>1, <3>1, UnseenSteps DEF Phase
  <2>4. QED
    BY <1>10, <2>2, <2>3
<1>11. CASE \/ \E k \in Keys : Expire(k)
            \/ \E e \in late : LateSet(e)
            \/ \E c \in unfinished : LateCommit(c)
  BY <1>1, <1>11, UnseenSteps DEF Expire, LateSet, LateCommit, CoherenceInv, NothingLate
<1>12. QED
  BY <1>2, <1>3, <1>4, <1>5, <1>6, <1>7, <1>8, <1>9, <1>10, <1>11
     DEF Next, ReadStep, WriteStep

\* RepositoryIsAtomic: behind its cache, its mutex, its retries and through its
\* crashes the repository behaves like AtomicRepository, which has none of
\* them, if Coherent is assured as above, callers that share a key ask the same,
\* no id is too long to be invalidated and no error of a lost connection reads
\* like a rejection, which would run a committed transaction again.
THEOREM RepositoryImplementsAtomic ==
    ASSUME FillersAreWriters, CommandsNameTheirRows, MaxLate = 0, MaxUnfinished = 0,
           OneQueryPerKey, LongIds = {}, ~Misread
    PROVE  Spec => RepositoryIsAtomic
<1>1. Init => Repository!Init
  BY DEF Init, Repository!Init, Phase
<1>2. CoherenceInv /\ [Next]_vars => [Repository!Next]_(Repository!vars)
  BY StepsLookAtomic
<1>3. Spec => []CoherenceInv
  BY InvariantHolds
<1>4. QED
  BY <1>1, <1>2, <1>3, PTL DEF Spec, RepositoryIsAtomic, Repository!Spec
=============================================================================
