# Verification of cqrs-core

`cqrs-core` is a Go library: generic repositories over gorm/PostgreSQL with a
read side (`Query`, `QuerySpecial`), a write side (`Command`,
`CommandSpecial`), transactions, row locks, and an optional cache-aside Redis.
This directory holds TLA+ models of it, the TLC runs that check them and the
TLAPS proofs about them. File references are to `src/`.

## 1. The system

All the code is one generic type, `allopDB[T]` (`impl/builders.go:13`): a
gorm handle, a `sync.RWMutex`, a `sync.Once`, a slice pool, a configuration and
a Redis client. Each constructor `C`, `Q`, `I`, `S`, `R`, `L` builds a *new*
instance, and so does `Tx` (`impl/builders.go:45`), over a transaction of the
caller's; instances share PostgreSQL and Redis and nothing else. A goroutine
that calls a method runs it to the end; there are no background goroutines.

| Component | State | Operations | Interacts with | What is hard | What makes it correct |
|---|---|---|---|---|---|
| Commands (`impl/writemodel.go`) | rows of the table | Insert, InsertBatch, Update, Replace, Patch, Upsert, Delete, DeleteBatch, HardDelete, SoftDelete, Restore (Save is empty) | mutex (`Lock`), `runSerializableTx`, invalidation inside the transaction | retries, failures half-way, the cache is changed before the commit, and the commit may come after the unlock | takes effect once or not at all; deletes every entry it outdates |
| Queries (`impl/readmodel.go`) | none | Exists, Count, Find, FindBy, List, OnlyListDeleted, NoListDeleted, Search | mutex (`RLock`), Redis, `runReadTx`, fill | the answer is stored after its transaction ended | answers, cached or not, are the table's at an instant of the call |
| Query cache (`impl/cache.go`) | Redis entries with a TTL | get, set, delete by key, delete by glob, `invalidateAfterWrite` | queries, commands | Redis errors are dropped on reads and fills, fatal on invalidation; late SETs; keys made with `%v` | no entry is out of date; stale ones disappear |
| Instances (`impl/builders.go`, `impl/base.go`) | RWMutex, Once, pool | the constructors | one table and one Redis among many | a mutex protects one instance only | mutual exclusion, no mutex lost |
| Serializable transactions (`impl/tx.go:239-286`) | attempts of the call | `runSerializableTx`, `runReadTx` | PostgreSQL | 40001/40P01, back-off, timeouts, lost acknowledgement, a COMMIT that lands late | at most five attempts, at most one effect |
| Transaction sessions (`impl/tx.go:55-198`, `290-303`) | an open transaction, an instance over it | Tx, TxSpecial, TxQuery, TxQuerySpecial and aliases, `runWithRetry` | the callback, the shared cache, the parent's mutex (known but never used) | nested retries, savepoints that are not undone, fills from uncommitted or old rows | atomic; overwrites no change it has not seen; the ways it makes the cache stale are known |
| Commit, Rollback, Abort (`impl/tx.go:117-131`) | none | return nil | none | the interface promises more | do what they say |
| Row locks (`impl/tx.go:310-363`) | PostgreSQL row locks | LockReadOnly, LockWriteOnly | `runSerializableTx` | strength, how long they last, and what they do beside the mutexes | what a session has locked stays as it is; no wait that nothing ends |
| Lazy init (`impl/cache.go:14-32`) | Once, first error | `init` | every call | the first caller's context decides; two instances create or alter one table | nobody works on what is not there; an instance breaks for a known cause |
| Stream (`impl/readmodel.go:314-367`) | offset | Stream | callback inside a read transaction | no mutex, no ORDER BY | one snapshot, the right number of rows, every row once where the order allows |
| Commands by filter (`impl/aliases.go:39-150`) | none | UpdateMany, DeleteMany, Destroy, Distinct | List (cached), Patch, DeleteBatch | first page only, not atomic | what they report is what they did |
| Options (`impl/opts.go`) | configuration | With..., `applyQueryOpts` | all | clamps, overflow of the offset, silent rejection of a namespace | offsets and sizes in range |
| Aliases, errors, Ping/Pong | none | | | | |

`impl/writemodel.go:414` declares `Save` with an empty body and a result, which
Go does not compile; nothing is modelled of it.

## 2. Modules

| Module | Models |
|---|---|
| `RowStore` | the table; commands as functions from a table to the tables they may leave; queries as functions from a table to their answer, if any |
| `QueryCache` | cache keys, and the stages of `invalidateAfterWrite` |
| `AtomicRepository` | the abstract specification: calls that take effect at one instant |
| `CacheAside` | instances, mutex, cache, transactions, retries, failures and crashes |
| `RetryLoops` | one call and the loops around its transaction: `runReadTx`, `runSerializableTx`, `runWithRetry`, and the second inside the third |
| `TxSession` | Tx, TxSpecial, TxQuery, TxQuerySpecial beside plain calls: snapshots, row locks, and the shared cache; Commit, Rollback, Abort |
| `RowLocks` | LockReadOnly, LockWriteOnly and commands, inside and outside sessions: the mutexes of the program beside the locks of PostgreSQL |
| `LazyInit` | the Once, the ping and AutoMigrate that every call begins with |
| `StreamRead` | Stream, beside commits |
| `BulkByFilter` | UpdateMany, DeleteMany (Destroy) over an atomic repository |
| `MC...` | sets of queries and commands for TLC; `MCOneKey` also limits a behaviour of `CacheAside` to one key |
| `...Proofs` | the proofs; `QueryCacheProofs` also has the lemmas about commands, queries and pages that all others use |

`RowStore` is at the bottom. `QueryCache` extends it, `CacheAside` and `TxSession`
extend `QueryCache`; `StreamRead` and `AtomicRepository` extend `RowStore`.
`CacheAside` instantiates `AtomicRepository` under a refinement mapping, and
`BulkByFilter` extends it: the bulk calls are checked over the promise that the
repository is shown to keep. `RetryLoops`, `RowLocks` and `LazyInit` need no rows
and stand alone.

### State and actions of `CacheAside`

`table` is what is committed, `cache` what Redis holds, `late` the SETs whose
client timed out (`cache.go:124`) and that Redis has still to run, `unfinished`
the commands whose client gave up at COMMIT (`tx.go:249`: its context or its
`WithTimeout` deadline ended, the connection broke) and that PostgreSQL has still
to commit or roll back; their rows stay locked. `rlock` and
`wlock` are `sync.RWMutex`: `Announce` and `Drain` are the two halves of `Lock`,
so that a waiting writer keeps new readers out, as Go's does. Per goroutine: `pc`, the instance, the query or command, the
answer found, the number of rejected attempts, the next stage of invalidation.
An instance outside `Cached` is one built without `WithCache`, or with a namespace that
`WithCache` silently refuses (`opts.go:56`).

| Action | Code |
|---|---|
| `CallRead`, `RLock`, `Hit`/`Miss`, `ReadSnapshot`, `Fill`, `Return` | a query: `RLock`, Redis GET, `runReadTx`, `cacheSet`, the deferred unlock |
| `CallWrite`, `Announce`, `Drain`, `Execute`/`Reject`, `Invalidate` (six times), `Commit`, `Return` | a command: `Lock`, the statements, `invalidateAfterWrite` inside the transaction, COMMIT, the deferred unlock |
| `SerializationFailure`, `Retry` | 40001 or 40P01 at a statement or at COMMIT, or an error of Redis that has 40001 in its text: next attempt, or the error after the last |
| `Break` | any other error, a timeout or a cancelled context: rollback. In an invalidation any part of the stage's keys may be gone |
| `Commit` ending otherwise than in `ret` | its outcome is unknown to the caller: COMMIT took effect, or it becomes `unfinished`. The call returns the error, or (`Misread`) takes its text for a rejection and runs the committed transaction again |
| `Expire`, `LateSet`, `LateCommit`, `Crash` | TTL, a SET run late, an unfinished transaction that ends, death of the program that owns an instance |

### State and actions of `RetryLoops`

`CacheAside` has many calls and one loop; `RetryLoops` has one call and follows
it through both loops. `kind` says which: a query, a command, or a function
given to `Tx`. `outer` and `inner` count the iterations of `runWithRetry` and
`runSerializableTx`; `step` is the command the function is at; `pending` counts what
the open transaction holds of each command, `kept` what was committed of it;
`served` has the commands that returned nil; `conn` is the transaction, which is
dead once its connection broke or its context ended; `live` is the caller's
context, `expired` the commands whose `WithTimeout` deadline has passed.

| Action | Code |
|---|---|
| `Read` | `runReadTx`: one transaction, its error returned as it is |
| `Begin`, `Issue`, `FnReturns`, `Refused`, `Failed`, `Wait` | `runWithRetry` and the function: BEGIN, the function issues commands or returns, goes on after a failed command or hands its error on; the test of the context, the back-off, the next iteration |
| `Attempt`, `Invalidate`, `Undo`, `Backoff` | `runSerializableTx`: BEGIN or SAVEPOINT and the statements, the invalidation, ROLLBACK or ROLLBACK TO SAVEPOINT, the back-off |
| `Commit` | COMMIT of either loop: done, refused, or its outcome unknown |
| `Cancel`, `Expire` | the caller's context ends; a command's deadline passes |

Errors are abstracted to what `isSerializationFailure` tells apart: a rejection, an
error of the connection, an ended context, any other; the last and the second may
have `40001` in their text (`Texts`), which the code takes for a rejection.

### State and actions of `TxSession`

`table`, `cache`, `late` and `unfinished` as above. A session has `base`, the
snapshot of its transaction, `view`, that snapshot with its own writes, `did`, the
commands whose writes it holds, and `owed`, the keys that a command of it may
have left although it wrote; `asked` is the explicit call it has made since.
`filler` records who stored an entry.

| Action | Code |
|---|---|
| `Read`, `Fill`, `Execute`, `Commit`, `LateSet`, `LateCommit` | plain calls, in the two parts between which another goroutine can be: the answer and its SET, the invalidation and COMMIT |
| `Begin` | BEGIN of Tx, TxSpecial, BeginTransaction, or of TxQuery, TxQuerySpecial, StartSession; `newTxInstance` |
| `SessionRead` | a query of TxQuery, or the List inside UpdateMany and DeleteMany of Tx: it stores what the session sees in the shared cache |
| `SessionCommand` | a command in a savepoint, with its invalidation; PostgreSQL refuses it where another open transaction has written the row, or a commit since the snapshot (first updater wins). Or the invalidation fails with the command's deadline over: the savepoint is not undone (`tx.go:240`), the callback gets an error and the write stays, with its keys `owed` |
| `ExplicitCall` | Commit, Rollback, Abort: return nil |
| `CommitSession`, `RollbackSession`, `Expire` | the end of one iteration of `runWithRetry`, also by a crash; the TTL |

### State and actions of `RowLocks`

`lock[t][i]` is the strongest lock that transaction `t` has on row `i`; a
goroutine has at most two transactions, its session's and that of a call it
makes on an instance from outside (`Transactions`). `reads` and `newer` stand
for snapshots: the transactions that have one, and the rows committed since.
`readers` and `writer` are the RWMutexes.

| Action | Code |
|---|---|
| `Direct`, `Tx`, `InSession` | a call on an instance of the program, a session, a call on the instance that the callback was given. That one's mutex is nobody else's, so it needs no step |
| `RLock`, `Announce`, `Drain`, `LockRow` | the mutex of a direct call (RLock in both Lock methods, Lock in commands), then the row, once it is free and not newer than the snapshot |
| `CommitCall`, `RetryCall`, `FailCall` | the end of `runSerializableTx`: a direct call's locks end with it, a session's stay |
| `Rejected`, `Cancelled` | 40001 for an overtaken row, 40P01 for a cycle that PostgreSQL sees (`Deadlocked`); an ended context, which ends a wait in PostgreSQL and none for a mutex |
| `CommitSession`, `RollBackSession` | the end of an iteration of `runWithRetry` |

### State and actions of `LazyInit`, `StreamRead`, `BulkByFilter`

`LazyInit`: `once` and `initErr` are the fields of an instance, `schema` is the
table (none, old, new), `up` and `accepts` whether PostgreSQL can be reached and
accepts the migration, `ended` a caller's context. `NoPool` are the instances
whose handle has no `sql.DB` (`cache.go:16`). `First` and `Others` are the two
ways through `Once.Do`; `Ping`, `Check` (HasTable), `Create` (CREATE TABLE),
`Compare` (the columns) and `Alter` (ALTER TABLE) are its function; `EndContext`,
`Flap`, `Evolve` (somebody else's migration, or a statement whose client is gone)
and `Restart` are the world. Instances of `builders.Tx` have their Once done when
they are made (`tx.go:301`): they skip `init` and are none of these.

`StreamRead`: `snapshot`, `offset` and `batch` are the transaction's rows and the loop's
variables, `seen` what the callback was given. `ReadWindow` is one SELECT; a stream
is marked with whether its SELECTs agree on an order (`stable`), and without
that any set of the right size is a window. `Callback` and `CallbackFails` are
the user's function, `Fail` every error that is not retried, `Write` a commit of
anybody, the callback's own commands included.

`BulkByFilter`: `items` is what List returned, `next` the item UpdateMany is
at. `BulkCall` and `Listed` are the List, `Apply`, `Applied`, `Abandon` the Patch calls or the
DeleteBatch; every other caller's steps are those of `AtomicRepository`
(`Quiet`, `Effective`), and `BulkCrash` ends any of them. `wrote` has the ids that
the call's commands named when they took effect; a row that somebody else had removed before a
DeleteBatch is among them.

### Choices

- PostgreSQL is what the code relies on: a query sees the committed rows of one
  instant, rows written by an open transaction are locked, a rejected
  transaction leaves nothing. Serialization conflicts are not computed in
  `CacheAside` and `RetryLoops`: any transaction may be rejected at any time, a
  superset of what SSI does. `TxSession` and `RowLocks` are about what Serializable keeps from
  happening, and have the one rule they need: a row that was committed since the snapshot
  cannot be written or locked. Everything else SSI would refuse they allow.
- The statements of a command are one step. `Commit` applies them to the
  committed rows; the row locks make that the same rows that `Execute` saw.
- A row has one value column, which stands for all the columns a filter looks at. An
  answer that is a collection is a page in primary-key order, ascending or
  descending; without ORDER BY the ascending order stands for PostgreSQL's,
  but in `StreamRead`, where the missing order is the point.
- An outcome "no such record" is the empty set of answers: `Find`, `FindBy` and
  `Search` do not cache it. `Exists` caches FALSE.
- `Update`'s existence test (`writemodel.go:91`, `First(new(T))`) has no condition:
  any live row satisfies it, so that an Update of an id that is not there changes
  nothing and succeeds. `Replace` and `Patch` look for the id.
- `%v` is not injective: `Printed` says which filters print alike. A key has the text
  of its filter, so that one caller's answer may be a hit for another's filter; the
  number 1 and the string 1 are one id of the model. Theorems that depend on keys
  that tell queries apart have `OneQueryPerKey` among their hypotheses.
- A COMMIT that lands late is `LateCommit`, with the mutex long released. Of a session it is
  `CommitSession`: its goroutine has left, and does nothing of the model in
  between. A DEL that runs late is `Expire`.
- All instances that use the cache use the same namespace; validation errors are left
  out (they end a call before it touches anything modelled), and so is `init` but in
  `LazyInit`.
- An id longer than 255 bytes is a member of `LongIds`; ids that are stored
  are non-empty.
- Two commands have `rows` that differ from their `ids`: an `Upsert` that
  collides on other columns than the primary key, and a `Patch` whose map has
  the key `id` (`PatchId`), which moves its row.
- SCAN is one step: an entry that is set while a SCAN runs and that it misses is the
  same as one set after it.
- In `TxSession` a plain call takes its mutex in its first step and the six
  stages of an invalidation are one step. `CacheAside` has them apart; what
  `TxSession` adds lies between the invalidation and COMMIT.

## 3. Runs

| Run | Instance | Shows |
|---|---|---|
| `shared` | `CacheAside`: two goroutines on one cached instance, two ids, two values, a page of two rows, two attempts, nothing late; a query of each kind and a command of each kind, batches among them | `TypeOK`, `Coherent`, the inductive invariant `CoherenceInv`, and that the repository refines `AtomicRepository` (`RepositoryIsAtomic`): hits, retries, lost acknowledgements and crashes are invisible |
| `split` | `CacheAside`: a reading, a reading and writing and an uncached writing instance, an id that is too long, a stray upsert, a moving patch, one late SET, one late COMMIT, committed transactions that are run again | `StaleOnlyByRace`: the list of ways an entry goes stale is complete |
| `live_split` | `CacheAside`: two instances that read and write, one row, two filters that print alike, one late SET, one late COMMIT, transactions run again | `MutexInv`, `CallsReturn`, `EventuallyCoherent` |
| `retries` | `RetryLoops`: every kind of call, the code's own five and five iterations, up to three commands in a function, `WithTimeout`, errors of other origin with `40001` in their text | `TypeOK` (the loops keep their bounds), `AtMostOnce`, `AllOrNothing`, `CallEnds` |
| `sessions` | `TxSession`: two sessions of up to two commands and a plain caller, two ids, an entry deleted by key and one deleted by glob, one late SET, one late COMMIT, commands that leave their write | `SessionInv`: no session overwrites a row it has not seen; `FillersInv`: what sessions leave in the cache under keys they delete; `StaleOnlyBySessions`: the ways an entry goes stale, and no other |
| `row_locks` | `RowLocks`: two goroutines, one instance, one row, two attempts, two calls in a callback | `TypeOK`, `LockedRowsStay`, `UnseenDeadlockNeedsParentCall`, `CallsReturn` |
| `lazy_init` | `LazyInit`: two goroutines; two migrating instances, one that does not migrate and one without a pool | `UsesAreInitialised`, `BreaksForACause`, `CallsReturn` |
| `stream` | `StreamRead`: one stream over up to four rows, batches of one, two, or none asked for (then three), rows that come, go and change sides of the filter | `StreamInv` (inductive), `CountIsRight`, `OneSnapshot`, `EachOnceInOneOrder`, `StreamEnds` |
| `bulk` | `BulkByFilter`: two goroutines, three ids, a page of three, two UpdateMany and a DeleteMany beside the calls they are made of | `CompleteUnlessFullPage`, `ReportIsTrue` |

Why the bounds are enough to be interesting. With two goroutines one can stand
anywhere in a query or a command while the other runs a whole call. Two attempts
exercise both sides of the retry test. One row lets every command be refused,
repeated, undone and redone; two rows tell a batch from a single command and a
key of one row from another's. Three commands in a function let one be
committed, one fail and one follow it. Two sessions of two commands write the
same row, different rows, and each other's in both orders. Two transactions on
one row are every pair of lock strengths; a third would only wait behind them. In
`lazy_init` one goroutine runs the function, and the other waits for it or runs
that of the other migrating instance. One late SET and one late COMMIT are each
outdated by, or outdate, what the goroutines do meanwhile. Four rows in batches of one to three give full,
short and empty last windows. A page of three on three rows is full or not. The
proofs remove these bounds for what they cover.

`shared` and `split` look at one key at a time (`MCOneKey`): a behaviour asks for the
answers under one key, every key in turn. An invalidation deletes key by key and no property
relates two keys; calls under other keys would only change other entries.
`sessions` does the same. `shared` and `split` use the symmetry of the goroutines,
`sessions` that of the sessions; none of them checks liveness. The deadlock check is off in `retries`, `commit_twice` (`Commit`
ends the call) and `bulk` (the calls of a full table are finitely many and some are
refused for good); in the others the models must not stop.

Runs that end in a violation, each against a sentence of the repository:

| Run | The sentence | The code |
|---|---|---|
| `rollback_ignored` | `interfaces.go:52` Rollback reverts the session | `tx.go:117-131` returns nil; the session commits |
| `list_order` | `interfaces.go:99` List follows its options | `readmodel.go:172` leaves the order out of the key |
| `commit_twice` | `interfaces.go:35` Tx is atomic | `tx.go:219` looks for `40001` in the text of any error: a connection that breaks at COMMIT is taken for a rejection if its text has those digits |

`commit_twice` is rare: the error must have no SQLSTATE, and its text a port or a number
with those digits. `AtMostOnce` holds whenever that is excluded, with
any other error free to have them.

More sentences differ from the code in a way that reading shows as well as a
run would; the properties above say what holds instead:

- `tx.go:236` has the caller invalidate the cache after the transaction;
  `writemodel.go:29` and every other command do it inside. Harmless on a shared
  instance as long as COMMIT ends before the call does (`Coherent` holds: the mutex
  covers the gap), one of the races of `StaleOnlyByRace` across
  instances. With `C` and `Q` built separately, the usual way to use CQRS, entries
  can therefore be stale until their TTL.
- `cache.go:176` skips long ids, `writemodel.go:212` knows only the entity's id, and
  `writemodel.go:170` only the old one: the other cases of `StaleOnlyByRace`.
- `tx.go:193` ends the loop at any other error; `tx.go:219` retries one of the
  callback's own if its text has `40001`.
- `interfaces.go:201` says that Delete supports soft delete; `writemodel.go:241` is `Unscoped`,
  so that `RowStore!Delete` removes rows.
- `tx.go:203` says that a rejection must be retried; `tx.go:282` runs a query once, as
  `RetryLoops!Read` and `CacheAside!Break` do.
- `interfaces.go:210` deletes all records of a filter; `aliases.go:136` deletes those
  of the first page of twenty (`CompleteUnlessFullPage`).
- `tx.go:337` says FOR NO KEY UPDATE, `tx.go:353` says UPDATE (`RowLocks!Strength`).
- `interfaces.go:114` streams a collection; without ORDER BY a row can come twice and another never
  (`EachOnceInOneOrder` needs the order, `CountIsRight` does not).

`StaleOnlyByRace` lists, for instances of any topology: a fill of a snapshot that a commit
has overtaken; a late SET; a command's commit after another instance has filled
the entry again, or by an instance without cache, or of an entry that the
command does not delete (long ids, rows it does not name); a late COMMIT, after which
even the command's own instance may have filled the entry again. Late SETs and late COMMITs
need no second instance: `Coherent` assumes `MaxLate = 0` and `MaxUnfinished = 0`.

`StaleOnlyBySessions` lists: a session stores what it sees; a plain query stores a snapshot that a
commit has overtaken; a late SET; a session commits and another goroutine has
filled the entry since the session deleted it, or the entry is `owed`; a plain
command commits and a session or a late SET has filled the entry since; a late COMMIT.

`AllOrNothing` carries an exception that the code needs: a command inside `Tx` whose own
deadline passes before ROLLBACK TO SAVEPOINT is sent keeps its write in the
transaction (`tx.go:240`: the savepoint is undone with the context that has just
ended), and a function that goes on after the error commits it. In `TxSession` it is the second
outcome of `SessionCommand`, and `owed` in `FillersInv` and `StaleOnlyBySessions`.

`UnseenDeadlockNeedsParentCall` and the premise of `RowLocks!CallsReturn` name the one use that can hang for good: a callback of
`Tx` that calls the repository it came from, in whose mutex a goroutine waits
that waits in PostgreSQL for a row of the callback's transaction.

`StaleOnlyBySessions` says that a session does not outdate its own lists by
committing, although rows committed since its snapshot are missing from what it
sees. If the list it stored is also the list of the table, the rows up to the
last one on the page are the same in both, and every row of the new table is
from one or the other (`SamePage`, section 4). That takes one query per key
(`OneQueryPerKey`): where two orders share an entry, it may hold the ascending page of what the session
sees and be current because it is the table's descending one.

### Fairness

Nothing is asked of failures, crashes, cancelled contexts or new calls. What is asked:

| Module | Fairness | Why |
|---|---|---|
| `RetryLoops` | weak, of the call's own steps | one goroutine, whose statements and back-off end |
| `CacheAside` | weak, of statements, Redis calls, commit, unlock; strong, of taking a mutex or a row lock; weak, of the TTL, of Redis's backlog and of unfinished transactions | goroutines run; `RWMutex` is starvation-free and PostgreSQL queues for row locks; Redis expires and works off what it was sent; PostgreSQL finishes a COMMIT it has received, and ends the transaction of a connection that is gone |
| `RowLocks` | strong, of the mutex and the row lock; weak, of commit, of a rejection that is due, of the end of a session | as above; PostgreSQL looks for deadlocks after a second; callbacks return |
| `LazyInit`, `StreamRead` | weak, of the goroutine's steps | a ping or a statement ends, with an answer or with its context or the connection's limits; the stream's callback returns |

A rejected transaction needs no fairness: the attempts are counted.
`EventuallyCoherent` is conditional on commands ceasing, because a command can
always race again.

## 4. Proofs

| Theorem | Says | Assumes |
|---|---|---|
| `CacheAsideProofs!TypeCorrect` | `Spec => []TypeOK`, with the primary key | the modules' assumptions |
| `CacheAsideProofs!MutexProtects` | `Spec => []MutexInv` | the same |
| `CacheAsideProofs!OnlyRacesAreStale` | `Spec => StaleOnlyByRace` | the same |
| `CacheAsideProofs!CacheIsCoherent`, `InvariantHolds` | `Spec => []Coherent`, `Spec => []CoherenceInv` | `FillersAreWriters`, `CommandsNameTheirRows`, `MaxLate = 0`, `MaxUnfinished = 0` |
| `CacheAsideProofs!RepositoryImplementsAtomic` | `Spec => RepositoryIsAtomic`, the refinement | those, `OneQueryPerKey`, `LongIds = {}`, `~Misread` |
| `QueryCacheProofs!InvalidationCovers` | what an invalidation leaves alone is still right after the command | an id that is not too long, of a row that the command names or does not change |
| `RetryLoopsProofs!EffectAtMostOnce` | `Spec => []AtMostOnce` | `NoBrokenAccident` |
| `RetryLoopsProofs!CallIsAllOrNothing` | `Spec => []AllOrNothing` | the same |
| `RetryLoopsProofs!LoopsAreBounded` | `Spec => []TypeOK` | the same (the three share one invariant) |
| `TxSessionProofs!SessionsOverwriteNothing` | `Spec => []SessionInv` | the modules' assumptions |
| `TxSessionProofs!SessionsLeaveWhatTheySee` | `Spec => []FillersInv` | the same |
| `TxSessionProofs!OnlySessionsMakeStale` | `Spec => StaleOnlyBySessions` | `CommandsNameTheirRows`, `OneQueryPerKey` |
| `RowLocksProofs!LocksTyped`, `LocksProtectRows`, `DeadlocksAreSeen` | `Spec => []TypeOK`, `Spec => []LockedRowsStay`, `Spec => []UnseenDeadlockNeedsParentCall` | the modules' assumptions, `FiniteProcs` among them |
| `LazyInitProofs!CallsWaitForInit`, `InstancesBreakForACause` | `Spec => []UsesAreInitialised`, `Spec => BreaksForACause` | the modules' assumptions |
| `StreamReadProofs!StreamKeepsCount`, `StreamCounts`, `StreamReadsOneSnapshot`, `StreamVisitsOnce` | `Spec => []StreamInv`, `Spec => []CountIsRight`, `Spec => []OneSnapshot`, `Spec => []EachOnceInOneOrder` | the modules' assumptions |
| `BulkByFilterProofs!BulkReportsAreTrue`, `BulkIsComplete` | `BulkSpec => []ReportIsTrue`, `BulkSpec => []CompleteUnlessFullPage` | the same |
| `BulkByFilterProofs!BulksAreCalls` | `BulkSpec => Spec`: the bulk calls refine `AtomicRepository` | the same, `BulksMakeCalls` among them: what they call, others may call |

They hold for any sets of goroutines, instances, ids, values, queries and
commands and any bounds: of attempts, of commands in a function, of calls in a
session, of batch and page sizes. Two sets are taken to be finite: the possible rows
(`FiniteRows`; keys and columns have a width), for pages and counts, and in `RowLocks` the
goroutines (`FiniteProcs`). The modules' assumptions are otherwise that the
parameters are of their types, and what `RowStore` says of commands that name other rows than ids.

**The cache.** `Coherent` is not inductive. `CoherenceInv` adds what the code relies on
without saying so: the mutex (`LocksHeld`) and where a call can be
(`CallsTyped`); that an answer about to be stored is still the table's
(`FillsAreCurrent`), which the read lock guarantees; that what a command has
deleted stays deleted until it commits (`DeletedStaysDeleted`), which the write
lock guarantees; and that a non-empty cache has readers (`CacheHasFillers`),
so that a command of an instance without cache finds nothing to outdate. The only
step that could break `Coherent` through the table is `Commit`:
`InvalidationCovers` shows that an entry not deleted by then belongs to a row
that the command did not touch (`EffectIsLocal`).
`OnlyRacesAreStale` needs `MutexInv` only, and turns the assumptions around: each of them excludes
disjuncts of `WayToGoStale`.

**The refinement.** The mapping forgets everything but the table, the calls and the answers, and
maps a goroutine's place to `Phase`. Its steps are one lemma per way of looking
from outside: `CallLooksAtomic`, `AnswerLooksAtomic`, `CommitLooksAtomic`,
`ErrorLooksAtomic`, `EndLooksAtomic`; all others are stutters (`UnseenSteps`).
The one that needs `CoherenceInv` is a hit: what Redis holds is part of what the
queries under that key may answer, they all are one query (`OneQueryPerKey`),
and a query has one answer at most (`OneAnswer`, from the primary key). The run
`list_order` is what happens without `OneQueryPerKey`, to two orders; two filters that
print alike fare no better. `~Misread` is needed because the abstract call takes effect
once; `Coherent` survives the second run.

**The loops.** Neither `AtMostOnce` nor `AllOrNothing` is inductive. `LoopInv`
adds where each kind of call can be (`Control`); that a transaction starts
empty (`Empty`); that it holds a command's write at most once (`Once`), since an
attempt that is repeated was undone, or its deadline has passed and there is no
other attempt; that what a function was told is pending until COMMIT and
little else is (`FunctionHolds`, `CommandHolds`); and that
nothing is committed before the last COMMIT (`LastCommit`), the step that
`NoBrokenAccident` is needed for and that `commit_twice` violates without it.

**Sessions.** `SessionInv` is inductive once it is said row by row: a session sees its
snapshot outside what it wrote (`SeesItsSnapshot`), what it wrote is still in
the table as its snapshot has it (`SnapshotsHold`), and open transactions write different
rows (`WritersDiffer`), which the row locks give. The rule that the isolation level adds, no write over a
newer row, is what lets `SnapshotsHold` survive a command.

**What sessions leave in the cache.** `StaleOnlyBySessions` needs `FillersInv` (which needs nothing
but `SessionInv`) for the two steps that commit. A plain command's commit outdates only what it has deleted
(`InvalidationCovers`), and what is there again a session has stored
(`PlainCommitWay`). A session's commit outdates only what the session has
deleted, or owes (`OtherEntriesStay`), and what is there again is another's or a list as
the session sees it now; that one, if it was current, stays current
(`OwnListStaysCurrent`). The last step is about pages, whose rows are
given by how many come before them: the ranks of a set of rows differ (`RanksDiffer`), run through all
numbers below its size (`RanksCover`, by counting), so that a page shows rows
(`PageShows`), with each all that come before it (`PageIsClosed`), and all of them if it is not full
(`ShortPageShowsAll`). `SamePage` puts that together: two sets with one page give it to every set between
their intersection and their union.

**Row locks.** `LockedRowsStay` needs `WritersExclude`, that a row locked for writing has
one lock, and `WrittenIsLocked`, that what a transaction commits it has locked for
writing: then a commit overtakes nobody who has a lock. `NoKeyShare` keeps out the one strength that
goes beside a write, which no statement of the library asks for.

**Deadlocks.** `HoldInv` says where a goroutine is that holds something: a mutex is held
by a direct call past it, the row of a direct call by one that is about to
commit, the row of a session inside the session. So in a circle without a call
from a callback to the outside, whoever waits for a row waits for a session of the circle, whose goroutine
cannot be at a mutex and waits for a row as well. Those goroutines point at one another only;
there are finitely many, and each is pointed at once, so that they are pointed
at by nobody else. A goroutine that waits for a mutex would end up pointing at
one of them. Hence there is none, and the circle is one of PostgreSQL's (`SessionsInACycle`).

**Initialisation.** `OnceInv`: callers in the function are there one at a time and only
while `once` is "running", and a migrating instance that is done without error has its
table with all of its columns, which nothing takes away.

**Stream.** `StreamInv` says of every stream that the offset counts what was handed out and
never passes the collection, whose size the last, short or empty, window gives
away; and of one with a stable order that the rows handed out are the first of it.

**Bulk calls.** `BulkInv` says, call by call, where the item at hand is and that `wrote` has the
items before it, with that one once its call has said nil and perhaps when it has failed
(`Applying`). For completeness it says that a call that nobody has disturbed and whose
page is not full has still to change only rows that it has listed and not
written (`Completing`). That holds at the List, since a page that is not full shows every
row (`ShortPageShowsAll`), and through every Patch, which gives the row the value that takes it out of `Left`.

Every invariant and every action property that a run checks and that holds is stated by a theorem, and so
is the refinement. Only model-checked is liveness (`CallEnds`, `CallsReturn`, `EventuallyCoherent`,
`StreamEnds`): fairness is out of the prover's reach.

## 5. Not modelled, and the plan

- `Distinct` (`aliases.go:39`): a projection of what List returned.
- Aliases: methods that call another with the same arguments.
- Errors and their codes, Ping and Pong, logging, formatting.
- Options: the arithmetic of pages other than the first and the validation of names.
  Such pages bypass the cache (`direct`), and gorm drops a negative offset, which an
  overflow may give: the page is answered as from the first row. `WithPoolCap` and `WithRetry` set fields that only an allocation, or nothing, reads.
- Save: see section 1.

None of them changes a state that a property could be about. What is left to
do: a liveness run of `RowLocks` with two rows, where two sessions that lock in
opposite orders meet, and not only two that strengthen their locks. With the present
bounds on calls and attempts it is too large for TLC; that such a deadlock is
seen by PostgreSQL is what `DeadlocksAreSeen` proves for any rows.
