------------------------------ MODULE RowLocks ------------------------------
(***************************************************************************)
(* The two kinds of lock of the library and how they meet: the RWMutex of  *)
(* an instance, which goroutines wait for inside the program, and the row  *)
(* locks of PostgreSQL, which transactions wait for inside the server      *)
(* (LockReadOnly, LockWriteOnly, and every command).  A goroutine calls an *)
(* instance directly, or opens a session with Tx and calls the instance    *)
(* over the open transaction (newTxInstance), whose own mutex nobody else  *)
(* knows; the callback may also call the instance it came from, in a       *)
(* second transaction.                                                     *)
(***************************************************************************)
EXTENDS Naturals, FiniteSets, Functions

CONSTANTS
    Procs,          \* goroutines
    Instances,      \* repository instances over the database
    Ids,            \* rows
    MaxAttempts,    \* iterations of runWithRetry and of runSerializableTx
    MaxSteps        \* bound on the calls a callback makes

ASSUME FiniteProcs == IsFiniteSet(Procs)
ASSUME BoundsAreNumbers == {MaxAttempts, MaxSteps} \subseteq Nat \ {0}

VARIABLES
    lock,       \* lock[t][i]: the lock transaction t has on row i
    reads,      \* the transactions that have taken their snapshot
    newer,      \* newer[t]: the rows committed since t's snapshot
    readers,    \* readers[x]: the goroutines that hold x's mutex for reading
    writer,     \* writer[x]: the goroutine that holds, or is next to hold, it
    pc,         \* "idle", "mutex", "drain", "row", "commit", "body"
    call,       \* the operation a goroutine is in
    session,    \* whether it is inside the callback of Tx
    wrote,      \* the rows its session has written
    steps,      \* the calls its callback has made
    attempt,    \* iterations of runWithRetry
    tries       \* iterations of runSerializableTx

vars == <<lock, reads, newer, readers, writer, pc, call, session, wrote, steps,
          attempt, tries>>
mutexVars == <<readers, writer>>
rowVars == <<lock, reads, newer>>
loopVars == <<steps, attempt, tries>>

\* A goroutine has at most two transactions: its session's, and that of a
\* call on an instance of the program.
Transactions == Procs \X {"session", "direct"}

Operations == {"LockReadOnly", "LockWriteOnly", "Update"}
Call == [op : Operations, id : Ids, inst : Instances, via : {"session", "direct"}]
NoCall == [op |-> "none"]

Owner(p) == <<p, call[p].via>>

Strength_KeyShare(op) ==
    IF op = "LockReadOnly" THEN "KEY SHARE"
    ELSE IF op = "LockWriteOnly" THEN "UPDATE" ELSE "NO KEY UPDATE"

\* What the statement asks for.  LockWriteOnly's clause says UPDATE; an UPDATE
\* of columns that are no key takes the lock its comment names.
Strength(op) ==
    IF op = "LockReadOnly" THEN "SHARE"
    ELSE IF op = "LockWriteOnly" THEN "UPDATE" ELSE "NO KEY UPDATE"

Strengths == {"KEY SHARE", "SHARE", "NO KEY UPDATE", "UPDATE"}

\* PostgreSQL's table: the row locks a transaction can take beside others'.
Beside(strength) ==
    IF strength = "KEY SHARE" THEN Strengths \ {"UPDATE"}
    ELSE IF strength = "SHARE" THEN {"KEY SHARE", "SHARE"}
    ELSE IF strength = "NO KEY UPDATE" THEN {"KEY SHARE"} ELSE {}

\* The transactions that keep p's statement waiting.
Blockers(p) ==
    {t \in Transactions \ {Owner(p)} :
        lock[t][call[p].id] \notin Beside(Strength(call[p].op)) \cup {"none"}}

\* Which half of the RWMutex a direct call takes: Lock for commands.
IsCommand(p) == call[p].op = "Update"

NoLocks == [i \in Ids |-> "none"]
\* A transaction that has locked a row keeps the stronger of its locks: the
\* one that goes with fewer.
Stronger(a, b) ==
    IF a # "none" /\ Beside(a) \subseteq Beside(b) THEN a ELSE b

Goto(p, label) == pc' = [pc EXCEPT ![p] = label]

Init ==
    /\ lock = [t \in Transactions |-> NoLocks]
    /\ reads = {}
    /\ newer = [t \in Transactions |-> {}]
    /\ readers = [x \in Instances |-> {}]
    /\ writer = [x \in Instances |-> {}]
    /\ pc = [p \in Procs |-> "idle"]
    /\ call = [p \in Procs |-> NoCall]
    /\ session = [p \in Procs |-> FALSE]
    /\ wrote = [p \in Procs |-> {}]
    /\ steps = [p \in Procs |-> 0]
    /\ attempt = [p \in Procs |-> 0]
    /\ tries = [p \in Procs |-> 0]

-----------------------------------------------------------------------------
(* Calls begin.                                                            *)

CanCall(p) ==
    \/ pc[p] = "idle" /\ UNCHANGED steps
    \/ /\ pc[p] = "body" /\ steps[p] < MaxSteps
       /\ steps' = [steps EXCEPT ![p] = @ + 1]

Direct(p) ==
    /\ CanCall(p)
    /\ \E op \in Operations, i \in Ids, x \in Instances :
          call' = [call EXCEPT ![p] = [op |-> op, id |-> i, inst |-> x, via |-> "direct"]]
    /\ Goto(p, "mutex")
    /\ UNCHANGED <<rowVars, mutexVars, session, wrote, attempt, tries>>

\* Tx: a transaction, an instance over it, the callback.
Tx(p) ==
    /\ pc[p] = "idle"
    /\ session' = [session EXCEPT ![p] = TRUE]
    /\ Goto(p, "body")
    /\ UNCHANGED <<rowVars, mutexVars, call, wrote, loopVars>>

InSession_ParentMutex(p) ==
    /\ pc[p] = "body"
    /\ CanCall(p)
    /\ \E op \in Operations, i \in Ids, x \in Instances :
          call' = [call EXCEPT ![p] = [op |-> op, id |-> i, inst |-> x, via |-> "session"]]
    /\ Goto(p, "mutex")
    /\ UNCHANGED <<rowVars, mutexVars, session, wrote, attempt, tries>>

\* The callback uses the instance it was given.  Nobody else has that
\* instance's mutex; the parent's, which txCommandRepo points to, stays free.
InSession(p) ==
    /\ pc[p] = "body"
    /\ CanCall(p)
    /\ \E op \in Operations, i \in Ids, x \in Instances :
          call' = [call EXCEPT ![p] = [op |-> op, id |-> i, inst |-> x, via |-> "session"]]
    /\ Goto(p, "row")
    /\ reads' = reads \cup {<<p, "session">>}
    /\ UNCHANGED <<lock, newer, mutexVars, session, wrote, attempt, tries>>

-----------------------------------------------------------------------------
(* The mutex of the instance, then the statement.                          *)

\* The transaction begins, its only statement fixes what it sees.
Statement(p) ==
    /\ Goto(p, "row")
    /\ reads' = reads \cup {Owner(p)}

RLock(p) ==
    /\ pc[p] = "mutex" /\ ~IsCommand(p)
    /\ writer[call[p].inst] = {}
    /\ readers' = [readers EXCEPT ![call[p].inst] = @ \cup {p}]
    /\ Statement(p)
    /\ UNCHANGED <<lock, newer, writer, call, session, wrote, loopVars>>

Announce(p) ==
    /\ pc[p] = "mutex" /\ IsCommand(p)
    /\ writer[call[p].inst] = {}
    /\ writer' = [writer EXCEPT ![call[p].inst] = {p}]
    /\ Goto(p, "drain")
    /\ UNCHANGED <<rowVars, readers, call, session, wrote, loopVars>>

Drain(p) ==
    /\ pc[p] = "drain"
    /\ readers[call[p].inst] = {}
    /\ Statement(p)
    /\ UNCHANGED <<lock, newer, mutexVars, call, session, wrote, loopVars>>

\* PostgreSQL refuses a row that was committed since the snapshot.
Overtaken(p) == call[p].id \in newer[Owner(p)]

\* The row is free and as the snapshot has it: the lock is taken.  In a
\* session the lock outlives the savepoint that the call runs in.
LockRow(p) ==
    /\ pc[p] = "row"
    /\ Blockers(p) = {} /\ ~Overtaken(p)
    /\ lock' = [lock EXCEPT ![Owner(p)][call[p].id] = Stronger(@, Strength(call[p].op))]
    /\ IF call[p].via = "session"
       THEN /\ Goto(p, "body")
            /\ call' = [call EXCEPT ![p] = NoCall]
            /\ wrote' = IF IsCommand(p)
                        THEN [wrote EXCEPT ![p] = @ \cup {call[p].id}] ELSE wrote
            /\ tries' = [tries EXCEPT ![p] = 0]
       ELSE /\ Goto(p, "commit")
            /\ UNCHANGED <<call, wrote, tries>>
    /\ UNCHANGED <<reads, newer, mutexVars, session, steps, attempt>>

-----------------------------------------------------------------------------
(* Calls end.                                                              *)

\* The deferred unlock, and back to the caller or to the callback.
Leave(p) ==
    /\ readers' = [x \in Instances |->
          IF call[p].via = "direct" THEN readers[x] \ {p} ELSE readers[x]]
    /\ writer' = [x \in Instances |->
          IF call[p].via = "direct" THEN writer[x] \ {p} ELSE writer[x]]
    /\ call' = [call EXCEPT ![p] = NoCall]
    /\ tries' = [tries EXCEPT ![p] = 0]
    /\ Goto(p, IF session[p] THEN "body" ELSE "idle")

\* A transaction ends: its locks and its snapshot are gone, and the rows it
\* has committed are newer than what the other transactions see.
Ended(t, rows) ==
    /\ lock' = [lock EXCEPT ![t] = NoLocks]
    /\ reads' = reads \ {t}
    /\ newer' = [u \in Transactions |->
          IF u \in reads \ {t} THEN newer[u] \cup rows ELSE {}]

\* The transaction of a direct call commits before the method returns: what
\* LockReadOnly and LockWriteOnly locked is free again.
CommitCall(p) ==
    /\ pc[p] = "commit"
    /\ Ended(Owner(p), IF IsCommand(p) THEN {call[p].id} ELSE {})
    /\ Leave(p)
    /\ UNCHANGED <<session, wrote, steps, attempt>>

RetryCall_OneMore(p) ==
    /\ tries[p] < MaxAttempts
    /\ tries' = [tries EXCEPT ![p] = @ + 1]
    /\ Goto(p, "row")
    /\ UNCHANGED <<rowVars, mutexVars, call, session, wrote, steps, attempt>>

RetryCall_Uncounted(p) ==
    /\ tries[p] < MaxAttempts - 1
    /\ Goto(p, "row")
    /\ UNCHANGED <<rowVars, mutexVars, call, session, wrote, loopVars>>

\* A rejected call runs its transaction again, under the mutex; inside a
\* session the savepoint undoes it, and the locks from before it remain.
RetryCall(p) ==
    /\ tries[p] < MaxAttempts - 1
    /\ tries' = [tries EXCEPT ![p] = @ + 1]
    /\ IF call[p].via = "direct"
       THEN /\ newer' = [newer EXCEPT ![Owner(p)] = {}]
            /\ lock' = [lock EXCEPT ![Owner(p)] = NoLocks]
       ELSE UNCHANGED <<lock, newer>>
    /\ Goto(p, "row")
    /\ UNCHANGED <<reads, mutexVars, call, session, wrote, steps, attempt>>

\* The call returns its error.
FailCall(p) ==
    /\ IF call[p].via = "direct" THEN Ended(Owner(p), {}) ELSE UNCHANGED rowVars
    /\ Leave(p)
    /\ UNCHANGED <<session, wrote, steps, attempt>>

\* Transactions that wait for one another, as PostgreSQL sees it.
TxWaits(t) == IF pc[t[1]] = "row" /\ Owner(t[1]) = t THEN Blockers(t[1]) ELSE {}
Deadlocked(p) ==
    \E T \in SUBSET Transactions :
        Owner(p) \in T /\ \A t \in T : TxWaits(t) \cap T # {}

\* 40001 or 40P01, once the row has been overtaken or a cycle was found.
Rejected(p) ==
    /\ pc[p] = "row"
    /\ Overtaken(p) \/ Deadlocked(p)
    /\ RetryCall(p) \/ (tries[p] = MaxAttempts - 1 /\ FailCall(p))

\* The caller's context ends while PostgreSQL keeps it waiting, or the
\* statement fails.  A goroutine that waits for a mutex watches no context.
Cancelled(p) == pc[p] = "row" /\ FailCall(p)

\* The callback returns nil and the transaction commits.
CommitSession(p) ==
    /\ pc[p] = "body"
    /\ Ended(<<p, "session">>, wrote[p])
    /\ session' = [session EXCEPT ![p] = FALSE]
    /\ wrote' = [wrote EXCEPT ![p] = {}]
    /\ steps' = [steps EXCEPT ![p] = 0]
    /\ attempt' = [attempt EXCEPT ![p] = 0]
    /\ Goto(p, "idle")
    /\ UNCHANGED <<mutexVars, call, tries>>

\* It returns an error, or PostgreSQL rejects the COMMIT: everything is
\* undone, and runWithRetry goes round again or gives up.
RollBackSession(p) ==
    /\ pc[p] = "body"
    /\ Ended(<<p, "session">>, {})
    /\ wrote' = [wrote EXCEPT ![p] = {}]
    /\ steps' = [steps EXCEPT ![p] = 0]
    /\ \/ /\ attempt[p] < MaxAttempts - 1
          /\ attempt' = [attempt EXCEPT ![p] = @ + 1]
          /\ UNCHANGED <<session, pc>>
       \/ /\ attempt' = [attempt EXCEPT ![p] = 0]
          /\ session' = [session EXCEPT ![p] = FALSE]
          /\ Goto(p, "idle")
    /\ UNCHANGED <<mutexVars, call, tries>>

Next ==
    \E p \in Procs :
       \/ Direct(p) \/ Tx(p) \/ InSession(p)
       \/ RLock(p) \/ Announce(p) \/ Drain(p) \/ LockRow(p)
       \/ CommitCall(p) \/ Rejected(p) \/ Cancelled(p)
       \/ CommitSession(p) \/ RollBackSession(p)

Spec == Init /\ [][Next]_vars

\* Goroutines run and callbacks return; the server finds its deadlocks; both
\* kinds of lock are handed out in turn.
FairSpec ==
    /\ Spec
    /\ \A p \in Procs :
          /\ WF_vars(CommitCall(p) \/ Rejected(p))
          /\ WF_vars(CommitSession(p) \/ RollBackSession(p))
          /\ SF_vars(RLock(p) \/ Announce(p)) /\ WF_vars(Drain(p))
          /\ SF_vars(LockRow(p))

-----------------------------------------------------------------------------
(* Properties.                                                             *)

TypeOK ==
    /\ lock \in [Transactions -> [Ids -> Strengths \cup {"none"}]]
    /\ reads \subseteq Transactions
    /\ newer \in [Transactions -> SUBSET Ids]
    /\ readers \in [Instances -> SUBSET Procs]
    /\ writer \in [Instances -> SUBSET Procs]
    /\ pc \in [Procs -> {"idle", "mutex", "drain", "row", "commit", "body"}]
    /\ call \in [Procs -> Call \cup {NoCall}]
    /\ session \in [Procs -> BOOLEAN]
    /\ wrote \in [Procs -> SUBSET Ids]
    /\ steps \in [Procs -> 0 .. MaxSteps]
    /\ attempt \in [Procs -> 0 .. MaxAttempts - 1]
    /\ tries \in [Procs -> 0 .. MaxAttempts - 1]

\* A row that a session has locked, for reading too, is and stays the row it
\* saw, until the session ends: read, decide, write loses no update.
LockedRowsStay ==
    \A p \in Procs, i \in Ids :
        lock[<<p, "session">>][i] # "none" => i \notin newer[<<p, "session">>]

\* A goroutine that waits, and for whom.
Waits(p) ==
    CASE pc[p] = "mutex" -> writer[call[p].inst]
      [] pc[p] = "drain" -> readers[call[p].inst]
      [] pc[p] = "row"   -> {t[1] : t \in Blockers(p)}
      [] OTHER           -> {}

CallsParent(p) == session[p] /\ call[p] # NoCall /\ call[p].via = "direct"

\* Goroutines that wait for each other for ever, the mutexes included, wait
\* where PostgreSQL's deadlock detector sees them, unless the callback of a
\* session among them calls an instance from outside.
UnseenDeadlockNeedsParentCall ==
    \A S \in SUBSET Procs :
        (\E f \in Bijection(S, S) : \A p \in S : f[p] \in Waits(p))
            => \/ \E p \in S : CallsParent(p)
               \/ \A p \in S : pc[p] = "row" /\ Deadlocked(p)

\* If no callback does that, every call and every session comes back: the
\* mutex is never held across a wait that nothing ends.
CallsReturn ==
    [](\A p \in Procs : ~CallsParent(p)) =>
        \A p \in Procs : pc[p] # "idle" ~> pc[p] = "idle"
=============================================================================
