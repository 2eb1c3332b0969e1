--------------------------- MODULE RowLocksProofs ---------------------------
(***************************************************************************)
(* What a row lock of a session protects, for any number of goroutines,    *)
(* instances and rows, and any bounds of the retry loops.                  *)
(***************************************************************************)
EXTENDS RowLocks, FiniteSetTheorems, TLAPS

USE DEF vars, mutexVars, rowVars, loopVars, Goto

\* The locks that go with changing a row.
Writing == {"NO KEY UPDATE", "UPDATE"}

\* A goroutine is in a call from its mutex to its end; one that has locked its
\* row and not yet returned runs a transaction of its own.
CallsAreCalls ==
    \A p \in Procs :
        /\ pc[p] \in {"mutex", "drain", "row", "commit"} => call[p] \in Call
        /\ pc[p] \in {"mutex", "drain", "commit"} => call[p].via = "direct"

\* A row that one transaction has locked for writing, no other has locked.
WritersExclude ==
    \A t, u \in Transactions, i \in Ids :
        t # u /\ lock[t][i] \in Writing => lock[u][i] = "none"

\* What a transaction is about to commit, it has locked for writing.
WrittenIsLocked ==
    \A p \in Procs :
        /\ \A i \in wrote[p] : lock[<<p, "session">>][i] \in Writing
        /\ pc[p] = "commit" /\ IsCommand(p) =>
              lock[<<p, "direct">>][call[p].id] \in Writing

NoKeyShare == \A t \in Transactions, i \in Ids : lock[t][i] # "KEY SHARE"

LockInv ==
    /\ TypeOK /\ CallsAreCalls /\ NoKeyShare
    /\ WritersExclude /\ WrittenIsLocked /\ LockedRowsStay

LEMMA InitLocks == Init => LockInv
<1>1. SUFFICES ASSUME Init PROVE LockInv
  OBVIOUS
<1>2. \A t \in Transactions, i \in Ids : lock[t][i] = "none" /\ newer[t] = {}
  BY <1>1 DEF Init, NoLocks
<1>3. \A p \in Procs : pc[p] = "idle" /\ wrote[p] = {}
  BY <1>1 DEF Init
<1>4. TypeOK
  BY <1>1, BoundsAreNumbers DEF Init, TypeOK, NoLocks
<1>5. CallsAreCalls
  BY <1>3 DEF CallsAreCalls
<1>6. NoKeyShare /\ WritersExclude
  BY <1>2 DEF NoKeyShare, WritersExclude, Writing
<1>7. WrittenIsLocked
  BY <1>3 DEF WrittenIsLocked
<1>8. LockedRowsStay
  BY <1>2 DEF LockedRowsStay, Transactions
<1>9. QED
  BY <1>4, <1>5, <1>6, <1>7, <1>8 DEF LockInv

\* No statement asks for KEY SHARE, and the stronger of two locks is one of
\* them, the writing one if there is one.
LEMMA LocksOfStatements ==
    ASSUME NEW a \in Strengths \cup {"none"}, a # "KEY SHARE", NEW op \in Operations
    PROVE  /\ Strength(op) \in {"SHARE"} \cup Writing
           /\ Stronger(a, Strength(op)) \in {"SHARE"} \cup Writing
           /\ Stronger(a, Strength(op)) \in Writing <=>
                 a \in Writing \/ Strength(op) \in Writing
           /\ op = "Update" => Strength(op) \in Writing
<1>1. /\ Beside("SHARE") = {"KEY SHARE", "SHARE"}
      /\ Beside("NO KEY UPDATE") = {"KEY SHARE"}
      /\ Beside("UPDATE") = {}
  BY DEF Beside
<1>2. CASE op = "LockReadOnly"
  BY <1>1, <1>2 DEF Strength, Stronger, Strengths, Writing, Beside
<1>3. CASE op = "LockWriteOnly"
  BY <1>1, <1>3 DEF Strength, Stronger, Strengths, Writing, Beside
<1>4. CASE op = "Update"
  BY <1>1, <1>4 DEF Strength, Stronger, Strengths, Writing, Beside
<1>5. QED
  BY <1>2, <1>3, <1>4 DEF Operations

\* A statement that has not locked its row yet touches no row.
LEMMA BeginKeepsLocks ==
    ASSUME LockInv, NEW p \in Procs,
           \/ Direct(p) \/ Tx(p) \/ InSession(p)
           \/ RLock(p) \/ Announce(p) \/ Drain(p)
    PROVE  LockInv'
<1>1. /\ UNCHANGED <<lock, newer, session, wrote, attempt, tries>> \/ Tx(p)
      /\ UNCHANGED <<lock, newer, wrote>>
  BY DEF Direct, Tx, InSession, RLock, Announce, Drain, Statement
<1>2. TypeOK'
  <2>1. CASE Direct(p) \/ InSession(p)
    <3>1. steps' \in [Procs -> 0 .. MaxSteps]
      BY <2>1, BoundsAreNumbers DEF LockInv, TypeOK, CanCall, Direct, InSession
    <3>2. call' \in [Procs -> Call \cup {NoCall}]
      BY <2>1 DEF LockInv, TypeOK, Call, Direct, InSession
    <3>3. reads' \subseteq Transactions
      BY <2>1 DEF LockInv, TypeOK, Direct, InSession, Transactions
    <3>4. QED
      BY <2>1, <3>1, <3>2, <3>3 DEF LockInv, TypeOK, Direct, InSession
  <2>2. CASE Tx(p)
    BY <2>2 DEF LockInv, TypeOK, Tx
  <2>3. CASE RLock(p) \/ Announce(p) \/ Drain(p)
    <3>1. Owner(p) \in Transactions /\ call[p].inst \in Instances
      BY <2>3 DEF LockInv, CallsAreCalls, Call, Owner, Transactions, RLock, Announce, Drain
    <3>2. /\ readers' \in [Instances -> SUBSET Procs]
          /\ writer' \in [Instances -> SUBSET Procs]
          /\ reads' \subseteq Transactions
      <4>1. /\ readers' = readers \/ readers' = [readers EXCEPT ![call[p].inst] = @ \cup {p}]
            /\ writer' = writer \/ writer' = [writer EXCEPT ![call[p].inst] = {p}]
            /\ reads' = reads \/ reads' = reads \cup {Owner(p)}
        BY <2>3 DEF RLock, Announce, Drain, Statement
      <4>2. /\ readers \in [Instances -> SUBSET Procs]
            /\ writer \in [Instances -> SUBSET Procs]
            /\ reads \subseteq Transactions
        BY DEF LockInv, TypeOK
      <4>3. readers' \in [Instances -> SUBSET Procs]
        BY <3>1, <4>1, <4>2
      <4>4. writer' \in [Instances -> SUBSET Procs]
        BY <3>1, <4>1, <4>2
      <4>5. QED
        BY <3>1, <4>1, <4>2, <4>3, <4>4
    <3>3. QED
      BY <2>3, <3>2 DEF LockInv, TypeOK, RLock, Announce, Drain, Statement
  <2>4. QED
    BY <2>1, <2>2, <2>3
<1>3. CallsAreCalls'
  BY DEF LockInv, TypeOK, CallsAreCalls, Call, CanCall, Direct, Tx, InSession,
         RLock, Announce, Drain, Statement
<1>4. NoKeyShare' /\ WritersExclude' /\ LockedRowsStay'
  BY <1>1 DEF LockInv, NoKeyShare, WritersExclude, LockedRowsStay
<1>5. WrittenIsLocked'
  <2>1. ASSUME NEW q \in Procs, pc'[q] = "commit"
        PROVE  pc[q] = "commit" /\ call'[q] = call[q]
    <3>1. CASE Direct(p) \/ InSession(p)
      <4>1. /\ \E label \in {"mutex", "row"} : pc' = [pc EXCEPT ![p] = label]
            /\ \E c : call' = [call EXCEPT ![p] = c]
        BY <3>1 DEF Direct, InSession
      <4>2. QED
        BY <2>1, <4>1 DEF LockInv, TypeOK
    <3>2. CASE Tx(p) \/ RLock(p) \/ Announce(p) \/ Drain(p)
      <4>1. /\ \E label \in {"body", "row", "drain"} : pc' = [pc EXCEPT ![p] = label]
            /\ call' = call
        BY <3>2 DEF Tx, RLock, Announce, Drain, Statement
      <4>2. QED
        BY <2>1, <4>1 DEF LockInv, TypeOK
    <3>3. QED
      BY <3>1, <3>2
  <2>2. QED
    BY <1>1, <2>1 DEF LockInv, WrittenIsLocked, IsCommand
<1>6. QED
  BY <1>2, <1>3, <1>4, <1>5 DEF LockInv

\* The lock is taken beside none that excludes it, on a row nobody has
\* committed since the snapshot.
LEMMA LockRowKeepsLocks ==
    ASSUME LockInv, NEW p \in Procs, LockRow(p)
    PROVE  LockInv'
<1> DEFINE me == Owner(p)
           id == call[p].id
           mine == Stronger(lock[me][id], Strength(call[p].op))
<1>1. /\ pc[p] = "row" /\ call[p] \in Call /\ me \in Transactions /\ id \in Ids
      /\ call[p].op \in Operations /\ call[p].via \in {"session", "direct"}
      /\ me = <<p, call[p].via>>
  BY DEF LockInv, CallsAreCalls, LockRow, Call, Owner, Transactions
<1>2. /\ lock' = [lock EXCEPT ![me][id] = mine]
      /\ UNCHANGED newer /\ id \notin newer[me]
  BY DEF LockRow, Overtaken
<1>3. /\ lock[me][id] \in Strengths \cup {"none"} /\ lock[me][id] # "KEY SHARE"
      /\ mine \in {"SHARE"} \cup Writing
      /\ mine \in Writing <=> lock[me][id] \in Writing \/ Strength(call[p].op) \in Writing
      /\ Strength(call[p].op) \in {"SHARE"} \cup Writing
      /\ call[p].op = "Update" => mine \in Writing
  <2>1. lock[me][id] \in Strengths \cup {"none"} /\ lock[me][id] # "KEY SHARE"
    BY <1>1 DEF LockInv, TypeOK, NoKeyShare
  <2>2. QED
    BY <1>1, <2>1, LocksOfStatements
<1>4. \A t \in Transactions, i \in Ids :
         lock'[t][i] = IF t = me /\ i = id THEN mine ELSE lock[t][i]
  BY <1>1, <1>2 DEF LockInv, TypeOK
<1>5. \A t \in Transactions \ {me} :
         /\ lock[t][id] \notin Writing
         /\ Strength(call[p].op) \in Writing => lock[t][id] = "none"
  <2>1. \A t \in Transactions \ {me} :
           lock[t][id] \in Beside(Strength(call[p].op)) \cup {"none"}
    BY DEF LockRow, Blockers
  <2>2. \A t \in Transactions : lock[t][id] # "KEY SHARE"
    BY <1>1 DEF LockInv, NoKeyShare
  <2>3. QED
    BY <1>3, <2>1, <2>2 DEF Beside, Writing
<1> HIDE DEF me, id, mine
<1>6. TypeOK'
  <2>1. lock' \in [Transactions -> [Ids -> Strengths \cup {"none"}]]
    BY <1>1, <1>2, <1>3 DEF LockInv, TypeOK, Strengths, Writing
  <2>2. wrote' = wrote \/ wrote' = [wrote EXCEPT ![p] = @ \cup {id}]
    BY DEF LockRow, id
  <2>3. wrote' \in [Procs -> SUBSET Ids]
    BY <1>1, <2>2 DEF LockInv, TypeOK
  <2>4. \E label \in {"commit", "body"} : pc' = [pc EXCEPT ![p] = label]
    BY DEF LockRow
  <2>5. pc' \in [Procs -> {"idle", "mutex", "drain", "row", "commit", "body"}]
    BY <2>4 DEF LockInv, TypeOK
  <2>6. call' = call \/ call' = [call EXCEPT ![p] = NoCall]
    BY DEF LockRow
  <2>7. call' \in [Procs -> Call \cup {NoCall}]
    BY <2>6 DEF LockInv, TypeOK
  <2>8. tries' = tries \/ tries' = [tries EXCEPT ![p] = 0]
    BY DEF LockRow
  <2>9. tries' \in [Procs -> 0 .. MaxAttempts - 1]
    BY <2>8, BoundsAreNumbers DEF LockInv, TypeOK
  <2>10. QED
    BY <2>1, <2>3, <2>5, <2>7, <2>9 DEF LockInv, TypeOK, LockRow
<1>7. CallsAreCalls'
  BY <1>1 DEF LockInv, TypeOK, CallsAreCalls, LockRow
<1>8. NoKeyShare'
  BY <1>3, <1>4 DEF LockInv, NoKeyShare, Writing
<1>9. WritersExclude'
  <2>1. SUFFICES ASSUME NEW t \in Transactions, NEW u \in Transactions, NEW i \in Ids,
                        t # u, lock'[t][i] \in Writing
                 PROVE  lock'[u][i] = "none"
    BY DEF WritersExclude
  <2>2. CASE i # id \/ (t # me /\ u # me)
    BY <1>4, <2>1, <2>2 DEF LockInv, WritersExclude
  <2>3. CASE i = id /\ t = me
    <3>1. lock[me][id] \in Writing \/ Strength(call[p].op) \in Writing
      BY <1>3, <1>4, <2>1, <2>3
    <3>2. lock[me][id] \in Writing => lock[u][id] = "none"
      BY <1>1, <2>1, <2>3 DEF LockInv, WritersExclude
    <3>3. lock'[u][i] = lock[u][id]
      BY <1>4, <2>1, <2>3
    <3>4. QED
      BY <1>5, <2>1, <2>3, <3>1, <3>2, <3>3
  <2>4. CASE i = id /\ u = me
    BY <1>4, <1>5, <2>1, <2>4
  <2>5. QED
    BY <2>2, <2>3, <2>4
<1>10. WrittenIsLocked'
  <2>1. SUFFICES ASSUME NEW q \in Procs
                 PROVE  /\ \A i \in wrote'[q] : lock'[<<q, "session">>][i] \in Writing
                        /\ pc'[q] = "commit" /\ IsCommand(q)' =>
                              lock'[<<q, "direct">>][call'[q].id] \in Writing
    BY DEF WrittenIsLocked
  <2>2. \A i \in Ids, via \in {"session", "direct"} :
           lock[<<q, via>>][i] \in Writing => lock'[<<q, via>>][i] \in Writing
    BY <1>3, <1>4 DEF Transactions
  <2>3. ASSUME NEW i \in wrote'[q] PROVE lock'[<<q, "session">>][i] \in Writing
    <3>1. i \in Ids
      BY <1>6, <2>3 DEF TypeOK
    <3>2. i \in wrote[q] \/ (q = p /\ me = <<p, "session">> /\ i = id /\ IsCommand(p))
      <4>1. wrote' = wrote \/ (me = <<p, "session">> /\ IsCommand(p)
                                 /\ wrote' = [wrote EXCEPT ![p] = @ \cup {id}])
        BY <1>1 DEF LockRow, id
      <4>2. QED
        BY <2>3, <4>1 DEF LockInv, TypeOK
    <3>3. QED
      BY <1>1, <1>3, <1>4, <2>2, <3>1, <3>2 DEF LockInv, WrittenIsLocked, IsCommand
  <2>4. ASSUME pc'[q] = "commit", IsCommand(q)'
        PROVE  lock'[<<q, "direct">>][call'[q].id] \in Writing
    <3>1. CASE q = p
      <4>1. pc'[p] # "body" /\ call' = call
        BY <2>4, <3>1 DEF LockRow, LockInv, TypeOK
      <4>2. call[p].via # "session"
        BY <4>1 DEF LockRow, LockInv, TypeOK
      <4>3. me = <<p, "direct">> /\ call'[q].id = id /\ mine \in Writing
        BY <1>1, <1>3, <2>4, <3>1, <4>1, <4>2 DEF IsCommand, id
      <4>4. QED
        BY <1>1, <1>3, <1>4, <3>1, <4>3
    <3>2. CASE q # p
      <4>1. pc[q] = "commit" /\ IsCommand(q) /\ call'[q] = call[q]
        BY <2>4, <3>2 DEF LockRow, LockInv, TypeOK, IsCommand
      <4>2. call[q].id \in Ids
        BY <4>1 DEF LockInv, CallsAreCalls, Call
      <4>3. QED
        BY <2>2, <4>1, <4>2 DEF LockInv, WrittenIsLocked
    <3>3. QED
      BY <3>1, <3>2
  <2>5. QED
    BY <2>3, <2>4
<1>11. LockedRowsStay'
  BY <1>1, <1>2, <1>4 DEF LockInv, LockedRowsStay, Transactions
<1>12. QED
  BY <1>6, <1>7, <1>8, <1>9, <1>10, <1>11 DEF LockInv

\* A transaction that commits rows it has locked for writing overtakes nobody
\* who has locked them.
LEMMA EndedKeepsLocks ==
    ASSUME LockInv, NEW t \in Transactions, NEW rows \in SUBSET Ids, Ended(t, rows),
           \A i \in rows : lock[t][i] \in Writing
    PROVE  /\ lock' \in [Transactions -> [Ids -> Strengths \cup {"none"}]]
           /\ reads' \subseteq Transactions
           /\ newer' \in [Transactions -> SUBSET Ids]
           /\ NoKeyShare' /\ WritersExclude' /\ LockedRowsStay'
           /\ \A u \in Transactions \ {t} : lock'[u] = lock[u]
<1>1. /\ lock' \in [Transactions -> [Ids -> Strengths \cup {"none"}]]
      /\ reads' \subseteq Transactions
      /\ newer' \in [Transactions -> SUBSET Ids]
  BY DEF LockInv, TypeOK, Ended, NoLocks
<1>2. \A u \in Transactions, i \in Ids :
         lock'[u][i] = IF u = t THEN "none" ELSE lock[u][i]
  BY DEF LockInv, TypeOK, Ended, NoLocks
<1>3. NoKeyShare'
  BY <1>2 DEF LockInv, NoKeyShare
<1>4. WritersExclude'
  <2>1. "none" \notin Writing
    BY DEF Writing
  <2>2. QED
    BY <1>2, <2>1 DEF LockInv, WritersExclude
<1>5. LockedRowsStay'
  <2>1. SUFFICES ASSUME NEW p \in Procs, NEW i \in Ids,
                        lock'[<<p, "session">>][i] # "none"
                 PROVE  i \notin newer'[<<p, "session">>]
    BY DEF LockedRowsStay
  <2> DEFINE me == <<p, "session">>
  <2>2. me \in Transactions /\ me # t /\ lock[me][i] # "none"
    BY <1>2, <2>1 DEF Transactions
  <2>3. i \notin newer[me]
    BY <2>2 DEF LockInv, LockedRowsStay
  <2>4. i \notin rows
    BY <2>2 DEF LockInv, WritersExclude
  <2>5. newer'[me] = IF me \in reads \ {t} THEN newer[me] \cup rows ELSE {}
    BY <2>2 DEF Ended
  <2>6. QED
    BY <2>3, <2>4, <2>5
<1>6. QED
  BY <1>1, <1>2, <1>3, <1>4, <1>5 DEF LockInv, TypeOK, Ended

\* A call ends: it commits, or gives up.
LEMMA CallEndKeepsLocks ==
    ASSUME LockInv, NEW p \in Procs, CommitCall(p) \/ (pc[p] = "row" /\ FailCall(p))
    PROVE  LockInv'
<1>1. /\ call[p] \in Call /\ call[p].id \in Ids /\ Owner(p) \in Transactions
      /\ Owner(p) = <<p, call[p].via>> /\ call[p].via \in {"session", "direct"}
      /\ pc[p] = "commit" => call[p].via = "direct"
      /\ Leave(p) /\ UNCHANGED <<session, wrote, steps, attempt>>
  BY DEF LockInv, CallsAreCalls, CommitCall, FailCall, Call, Owner, Transactions
<1>2. \/ UNCHANGED rowVars
      \/ /\ call[p].via = "direct"
         /\ \E rows \in SUBSET Ids :
               Ended(Owner(p), rows) /\ \A i \in rows : lock[Owner(p)][i] \in Writing
  <2>1. CASE CommitCall(p)
    <3> DEFINE rows == IF IsCommand(p) THEN {call[p].id} ELSE {}
    <3>1. pc[p] = "commit" /\ Ended(Owner(p), rows)
      BY <2>1 DEF CommitCall
    <3>2. rows \in SUBSET Ids /\ \A i \in rows : lock[Owner(p)][i] \in Writing
      BY <1>1, <3>1 DEF LockInv, WrittenIsLocked
    <3>3. QED
      BY <1>1, <3>1, <3>2
  <2>2. CASE FailCall(p)
    <3>1. CASE call[p].via = "direct"
      <4>1. Ended(Owner(p), {})
        BY <2>2, <3>1 DEF FailCall
      <4>2. QED
        BY <3>1, <4>1
    <3>2. CASE call[p].via # "direct"
      BY <2>2, <3>2 DEF FailCall
    <3>3. QED
      BY <3>1, <3>2
  <2>3. QED
    BY <2>1, <2>2
<1>3. /\ lock' \in [Transactions -> [Ids -> Strengths \cup {"none"}]]
      /\ reads' \subseteq Transactions
      /\ newer' \in [Transactions -> SUBSET Ids]
      /\ NoKeyShare' /\ WritersExclude' /\ LockedRowsStay'
      /\ \A u \in Transactions : u # <<p, "direct">> => lock'[u] = lock[u]
  <2>1. CASE UNCHANGED rowVars
    <3>1. lock' = lock /\ reads' = reads /\ newer' = newer
      BY <2>1
    <3>2. NoKeyShare' /\ WritersExclude' /\ LockedRowsStay'
      BY <3>1 DEF LockInv, NoKeyShare, WritersExclude, LockedRowsStay
    <3>3. QED
      BY <3>1, <3>2 DEF LockInv, TypeOK
  <2>2. CASE call[p].via = "direct" /\ ~UNCHANGED rowVars
    <3>1. PICK rows \in SUBSET Ids :
             Ended(Owner(p), rows) /\ \A i \in rows : lock[Owner(p)][i] \in Writing
      BY <1>2, <2>2
    <3>2. QED
      BY <1>1, <2>2, <3>1, EndedKeepsLocks
  <2>3. QED
    BY <1>2, <2>1, <2>2
<1>4. TypeOK'
  <2>1. /\ readers' \in [Instances -> SUBSET Procs]
        /\ writer' \in [Instances -> SUBSET Procs]
    BY <1>1 DEF LockInv, TypeOK, Leave
  <2>2. /\ call' \in [Procs -> Call \cup {NoCall}]
        /\ tries' \in [Procs -> 0 .. MaxAttempts - 1]
        /\ pc' \in [Procs -> {"idle", "mutex", "drain", "row", "commit", "body"}]
    BY <1>1, BoundsAreNumbers DEF LockInv, TypeOK, Leave
  <2>3. QED
    BY <1>1, <1>3, <2>1, <2>2 DEF LockInv, TypeOK
<1>5. CallsAreCalls'
  BY <1>1 DEF LockInv, TypeOK, CallsAreCalls, Leave
<1>6. WrittenIsLocked'
  <2>1. \A q \in Procs : pc'[q] = "commit" => q # p /\ pc[q] = "commit" /\ call'[q] = call[q]
    BY <1>1 DEF LockInv, TypeOK, Leave
  <2>2. QED
    BY <1>1, <1>3, <2>1
       DEF LockInv, WrittenIsLocked, IsCommand, Transactions
<1>7. QED
  BY <1>3, <1>4, <1>5, <1>6 DEF LockInv

\* A call that is run again gives up the locks and the snapshot of its own
\* transaction, and keeps those of its session.
LEMMA RetryKeepsLocks ==
    ASSUME LockInv, NEW p \in Procs, pc[p] = "row", RetryCall(p)
    PROVE  LockInv'
<1>1. /\ call[p] \in Call /\ Owner(p) \in Transactions
      /\ Owner(p) = <<p, call[p].via>> /\ call[p].via \in {"session", "direct"}
      /\ UNCHANGED <<reads, readers, writer, call, session, wrote, steps, attempt>>
      /\ pc' = [pc EXCEPT ![p] = "row"]
  BY DEF LockInv, CallsAreCalls, RetryCall, Call, Owner, Transactions
<1>2. TypeOK'
  <2>1. tries' \in [Procs -> 0 .. MaxAttempts - 1]
    BY BoundsAreNumbers DEF LockInv, TypeOK, RetryCall
  <2>2. /\ lock' = lock \/ lock' = [lock EXCEPT ![Owner(p)] = NoLocks]
        /\ newer' = newer \/ newer' = [newer EXCEPT ![Owner(p)] = {}]
    BY DEF RetryCall
  <2>3. lock' \in [Transactions -> [Ids -> Strengths \cup {"none"}]]
    <3>1. NoLocks \in [Ids -> Strengths \cup {"none"}]
      BY DEF NoLocks
    <3>2. QED
      BY <1>1, <2>2, <3>1 DEF LockInv, TypeOK
  <2>4. newer' \in [Transactions -> SUBSET Ids]
    BY <1>1, <2>2 DEF LockInv, TypeOK
  <2>5. QED
    BY <1>1, <2>1, <2>3, <2>4 DEF LockInv, TypeOK, Call, NoCall, Transactions
<1>3. CallsAreCalls'
  BY <1>1 DEF LockInv, TypeOK, CallsAreCalls
<1>4. \A t \in Transactions, i \in Ids :
         /\ t # <<p, "direct">> => lock'[t] = lock[t] /\ newer'[t] = newer[t]
         /\ lock'[t][i] \in {lock[t][i], "none"}
  <2>1. CASE call[p].via = "direct"
    <3>1. /\ lock' = [lock EXCEPT ![<<p, "direct">>] = NoLocks]
          /\ newer' = [newer EXCEPT ![<<p, "direct">>] = {}]
      BY <1>1, <2>1 DEF RetryCall
    <3>2. QED
      BY <3>1 DEF LockInv, TypeOK, NoLocks
  <2>2. CASE call[p].via # "direct"
    BY <2>2 DEF RetryCall
  <2>3. QED
    BY <2>1, <2>2
<1>5. \A t \in Transactions : t # <<p, "direct">> => lock'[t] = lock[t]
  <2>1. lock' = lock \/ lock' = [lock EXCEPT ![<<p, "direct">>] = NoLocks]
    BY <1>1 DEF RetryCall
  <2>2. QED
    BY <2>1 DEF LockInv, TypeOK
<1>6. NoKeyShare' /\ WritersExclude'
  <2>1. "none" \notin Writing
    BY DEF Writing
  <2>2. NoKeyShare'
    BY <1>4 DEF LockInv, NoKeyShare
  <2>3. WritersExclude'
    BY <1>4, <2>1 DEF LockInv, WritersExclude
  <2>4. QED
    BY <2>2, <2>3
<1>7. LockedRowsStay'
  BY <1>4 DEF LockInv, LockedRowsStay, Transactions
<1>8. WrittenIsLocked'
  <2>1. \A q \in Procs : pc'[q] = "commit" => q # p /\ pc[q] = "commit"
    BY <1>1 DEF LockInv, TypeOK
  <2>2. QED
    <3>1. \A q \in Procs : \A i \in wrote[q] : lock'[<<q, "session">>][i] \in Writing
      <4>1. \A q \in Procs : lock'[<<q, "session">>] = lock[<<q, "session">>]
        <5>1. \A q \in Procs : /\ <<q, "session">> \in Transactions
                               /\ <<q, "session">> # <<p, "direct">>
          BY DEF Transactions
        <5>2. QED
          BY <1>5, <5>1
      <4>2. QED
        BY <4>1 DEF LockInv, WrittenIsLocked
    <3>2. \A q \in Procs \ {p} : lock'[<<q, "direct">>] = lock[<<q, "direct">>]
      <4>1. \A q \in Procs \ {p} : /\ <<q, "direct">> \in Transactions
                                   /\ <<q, "direct">> # <<p, "direct">>
        BY DEF Transactions
      <4>2. QED
        BY <1>5, <4>1
    <3>3. QED
      BY <1>1, <2>1, <3>1, <3>2 DEF LockInv, WrittenIsLocked, IsCommand
<1>9. QED
  BY <1>2, <1>3, <1>6, <1>7, <1>8 DEF LockInv

\* A session ends: its rows are locked for writing until then.
LEMMA SessionEndKeepsLocks ==
    ASSUME LockInv, NEW p \in Procs, CommitSession(p) \/ RollBackSession(p)
    PROVE  LockInv'
<1>1. PICK rows \in SUBSET Ids :
         /\ Ended(<<p, "session">>, rows)
         /\ \A i \in rows : lock[<<p, "session">>][i] \in Writing
  <2>1. CASE CommitSession(p)
    <3>1. wrote[p] \in SUBSET Ids
      BY DEF LockInv, TypeOK
    <3>2. QED
      BY <2>1, <3>1 DEF LockInv, WrittenIsLocked, CommitSession
  <2>2. CASE RollBackSession(p)
    <3>1. Ended(<<p, "session">>, {})
      BY <2>2 DEF RollBackSession
    <3>2. QED
      BY <3>1
  <2>3. QED
    BY <2>1, <2>2
<1>2. <<p, "session">> \in Transactions
  BY DEF Transactions
<1>3. /\ lock' \in [Transactions -> [Ids -> Strengths \cup {"none"}]]
      /\ reads' \subseteq Transactions
      /\ newer' \in [Transactions -> SUBSET Ids]
      /\ NoKeyShare' /\ WritersExclude' /\ LockedRowsStay'
      /\ \A u \in Transactions : u # <<p, "session">> => lock'[u] = lock[u]
  BY <1>1, <1>2, EndedKeepsLocks
<1>4. /\ pc[p] = "body" /\ UNCHANGED <<readers, writer, call, tries>>
      /\ wrote' = [wrote EXCEPT ![p] = {}]
      /\ \E label \in {"idle", "body"} : pc' = [pc EXCEPT ![p] = label]
  BY DEF LockInv, TypeOK, CommitSession, RollBackSession
<1>5. TypeOK'
  <2>1. /\ steps' = [steps EXCEPT ![p] = 0]
        /\ session' = session \/ session' = [session EXCEPT ![p] = FALSE]
    BY DEF CommitSession, RollBackSession
  <2>2. attempt' \in [Procs -> 0 .. MaxAttempts - 1]
    BY BoundsAreNumbers DEF LockInv, TypeOK, CommitSession, RollBackSession
  <2>3. /\ steps' \in [Procs -> 0 .. MaxSteps]
        /\ session' \in [Procs -> BOOLEAN]
    <3>1. 0 \in 0 .. MaxSteps
      BY BoundsAreNumbers
    <3>2. steps' \in [Procs -> 0 .. MaxSteps]
      BY <2>1, <3>1 DEF LockInv, TypeOK
    <3>3. session' \in [Procs -> BOOLEAN]
      BY <2>1 DEF LockInv, TypeOK
    <3>4. QED
      BY <3>2, <3>3
  <2>4. /\ wrote' \in [Procs -> SUBSET Ids]
        /\ pc' \in [Procs -> {"idle", "mutex", "drain", "row", "commit", "body"}]
    BY <1>4 DEF LockInv, TypeOK
  <2>5. QED
    BY <1>3, <1>4, <2>2, <2>3, <2>4 DEF LockInv, TypeOK, Call, NoCall
<1>6. CallsAreCalls'
  BY <1>4 DEF LockInv, TypeOK, CallsAreCalls
<1>7. WrittenIsLocked'
  <2>1. ASSUME NEW q \in Procs
        PROVE  /\ wrote'[q] = IF q = p THEN {} ELSE wrote[q]
               /\ pc'[q] = "commit" => q # p /\ pc[q] = "commit" /\ call[q].via = "direct"
    BY <1>4 DEF LockInv, TypeOK, CallsAreCalls
  <2>2. ASSUME NEW q \in Procs, q # p
        PROVE  \A via \in {"session", "direct"} : lock'[<<q, via>>] = lock[<<q, via>>]
    BY <1>3, <2>2 DEF Transactions
  <2>3. ASSUME NEW q \in Procs, NEW i \in wrote'[q]
        PROVE  lock'[<<q, "session">>][i] \in Writing
    BY <2>1, <2>2, <2>3 DEF LockInv, WrittenIsLocked
  <2>4. ASSUME NEW q \in Procs, pc'[q] = "commit", IsCommand(q)'
        PROVE  lock'[<<q, "direct">>][call'[q].id] \in Writing
    BY <1>4, <2>1, <2>2, <2>4 DEF LockInv, WrittenIsLocked, IsCommand
  <2>5. QED
    BY <2>3, <2>4 DEF WrittenIsLocked
<1>8. QED
  BY <1>3, <1>5, <1>6, <1>7 DEF LockInv

LEMMA NextLocks == LockInv /\ [Next]_vars => LockInv'
<1>1. ASSUME LockInv, UNCHANGED vars PROVE LockInv'
  <2>1. TypeOK' /\ CallsAreCalls'
    BY <1>1 DEF LockInv, TypeOK, CallsAreCalls, Call, NoCall, Transactions, Strengths
  <2>2. NoKeyShare' /\ WritersExclude' /\ LockedRowsStay'
    BY <1>1 DEF LockInv, NoKeyShare, WritersExclude, LockedRowsStay
  <2>3. WrittenIsLocked'
    BY <1>1 DEF LockInv, WrittenIsLocked, IsCommand
  <2>4. QED
    BY <2>1, <2>2, <2>3 DEF LockInv
<1>2. ASSUME LockInv, Next PROVE LockInv'
  BY <1>2, BeginKeepsLocks, LockRowKeepsLocks, CallEndKeepsLocks, RetryKeepsLocks,
     SessionEndKeepsLocks DEF Next, Rejected, Cancelled
<1>3. QED
  BY <1>1, <1>2

LEMMA LocksHold == Spec => []LockInv
BY InitLocks, NextLocks, PTL DEF Spec

\* TypeOK: in particular neither retry loop passes its bound.
THEOREM LocksTyped == Spec => []TypeOK
<1>1. LockInv => TypeOK
  BY DEF LockInv
<1>2. QED
  BY <1>1, LocksHold, PTL

\* LockedRowsStay: between the lock and the end of the session, nobody commits
\* another version of the row.
THEOREM LocksProtectRows == Spec => []LockedRowsStay
<1>1. LockInv => LockedRowsStay
  BY DEF LockInv
<1>2. QED
  BY <1>1, LocksHold, PTL

-----------------------------------------------------------------------------
(* Deadlocks.  What a goroutine holds says where it is: a mutex, in a call *)
(* on an instance of the program; a row of such a call, at its commit; a   *)
(* row of a session, in the session.                                       *)

Holding(p) ==
    /\ pc[p] = "body" => session[p]
    /\ pc[p] = "row" /\ call[p].via = "session" => session[p]
    /\ \A x \in Instances :
          /\ p \in writer[x] =>
                pc[p] \in {"drain", "row", "commit"} /\ call[p].via = "direct"
          /\ p \in readers[x] =>
                pc[p] \in {"row", "commit"} /\ call[p].via = "direct"
    /\ \A i \in Ids :
          /\ lock[<<p, "direct">>][i] # "none" => pc[p] = "commit"
          /\ lock[<<p, "session">>][i] # "none" => session[p]

HoldInv == LockInv /\ \A p \in Procs : Holding(p)

\* A step of another goroutine takes nothing from q and gives it nothing.
LEMMA OthersHold ==
    ASSUME NEW q \in Procs, Holding(q),
           pc'[q] = pc[q], call'[q] = call[q], session'[q] = session[q],
           \A x \in Instances :
              /\ q \in writer'[x] => q \in writer[x]
              /\ q \in readers'[x] => q \in readers[x],
           \A via \in {"session", "direct"} : lock'[<<q, via>>] = lock[<<q, via>>]
    PROVE  Holding(q)'
BY DEF Holding

LEMMA InitHold == Init => HoldInv
<1> SUFFICES ASSUME Init PROVE HoldInv
  OBVIOUS
<1>1. ASSUME NEW p \in Procs PROVE Holding(p)
  <2>1. \A via \in {"session", "direct"}, i \in Ids : lock[<<p, via>>][i] = "none"
    BY DEF Init, NoLocks, Transactions
  <2>2. QED
    BY <2>1 DEF Init, Holding
<1>2. QED
  BY <1>1, InitLocks DEF HoldInv

\* A call or a session begins, or a call gets its mutex.
LEMMA BeginHolds ==
    ASSUME HoldInv, NEW p \in Procs,
           \/ Direct(p) \/ Tx(p) \/ InSession(p)
           \/ RLock(p) \/ Announce(p) \/ Drain(p)
    PROVE  \A q \in Procs : Holding(q)'
<1>1. TypeOK /\ CallsAreCalls /\ UNCHANGED lock
  BY DEF HoldInv, LockInv, Direct, Tx, InSession, RLock, Announce, Drain, Statement
<1>2. Holding(p)
  BY DEF HoldInv
<1>3. CASE Direct(p) \/ InSession(p)
  <2>1. pc[p] \in {"idle", "body"} /\ UNCHANGED <<session, readers, writer>>
    BY <1>3 DEF Direct, InSession, CanCall
  <2>2. PICK c \in Call : /\ call' = [call EXCEPT ![p] = c]
                          /\ \/ /\ c.via = "direct"
                                /\ pc' = [pc EXCEPT ![p] = "mutex"]
                             \/ /\ pc[p] = "body"
                                /\ pc' = [pc EXCEPT ![p] = "row"]
    <3>1. CASE Direct(p)
      <4>1. PICK op \in Operations, i \in Ids, x \in Instances :
               call' = [call EXCEPT ![p] =
                           [op |-> op, id |-> i, inst |-> x, via |-> "direct"]]
        BY <3>1 DEF Direct
      <4>2. [op |-> op, id |-> i, inst |-> x, via |-> "direct"] \in Call
        BY DEF Call
      <4>3. QED
        BY <3>1, <4>1, <4>2 DEF Direct
    <3>2. CASE InSession(p)
      <4>1. PICK op \in Operations, i \in Ids, x \in Instances :
               call' = [call EXCEPT ![p] =
                           [op |-> op, id |-> i, inst |-> x, via |-> "session"]]
        BY <3>2 DEF InSession
      <4>2. [op |-> op, id |-> i, inst |-> x, via |-> "session"] \in Call
        BY DEF Call
      <4>3. QED
        BY <3>2, <4>1, <4>2 DEF InSession
    <3>3. QED
      BY <1>3, <3>1, <3>2
  <2>3. call'[p] = c /\ pc'[p] \in {"mutex", "row"} /\ (pc'[p] = "row" => session[p])
    BY <1>1, <1>2, <2>2 DEF TypeOK, Holding
  <2>4. Holding(p)'
    BY <1>1, <1>2, <2>1, <2>3 DEF Holding
  <2>5. \A q \in Procs \ {p} : pc'[q] = pc[q] /\ call'[q] = call[q]
    BY <1>1, <2>2 DEF TypeOK
  <2>6. \A q \in Procs \ {p} : Holding(q)'
    BY <1>1, <2>1, <2>5, OthersHold DEF HoldInv
  <2>7. QED
    BY <2>4, <2>6
<1>4. CASE Tx(p)
  <2>1. /\ pc[p] = "idle" /\ UNCHANGED <<call, readers, writer>>
        /\ pc' = [pc EXCEPT ![p] = "body"] /\ session' = [session EXCEPT ![p] = TRUE]
    BY <1>4 DEF Tx
  <2>2. pc'[p] = "body" /\ session'[p]
    BY <1>1, <2>1 DEF TypeOK
  <2>3. Holding(p)'
    BY <1>1, <1>2, <2>1, <2>2 DEF Holding
  <2>4. \A q \in Procs \ {p} : pc'[q] = pc[q] /\ session'[q] = session[q]
    BY <1>1, <2>1 DEF TypeOK
  <2>5. \A q \in Procs \ {p} : Holding(q)'
    BY <1>1, <2>1, <2>4, OthersHold DEF HoldInv
  <2>6. QED
    BY <2>3, <2>5
<1>5. CASE RLock(p) \/ Announce(p) \/ Drain(p)
  <2> DEFINE x == call[p].inst
  <2>1. /\ pc[p] \in {"mutex", "drain"} /\ UNCHANGED <<call, session>>
        /\ \/ /\ pc' = [pc EXCEPT ![p] = "row"]
              /\ UNCHANGED writer
              /\ readers' = [readers EXCEPT ![x] = @ \cup {p}] \/ UNCHANGED readers
           \/ /\ pc' = [pc EXCEPT ![p] = "drain"] /\ pc[p] = "mutex"
              /\ UNCHANGED readers
              /\ writer' = [writer EXCEPT ![x] = {p}]
    BY <1>5 DEF RLock, Announce, Drain, Statement
  <2>2. call[p].via = "direct" /\ x \in Instances
    BY <1>1, <2>1 DEF CallsAreCalls, Call
  <2>3. /\ pc'[p] \in {"row", "drain"}
        /\ \A y \in Instances : p \in readers'[y] => pc'[p] = "row"
    BY <1>1, <1>2, <2>1, <2>2 DEF TypeOK, Holding
  <2>4. Holding(p)'
    <3>1. \A i \in Ids : lock[<<p, "direct">>][i] = "none"
      BY <1>2, <2>1 DEF Holding
    <3>2. QED
      BY <1>1, <1>2, <2>1, <2>2, <2>3, <3>1 DEF Holding
  <2>5. ASSUME NEW q \in Procs, q # p
        PROVE  /\ pc'[q] = pc[q]
               /\ \A y \in Instances : /\ q \in writer'[y] => q \in writer[y]
                                       /\ q \in readers'[y] => q \in readers[y]
    <3>1. pc'[q] = pc[q]
      BY <1>1, <2>1, <2>5 DEF TypeOK
    <3>2. ASSUME NEW y \in Instances PROVE q \in writer'[y] => q \in writer[y]
      BY <1>1, <2>1, <2>5 DEF TypeOK
    <3>3. ASSUME NEW y \in Instances PROVE q \in readers'[y] => q \in readers[y]
      BY <1>1, <2>1, <2>5 DEF TypeOK
    <3>4. QED
      BY <3>1, <3>2, <3>3
  <2>6. ASSUME NEW q \in Procs, q # p PROVE Holding(q)'
    BY <1>1, <2>1, <2>5, <2>6, OthersHold DEF HoldInv
  <2>7. QED
    BY <2>4, <2>6
<1>6. QED
  BY <1>3, <1>4, <1>5

LEMMA LockRowHolds ==
    ASSUME HoldInv, NEW p \in Procs, LockRow(p)
    PROVE  \A q \in Procs : Holding(q)'
<1>1. TypeOK /\ CallsAreCalls /\ Holding(p)
  BY DEF HoldInv, LockInv
<1>2. /\ pc[p] = "row" /\ call[p] \in Call /\ call[p].via \in {"session", "direct"}
      /\ Owner(p) = <<p, call[p].via>> /\ call[p].id \in Ids
      /\ UNCHANGED <<session, readers, writer>>
  BY <1>1 DEF LockRow, CallsAreCalls, Call, Owner
<1>3. \A t \in Transactions : t # Owner(p) => lock'[t] = lock[t]
  <2>1. \E l : lock' = [lock EXCEPT ![Owner(p)] = l]
    BY DEF LockRow
  <2>2. QED
    BY <1>1, <2>1 DEF TypeOK
<1>4. CASE call[p].via = "session"
  <2>1. pc' = [pc EXCEPT ![p] = "body"] /\ call' = [call EXCEPT ![p] = NoCall]
    BY <1>4 DEF LockRow
  <2>2. pc'[p] = "body" /\ session[p]
    BY <1>1, <1>2, <1>4, <2>1 DEF TypeOK, Holding
  <2>3. lock'[<<p, "direct">>] = lock[<<p, "direct">>]
    BY <1>2, <1>3, <1>4 DEF Transactions
  <2>4. Holding(p)'
    BY <1>1, <1>2, <1>4, <2>2, <2>3 DEF Holding
  <2>5. \A q \in Procs \ {p} : pc'[q] = pc[q] /\ call'[q] = call[q]
    BY <1>1, <2>1 DEF TypeOK
  <2>6. \A q \in Procs \ {p}, via \in {"session", "direct"} :
           lock'[<<q, via>>] = lock[<<q, via>>]
    BY <1>2, <1>3 DEF Transactions
  <2>7. \A q \in Procs \ {p} : Holding(q)'
    BY <1>2, <2>5, <2>6, OthersHold DEF HoldInv
  <2>8. QED
    BY <2>4, <2>7
<1>5. CASE call[p].via = "direct"
  <2>1. pc' = [pc EXCEPT ![p] = "commit"] /\ call' = call
    BY <1>5 DEF LockRow
  <2>2. pc'[p] = "commit"
    BY <1>1, <2>1 DEF TypeOK
  <2>3. lock'[<<p, "session">>] = lock[<<p, "session">>]
    BY <1>2, <1>3, <1>5 DEF Transactions
  <2>4. Holding(p)'
    BY <1>1, <1>2, <1>5, <2>1, <2>2, <2>3 DEF Holding
  <2>5. \A q \in Procs \ {p} : pc'[q] = pc[q]
    BY <1>1, <2>1 DEF TypeOK
  <2>6. \A q \in Procs \ {p}, via \in {"session", "direct"} :
           lock'[<<q, via>>] = lock[<<q, via>>]
    BY <1>2, <1>3 DEF Transactions
  <2>7. \A q \in Procs \ {p} : Holding(q)'
    BY <1>2, <2>1, <2>5, <2>6, OthersHold DEF HoldInv
  <2>8. QED
    BY <2>4, <2>7
<1>6. QED
  BY <1>2, <1>4, <1>5

\* A call ends and takes its mutex, and its own transaction's locks, with it.
LEMMA CallEndHolds ==
    ASSUME HoldInv, NEW p \in Procs, CommitCall(p) \/ (pc[p] = "row" /\ FailCall(p))
    PROVE  \A q \in Procs : Holding(q)'
<1>1. TypeOK /\ CallsAreCalls /\ Holding(p)
  BY DEF HoldInv, LockInv
<1>2. /\ pc[p] \in {"row", "commit"} /\ call[p] \in Call
      /\ call[p].via \in {"session", "direct"} /\ Owner(p) = <<p, call[p].via>>
      /\ pc[p] = "commit" => call[p].via = "direct"
      /\ Leave(p) /\ UNCHANGED session
  BY <1>1 DEF CommitCall, FailCall, CallsAreCalls, Call, Owner
<1>3. /\ call[p].via = "session" => lock' = lock
      /\ call[p].via = "direct" => lock' = [lock EXCEPT ![<<p, "direct">>] = NoLocks]
  BY <1>2 DEF CommitCall, FailCall, Ended
<1>4. \A t \in Transactions : t # <<p, "direct">> => lock'[t] = lock[t]
  BY <1>1, <1>2, <1>3 DEF TypeOK
<1>5. \A i \in Ids : lock'[<<p, "direct">>][i] = "none"
  <2>1. CASE call[p].via = "session"
    BY <1>1, <1>2, <1>3, <2>1 DEF Holding
  <2>2. CASE call[p].via = "direct"
    BY <1>1, <1>3, <2>2 DEF TypeOK, Transactions, NoLocks
  <2>3. QED
    BY <1>2, <2>1, <2>2
<1>6. \A x \in Instances : p \notin readers'[x] /\ p \notin writer'[x]
  BY <1>1, <1>2 DEF Leave, Holding
<1>7. /\ pc' = [pc EXCEPT ![p] = IF session[p] THEN "body" ELSE "idle"]
      /\ call' = [call EXCEPT ![p] = NoCall]
  BY <1>2 DEF Leave
<1>8. pc'[p] = IF session[p] THEN "body" ELSE "idle"
  BY <1>1, <1>7 DEF TypeOK
<1>9. Holding(p)'
  <2>1. \A i \in Ids : lock'[<<p, "session">>][i] = lock[<<p, "session">>][i]
    BY <1>4 DEF Transactions
  <2>2. QED
    BY <1>1, <1>2, <1>5, <1>6, <1>8, <2>1 DEF Holding
<1>10. ASSUME NEW q \in Procs, q # p PROVE Holding(q)'
  <2>1. pc'[q] = pc[q] /\ call'[q] = call[q]
    BY <1>1, <1>7, <1>10 DEF TypeOK
  <2>2. \A x \in Instances : /\ q \in writer'[x] => q \in writer[x]
                             /\ q \in readers'[x] => q \in readers[x]
    BY <1>2 DEF Leave
  <2>3. \A via \in {"session", "direct"} : lock'[<<q, via>>] = lock[<<q, via>>]
    BY <1>4, <1>10 DEF Transactions
  <2>4. QED
    BY <1>2, <2>1, <2>2, <2>3, OthersHold DEF HoldInv
<1>11. QED
  BY <1>9, <1>10

LEMMA RetryHolds ==
    ASSUME HoldInv, NEW p \in Procs, pc[p] = "row", RetryCall(p)
    PROVE  \A q \in Procs : Holding(q)'
<1>1. TypeOK /\ CallsAreCalls
  BY DEF HoldInv, LockInv
<1>2. /\ UNCHANGED <<readers, writer, call, session>>
      /\ pc' = [pc EXCEPT ![p] = "row"] /\ pc' = pc
      /\ call[p].via \in {"session", "direct"} /\ Owner(p) = <<p, call[p].via>>
  BY <1>1 DEF RetryCall, TypeOK, CallsAreCalls, Call, Owner
<1>3. lock' = lock \/ lock' = [lock EXCEPT ![<<p, "direct">>] = NoLocks]
  BY <1>2 DEF RetryCall
<1>4. \A q \in Procs, via \in {"session", "direct"}, i \in Ids :
         lock'[<<q, via>>][i] \in {lock[<<q, via>>][i], "none"}
  <2>1. \A t \in Transactions, i \in Ids : lock'[t][i] \in {lock[t][i], "none"}
    <3>1. CASE lock' = lock
      BY <3>1
    <3>2. CASE lock' = [lock EXCEPT ![<<p, "direct">>] = NoLocks]
      BY <1>1, <3>2 DEF TypeOK, NoLocks
    <3>3. QED
      BY <1>3, <3>1, <3>2
  <2>2. QED
    BY <2>1 DEF Transactions
<1>5. \A q \in Procs, i \in Ids :
         /\ lock'[<<q, "session">>][i] # "none" => lock[<<q, "session">>][i] # "none"
         /\ lock'[<<q, "direct">>][i] # "none" => lock[<<q, "direct">>][i] # "none"
  BY <1>4
<1>6. ASSUME NEW q \in Procs PROVE Holding(q)'
  <2>1. Holding(q) /\ pc' = pc /\ UNCHANGED <<readers, writer, call, session>>
    BY <1>2 DEF HoldInv
  <2>2. QED
    BY <1>5, <2>1 DEF Holding
<1>7. QED
  BY <1>6

LEMMA SessionEndHolds ==
    ASSUME HoldInv, NEW p \in Procs, CommitSession(p) \/ RollBackSession(p)
    PROVE  \A q \in Procs : Holding(q)'
<1>1. TypeOK /\ CallsAreCalls /\ Holding(p)
  BY DEF HoldInv, LockInv
<1>2. /\ pc[p] = "body" /\ session[p] /\ UNCHANGED <<readers, writer, call>>
      /\ lock' = [lock EXCEPT ![<<p, "session">>] = NoLocks]
      /\ \/ UNCHANGED <<session, pc>>
         \/ /\ pc' = [pc EXCEPT ![p] = "idle"]
            /\ session' = [session EXCEPT ![p] = FALSE]
  BY <1>1 DEF CommitSession, RollBackSession, Ended, Holding
<1>3. \A i \in Ids : lock'[<<p, "session">>][i] = "none"
  BY <1>1, <1>2 DEF TypeOK, Transactions, NoLocks
<1>4. \A t \in Transactions : t # <<p, "session">> => lock'[t] = lock[t]
  BY <1>1, <1>2 DEF TypeOK
<1>5. (pc'[p] = "body" /\ session'[p]) \/ pc'[p] = "idle"
  BY <1>1, <1>2 DEF TypeOK
<1>6. Holding(p)'
  <2>1. lock'[<<p, "direct">>] = lock[<<p, "direct">>]
    BY <1>4 DEF Transactions
  <2>2. QED
    BY <1>1, <1>2, <1>3, <1>5, <2>1 DEF Holding
<1>7. ASSUME NEW q \in Procs, q # p PROVE Holding(q)'
  <2>1. pc'[q] = pc[q] /\ session'[q] = session[q]
    BY <1>1, <1>2, <1>7 DEF TypeOK
  <2>2. \A via \in {"session", "direct"} : lock'[<<q, via>>] = lock[<<q, via>>]
    BY <1>4, <1>7 DEF Transactions
  <2>3. QED
    BY <1>2, <2>1, <2>2, OthersHold DEF HoldInv
<1>8. QED
  BY <1>6, <1>7

LEMMA NextHold == HoldInv /\ [Next]_vars => HoldInv'
<1>1. ASSUME HoldInv, [Next]_vars PROVE LockInv'
  BY <1>1, NextLocks DEF HoldInv
<1>2. ASSUME HoldInv, UNCHANGED vars PROVE \A q \in Procs : Holding(q)'
  BY <1>2, OthersHold DEF HoldInv
<1>3. ASSUME HoldInv, Next PROVE \A q \in Procs : Holding(q)'
  BY <1>3, BeginHolds, LockRowHolds, CallEndHolds, RetryHolds, SessionEndHolds
     DEF Next, Rejected, Cancelled
<1>4. QED
  BY <1>1, <1>2, <1>3 DEF HoldInv

LEMMA HoldInvHolds == Spec => []HoldInv
BY InitHold, NextHold, PTL DEF Spec

-----------------------------------------------------------------------------

\* Who waits, and where the one it waits for is.
LEMMA WaitingFor ==
    ASSUME HoldInv, NEW p \in Procs, NEW q \in Waits(p)
    PROVE  /\ pc[p] \in {"mutex", "drain", "row"} /\ q \in Procs
           /\ pc[p] = "mutex" =>
                 pc[q] \in {"drain", "row", "commit"} /\ call[q].via = "direct"
           /\ pc[p] = "drain" =>
                 pc[q] \in {"row", "commit"} /\ call[q].via = "direct"
           /\ pc[p] = "row" =>
                 pc[q] = "commit" \/ (session[q] /\ <<q, "session">> \in Blockers(p))
<1>1. TypeOK /\ CallsAreCalls
  BY DEF HoldInv, LockInv
<1>2. CASE pc[p] = "mutex"
  <2>1. call[p].inst \in Instances
    BY <1>1, <1>2 DEF CallsAreCalls, Call
  <2>2. q \in writer[call[p].inst]
    BY <1>2 DEF Waits
  <2>3. q \in Procs
    BY <1>1, <2>1, <2>2 DEF TypeOK
  <2>4. QED
    BY <1>2, <2>1, <2>2, <2>3 DEF HoldInv, Holding
<1>3. CASE pc[p] = "drain"
  <2>1. call[p].inst \in Instances
    BY <1>1, <1>3 DEF CallsAreCalls, Call
  <2>2. q \in readers[call[p].inst]
    BY <1>3 DEF Waits
  <2>3. q \in Procs
    BY <1>1, <2>1, <2>2 DEF TypeOK
  <2>4. QED
    BY <1>3, <2>1, <2>2, <2>3 DEF HoldInv, Holding
<1>4. CASE pc[p] = "row"
  <2>1. q \in {t[1] : t \in Blockers(p)}
    BY <1>4 DEF Waits
  <2>2. PICK t \in Blockers(p) : q = t[1]
    BY <2>1
  <2>3. t \in Transactions /\ lock[t][call[p].id] # "none" /\ call[p].id \in Ids
    BY <1>1, <1>4 DEF Blockers, CallsAreCalls, Call
  <2>4. q \in Procs /\ (t = <<q, "session">> \/ t = <<q, "direct">>)
    BY <2>2, <2>3 DEF Transactions
  <2>5. CASE t = <<q, "session">>
    <3>1. lock[<<q, "session">>][call[p].id] # "none"
      BY <2>3, <2>5
    <3>2. session[q]
      BY <2>3, <2>4, <3>1 DEF HoldInv, Holding
    <3>3. QED
      BY <1>4, <2>4, <2>5, <3>2
  <2>6. CASE t = <<q, "direct">>
    <3>1. lock[<<q, "direct">>][call[p].id] # "none"
      BY <2>3, <2>6
    <3>2. pc[q] = "commit"
      BY <2>3, <2>4, <3>1 DEF HoldInv, Holding
    <3>3. QED
      BY <1>4, <2>4, <3>2
  <2>7. QED
    BY <2>4, <2>5, <2>6
<1>5. CASE pc[p] \notin {"mutex", "drain", "row"}
  BY <1>5 DEF Waits
<1>6. QED
  BY <1>2, <1>3, <1>4, <1>5

\* Goroutines whose calls over their sessions wait for one another.
LEMMA SessionsInACycle ==
    ASSUME NEW S \in SUBSET Procs, NEW f \in [S -> S],
           \A p \in S : /\ pc[p] = "row" /\ call[p].via = "session"
                        /\ <<f[p], "session">> \in Blockers(p)
    PROVE  \A p \in S : Deadlocked(p)
<1> DEFINE T == S \X {"session"}
<1>1. T \in SUBSET Transactions
  BY DEF Transactions
<1>2. ASSUME NEW t \in T PROVE TxWaits(t) \cap T # {}
  <2>1. PICK p \in S : t = <<p, "session">>
    OBVIOUS
  <2>2. TxWaits(t) = Blockers(p)
    BY <2>1 DEF TxWaits, Owner
  <2>3. <<f[p], "session">> \in T /\ <<f[p], "session">> \in Blockers(p)
    BY <2>1
  <2>4. QED
    BY <2>2, <2>3
<1>3. ASSUME NEW p \in S PROVE Owner(p) \in T
  BY <1>3 DEF Owner
<1> HIDE DEF T
<1>4. QED
  BY <1>1, <1>2, <1>3 DEF Deadlocked

\* UnseenDeadlockNeedsParentCall: whatever goroutines wait for in a circle,
\* the mutexes of the instances (Lock, RLock) included, PostgreSQL's detector
\* sees it, unless a callback of Tx calls an instance from outside.  In such a
\* circle whoever waits for a row waits for a session, and then in one: those
\* goroutines point at each other only, and, a map of finitely many onto each
\* other being one onto all of them, nobody else points at them.
THEOREM DeadlocksAreSeen == Spec => []UnseenDeadlockNeedsParentCall
<1>1. ASSUME HoldInv PROVE UnseenDeadlockNeedsParentCall
  <2>1. SUFFICES ASSUME NEW S \in SUBSET Procs, NEW f \in Bijection(S, S),
                        \A p \in S : f[p] \in Waits(p),
                        \A p \in S : ~CallsParent(p)
                 PROVE  \A p \in S : pc[p] = "row" /\ Deadlocked(p)
    BY DEF UnseenDeadlockNeedsParentCall
  <2>2. f \in [S -> S] /\ \A p, q \in S : f[p] = f[q] => p = q
    BY DEF Bijection, Injection, IsInjective
  <2>3. \A p \in S : /\ pc[p] \in {"mutex", "drain", "row"}
                     /\ session[p] => call[p].via = "session"
                     /\ call[p].via = "session" => pc[p] = "row"
    <3>1. SUFFICES ASSUME NEW p \in S
                   PROVE  /\ pc[p] \in {"mutex", "drain", "row"}
                          /\ session[p] => call[p].via = "session"
                          /\ call[p].via = "session" => pc[p] = "row"
      OBVIOUS
    <3>2. pc[p] \in {"mutex", "drain", "row"}
      BY <1>1, <2>1, WaitingFor
    <3>3. call[p] \in Call /\ (pc[p] # "row" => call[p].via = "direct")
      BY <1>1, <3>2 DEF HoldInv, LockInv, CallsAreCalls
    <3>4. call[p] # NoCall /\ call[p].via \in {"session", "direct"}
      <4>1. call[p].op # "none"
        BY <3>3 DEF Call, Operations
      <4>2. QED
        BY <3>3, <4>1 DEF Call, NoCall
    <3>5. QED
      BY <2>1, <3>2, <3>3, <3>4 DEF CallsParent
  <2> DEFINE R == {p \in S : pc[p] = "row" /\ session[p]}
  <2>4. \A p \in S : pc[p] = "row" => f[p] \in R /\ <<f[p], "session">> \in Blockers(p)
    <3>1. SUFFICES ASSUME NEW p \in S, pc[p] = "row"
                   PROVE  f[p] \in R /\ <<f[p], "session">> \in Blockers(p)
      OBVIOUS
    <3>2. f[p] \in S /\ pc[f[p]] # "commit"
      BY <2>2, <2>3
    <3>3. session[f[p]] /\ <<f[p], "session">> \in Blockers(p)
      BY <1>1, <2>1, <3>1, <3>2, WaitingFor
    <3>4. QED
      BY <2>3, <3>2, <3>3
  <2>5. \A p \in S : f[p] \in R => p \in R
    <3> DEFINE g == [p \in R |-> f[p]]
    <3>1. g \in Injection(R, R)
      BY <2>2, <2>4 DEF Injection, IsInjective
    <3>2. IsFiniteSet(R)
      BY FiniteProcs, FS_Subset
    <3>3. g \in Surjection(R, R)
      BY <3>1, <3>2, FS_Injection
    <3>4. SUFFICES ASSUME NEW p \in S, f[p] \in R PROVE p \in R
      OBVIOUS
    <3>5. PICK q \in R : g[q] = f[p]
      BY <3>3, <3>4 DEF Surjection
    <3>6. QED
      BY <2>2, <3>5
  <2>6. \A p \in S : pc[p] = "row" => p \in R
    BY <2>4, <2>5
  <2> HIDE DEF R
  <2>7. \A p \in S : pc[p] # "drain"
    <3>1. SUFFICES ASSUME NEW p \in S, pc[p] = "drain" PROVE FALSE
      OBVIOUS
    <3>2. f[p] \in S /\ pc[f[p]] # "commit"
      BY <2>2, <2>3
    <3>3. pc[f[p]] = "row"
      BY <1>1, <2>1, <3>1, <3>2, WaitingFor
    <3>4. p \in R
      BY <2>5, <2>6, <3>2, <3>3
    <3>5. QED
      BY <3>1, <3>4 DEF R
  <2>8. \A p \in S : pc[p] # "mutex"
    <3>1. SUFFICES ASSUME NEW p \in S, pc[p] = "mutex" PROVE FALSE
      OBVIOUS
    <3>2. f[p] \in S /\ pc[f[p]] \notin {"commit", "drain"}
      BY <2>2, <2>3, <2>7
    <3>3. pc[f[p]] = "row"
      BY <1>1, <2>1, <3>1, <3>2, WaitingFor
    <3>4. p \in R
      BY <2>5, <2>6, <3>2, <3>3
    <3>5. QED
      BY <3>1, <3>4 DEF R
  <2>9. \A p \in S : /\ pc[p] = "row" /\ call[p].via = "session"
                     /\ <<f[p], "session">> \in Blockers(p)
    BY <2>3, <2>4, <2>6, <2>7, <2>8 DEF R
  <2>10. QED
    BY <2>2, <2>9, SessionsInACycle
<1>2. QED
  BY <1>1, HoldInvHolds, PTL
=============================================================================
