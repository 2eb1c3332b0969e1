--------------------------- MODULE TxSessionProofs ---------------------------
(***************************************************************************)
(* Why the commit of a session overwrites nothing it has not seen, for any *)
(* numbers of callers, sessions and commands in a session.                 *)
(***************************************************************************)
EXTENDS TxSession, QueryCacheProofs

USE DEF vars, plainVars, sessionVars, backlog, Goto

Shape ==
    /\ table \subseteq Row /\ PrimaryKey(table)
    /\ pc \in [Procs -> {"idle", "set", "commit", "tx", "txquery", "committed"}]
    /\ arg = [p \in Plain |-> arg[p]]
    /\ unfinished \subseteq Commands
    /\ base \in [Sessions -> SUBSET Row]
    /\ view \in [Sessions -> SUBSET Row]
    /\ did \in [Sessions -> SUBSET Commands]
    /\ \A s \in Sessions : PrimaryKey(view[s])
    /\ \A s \in Sessions : did[s] # {} => pc[s] = "tx"
    /\ \A p \in Plain : pc[p] = "commit" => arg[p] \in Commands

\* A session sees its snapshot but for what it wrote.
SeesItsSnapshot ==
    \A s \in Sessions : \A r :
        r.id \notin Written(s) => (r \in view[s] <=> r \in base[s])

\* What it wrote is still what its snapshot has.
SnapshotsHold ==
    \A s \in Sessions : \A r :
        r.id \in Written(s) => (r \in base[s] <=> r \in table)

\* Open transactions write different rows.
WritersDiffer ==
    /\ \A s, t \in Sessions : s # t => Written(s) \cap Written(t) = {}
    /\ \A s \in Sessions, p \in Plain :
          pc[p] = "commit" => Written(s) \cap arg[p].rows = {}
    /\ \A s \in Sessions, c \in unfinished : Written(s) \cap c.rows = {}

Inv == Shape /\ SeesItsSnapshot /\ SnapshotsHold /\ WritersDiffer

\* A command leaves the rows it does not write as they were.
LEMMA OthersStay ==
    ASSUME NEW t, t \subseteq Row, PrimaryKey(t), NEW c \in Commands,
           NEW u \in Effect(t, c), NEW r, r.id \notin c.rows
    PROVE  r \in u <=> r \in t
<1>1. u \subseteq Row
  BY EffectKeepsPrimaryKey
<1>2. ASSUME r \in Row PROVE r \in u <=> r \in t
  <2>1. r.id \in Ids
    BY <1>2 DEF Row
  <2>2. \A i \in Ids : i \notin c.rows =>
           {q \in u : q.id = i} = {q \in t : q.id = i}
    BY EffectIsLocal
  <2>3. QED
    BY <2>1, <2>2
<1>3. QED
  BY <1>1, <1>2

\* The rows that are locked against a goroutine.
LEMMA LockedRows ==
    ASSUME NEW p
    PROVE  \A i : i \in LockedAgainst(p) <=>
              \/ \E q \in Plain \ {p} : pc[q] = "commit" /\ i \in arg[q].rows
              \/ \E s \in Sessions \ {p} : i \in Written(s)
              \/ \E c \in unfinished : i \in c.rows
<1> DEFINE plain == UNION {arg[q].rows : q \in {r \in Plain \ {p} : pc[r] = "commit"}}
           session == UNION {Written(s) : s \in Sessions \ {p}}
           landing == UNION {c.rows : c \in unfinished}
<1>1. \A i : i \in plain <=>
         \E q \in Plain \ {p} : pc[q] = "commit" /\ i \in arg[q].rows
  OBVIOUS
<1>2. \A i : i \in session <=> \E s \in Sessions \ {p} : i \in Written(s)
  OBVIOUS
<1>3. \A i : i \in landing <=> \E c \in unfinished : i \in c.rows
  OBVIOUS
<1>4. LockedAgainst(p) = plain \cup session \cup landing
  BY DEF LockedAgainst
<1> HIDE DEF plain, session, landing
<1>5. QED
  BY <1>1, <1>2, <1>3, <1>4

LEMMA InitInv == Init => Inv
<1>1. SUFFICES ASSUME Init PROVE Inv
  OBVIOUS
<1>2. Shape
  BY <1>1 DEF Init, Shape, PrimaryKey, Procs
<1>3. \A s \in Sessions : Written(s) = {}
  BY <1>1 DEF Init, Written
<1>4. SeesItsSnapshot
  BY <1>1 DEF Init, SeesItsSnapshot
<1>5. SnapshotsHold /\ WritersDiffer
  BY <1>3 DEF SnapshotsHold, WritersDiffer
<1>6. QED
  BY <1>2, <1>4, <1>5 DEF Inv

\* Steps that write no row and end no session.
LEMMA OtherStepsKeepInv ==
    ASSUME Inv, UNCHANGED <<table, unfinished, base, view, did>>,
           pc' \in [Procs -> {"idle", "set", "commit", "tx", "txquery", "committed"}],
           arg' = [p \in Plain |-> arg'[p]],
           \A s \in Sessions : pc'[s] = pc[s],
           \A p \in Plain : pc'[p] = "commit" => pc[p] = "commit" /\ arg'[p] = arg[p]
    PROVE  Inv'
<1>1. \A s \in Sessions : Written(s)' = Written(s)
  BY DEF Written
<1>2. Shape'
  BY DEF Inv, Shape, Procs
<1>3. SeesItsSnapshot' /\ SnapshotsHold'
  BY <1>1 DEF Inv, SeesItsSnapshot, SnapshotsHold
<1>4. WritersDiffer'
  BY <1>1 DEF Inv, WritersDiffer
<1>5. QED
  BY <1>2, <1>3, <1>4 DEF Inv

\* A plain command locks rows that no session has written.
LEMMA ExecuteKeepsInv ==
    ASSUME Inv, NEW p \in Plain, Execute(p)
    PROVE  Inv'
<1>1. PICK c \in Commands : /\ c.rows \cap LockedAgainst(p) = {}
                            /\ arg' = [arg EXCEPT ![p] = c]
  BY DEF Execute
<1>2. /\ UNCHANGED <<table, unfinished, base, view, did>>
      /\ pc' = [pc EXCEPT ![p] = "commit"]
      /\ p \in Procs /\ p \notin Sessions /\ Sessions \subseteq Procs
  BY GoroutinesDiffer DEF Execute, Procs
<1>3. \A s \in Sessions : Written(s)' = Written(s)
  BY <1>2 DEF Written
<1>4. Shape'
  <2>1. /\ pc' \in [Procs -> {"idle", "set", "commit", "tx", "txquery", "committed"}]
        /\ arg' = [q \in Plain |-> arg'[q]]
    BY <1>1, <1>2 DEF Inv, Shape
  <2>2. \A q \in Plain : pc'[q] = "commit" => arg'[q] \in Commands
    BY <1>1, <1>2 DEF Inv, Shape
  <2>3. \A s \in Sessions : pc'[s] = pc[s]
    BY <1>2 DEF Inv, Shape
  <2>4. QED
    BY <1>2, <2>1, <2>2, <2>3 DEF Inv, Shape
<1>5. SeesItsSnapshot' /\ SnapshotsHold'
  BY <1>2, <1>3 DEF Inv, SeesItsSnapshot, SnapshotsHold
<1>6. \A s \in Sessions : Written(s) \cap c.rows = {}
  BY <1>1, <1>2, LockedRows
<1>7. WritersDiffer'
  BY <1>1, <1>2, <1>3, <1>6 DEF Inv, Shape, WritersDiffer
<1>8. QED
  BY <1>4, <1>5, <1>7 DEF Inv

\* It commits rows that no session has written.
LEMMA CommitKeepsInv ==
    ASSUME Inv, NEW p \in Plain, Commit(p)
    PROVE  Inv'
<1>1. /\ pc[p] = "commit" /\ arg[p] \in Commands
      /\ table' \in Effect(table, arg[p]) \cup {table}
      /\ unfinished' \in {unfinished, unfinished \cup {arg[p]}}
      /\ pc' = [pc EXCEPT ![p] = "idle"] /\ arg' = [arg EXCEPT ![p] = NoArg]
      /\ UNCHANGED <<base, view, did>>
      /\ p \in Procs /\ p \notin Sessions /\ Sessions \subseteq Procs
  BY GoroutinesDiffer DEF Inv, Shape, Commit, Procs
<1>2. \A s \in Sessions : Written(s)' = Written(s)
  BY <1>1 DEF Written
<1>3. table' \subseteq Row /\ PrimaryKey(table')
  BY <1>1, EffectKeepsPrimaryKey DEF Inv, Shape
<1>4. Shape'
  <2>1. PrimaryKey(table)'
    BY <1>3 DEF PrimaryKey
  <2>2. QED
    BY <1>1, <1>3, <2>1 DEF Inv, Shape, PrimaryKey
<1>5. SeesItsSnapshot'
  BY <1>1, <1>2 DEF Inv, SeesItsSnapshot
<1>6. SnapshotsHold'
  <2>1. SUFFICES ASSUME NEW s \in Sessions, NEW r, r.id \in Written(s)
                 PROVE  r \in base[s] <=> r \in table'
    BY <1>1, <1>2 DEF SnapshotsHold
  <2>2. r.id \notin arg[p].rows
    BY <1>1, <2>1 DEF Inv, WritersDiffer
  <2>3. r \in table' <=> r \in table
    BY <1>1, <2>2, OthersStay DEF Inv, Shape
  <2>4. QED
    BY <2>1, <2>3 DEF Inv, SnapshotsHold
<1>7. WritersDiffer'
  BY <1>1, <1>2 DEF Inv, Shape, WritersDiffer
<1>8. QED
  BY <1>4, <1>5, <1>6, <1>7 DEF Inv

\* So does a plain command whose COMMIT lands late: its rows were locked until
\* then.
LEMMA LateCommitKeepsInv ==
    ASSUME Inv, NEW c \in unfinished, LateCommit(c)
    PROVE  Inv'
<1>1. /\ c \in Commands /\ unfinished' \subseteq unfinished
      /\ table' \in Effect(table, c) \cup {table}
      /\ UNCHANGED <<pc, arg, base, view, did>>
  BY DEF Inv, Shape, LateCommit
<1>2. \A s \in Sessions : Written(s)' = Written(s)
  BY <1>1 DEF Written
<1>3. table' \subseteq Row /\ PrimaryKey(table')
  BY <1>1, EffectKeepsPrimaryKey DEF Inv, Shape
<1>4. Shape'
  <2>1. PrimaryKey(table)'
    BY <1>3 DEF PrimaryKey
  <2>2. QED
    BY <1>1, <1>3, <2>1 DEF Inv, Shape, PrimaryKey
<1>5. SeesItsSnapshot'
  BY <1>1, <1>2 DEF Inv, SeesItsSnapshot
<1>6. SnapshotsHold'
  <2>1. SUFFICES ASSUME NEW s \in Sessions, NEW r, r.id \in Written(s)
                 PROVE  r \in base[s] <=> r \in table'
    BY <1>1, <1>2 DEF SnapshotsHold
  <2>2. r.id \notin c.rows
    BY <2>1 DEF Inv, WritersDiffer
  <2>3. r \in table' <=> r \in table
    BY <1>1, <2>2, OthersStay DEF Inv, Shape
  <2>4. QED
    BY <2>1, <2>3 DEF Inv, SnapshotsHold
<1>7. WritersDiffer'
  BY <1>1, <1>2 DEF Inv, WritersDiffer
<1>8. QED
  BY <1>4, <1>5, <1>6, <1>7 DEF Inv

\* A session begins with nothing written.
LEMMA BeginKeepsInv ==
    ASSUME Inv, NEW s \in Sessions, Begin(s)
    PROVE  Inv'
<1>1. PICK kind \in {"tx", "txquery"} : pc' = [pc EXCEPT ![s] = kind]
  BY DEF Begin
<1>2. /\ base' = [base EXCEPT ![s] = table] /\ view' = [view EXCEPT ![s] = table]
      /\ UNCHANGED <<table, unfinished, arg, did>> /\ did[s] = {}
      /\ s \in Procs /\ s \notin Plain /\ Plain \cup Sessions = Procs
  BY GoroutinesDiffer DEF Begin, Inv, Shape, InSession, Procs
<1>3. \A t \in Sessions : Written(t)' = Written(t)
  BY <1>2 DEF Written
<1>4. Written(s) = {}
  BY <1>2 DEF Written
<1>5. Shape'
  BY <1>1, <1>2 DEF Inv, Shape, PrimaryKey
<1>6. SeesItsSnapshot'
  BY <1>2, <1>3 DEF Inv, Shape, SeesItsSnapshot
<1>7. SnapshotsHold'
  BY <1>2, <1>3, <1>4 DEF Inv, Shape, SnapshotsHold
<1>8. WritersDiffer'
  BY <1>1, <1>2, <1>3 DEF Inv, Shape, WritersDiffer
<1>9. QED
  BY <1>5, <1>6, <1>7, <1>8 DEF Inv

\* A command of a session writes rows that are as its snapshot has them, and
\* that nobody else is writing.
LEMMA SessionCommandKeepsInv ==
    ASSUME Inv, NEW s \in Sessions, SessionCommand(s)
    PROVE  Inv'
<1>1. PICK c \in Commands :
         /\ view' \in {[view EXCEPT ![s] = t] : t \in Effect(view[s], c)}
         /\ c.rows \cap LockedAgainst(s) = {}
         /\ SnapshotIsCurrent(s, c.rows)
         /\ did' = [did EXCEPT ![s] = @ \cup {c}]
  BY DEF SessionCommand
<1>2. PICK u \in Effect(view[s], c) : view' = [view EXCEPT ![s] = u]
  BY <1>1
<1>3. /\ pc[s] = "tx" /\ UNCHANGED <<table, unfinished, pc, arg, base>>
      /\ view[s] \subseteq Row /\ PrimaryKey(view[s])
      /\ s \notin Plain
  BY GoroutinesDiffer DEF SessionCommand, Inv, Shape
<1>4. u \subseteq Row /\ PrimaryKey(u)
  BY <1>3, EffectKeepsPrimaryKey
<1>5. \A t \in Sessions : Written(t)' = IF t = s THEN Written(s) \cup c.rows ELSE Written(t)
  <2>1. Written(s)' = Written(s) \cup c.rows
    BY <1>1 DEF Written, Inv, Shape
  <2>2. \A t \in Sessions \ {s} : Written(t)' = Written(t)
    BY <1>1 DEF Written, Inv, Shape
  <2>3. QED
    BY <2>1, <2>2
<1>6. Shape'
  <2>1. view' \in [Sessions -> SUBSET Row] /\ did' \in [Sessions -> SUBSET Commands]
    BY <1>1, <1>2, <1>4 DEF Inv, Shape
  <2>2. \A t \in Sessions : PrimaryKey(view'[t])
    BY <1>2, <1>4 DEF Inv, Shape
  <2>3. \A t \in Sessions : PrimaryKey(view[t])'
    BY <2>2 DEF PrimaryKey
  <2>4. \A t \in Sessions : did'[t] # {} => pc'[t] = "tx"
    BY <1>1, <1>3 DEF Inv, Shape
  <2>5. QED
    BY <1>3, <2>1, <2>3, <2>4 DEF Inv, Shape, PrimaryKey
<1>7. SeesItsSnapshot'
  <2>1. SUFFICES ASSUME NEW t \in Sessions, NEW r, r.id \notin Written(t)'
                 PROVE  r \in view'[t] <=> r \in base[t]
    BY <1>3 DEF SeesItsSnapshot
  <2>2. CASE t = s
    <3>1. r.id \notin c.rows /\ r.id \notin Written(s)
      BY <1>5, <2>1, <2>2
    <3>2. r \in u <=> r \in view[s]
      BY <1>3, <3>1, OthersStay
    <3>3. view'[s] = u
      BY <1>2 DEF Inv, Shape
    <3>4. QED
      BY <2>2, <3>1, <3>2, <3>3 DEF Inv, SeesItsSnapshot
  <2>3. CASE t # s
    <3>1. view'[t] = view[t] /\ r.id \notin Written(t)
      BY <1>2, <1>5, <2>1, <2>3 DEF Inv, Shape
    <3>2. QED
      BY <3>1 DEF Inv, SeesItsSnapshot
  <2>4. QED
    BY <2>2, <2>3
<1>8. SnapshotsHold'
  <2>1. SUFFICES ASSUME NEW t \in Sessions, NEW r, r.id \in Written(t)'
                 PROVE  r \in base[t] <=> r \in table
    BY <1>3 DEF SnapshotsHold
  <2>2. CASE r.id \in Written(t)
    BY <2>2 DEF Inv, SnapshotsHold
  <2>3. CASE t = s /\ r.id \in c.rows
    <3>1. {q \in base[s] : q.id \in c.rows} = {q \in table : q.id \in c.rows}
      BY <1>1 DEF SnapshotIsCurrent, Of
    <3>2. QED
      BY <2>3, <3>1
  <2>4. QED
    BY <1>5, <2>1, <2>2, <2>3
<1>9. WritersDiffer'
  <2>1. /\ \A t \in Sessions \ {s} : c.rows \cap Written(t) = {}
        /\ \A p \in Plain : pc[p] = "commit" => c.rows \cap arg[p].rows = {}
        /\ \A d \in unfinished : c.rows \cap d.rows = {}
    BY <1>1, <1>3, LockedRows
  <2>2. \A t, v \in Sessions : t # v => Written(t)' \cap Written(v)' = {}
    BY <1>5, <2>1 DEF Inv, WritersDiffer
  <2>3. \A t \in Sessions, p \in Plain :
           pc[p] = "commit" => Written(t)' \cap arg[p].rows = {}
    BY <1>5, <2>1 DEF Inv, WritersDiffer
  <2>4. \A t \in Sessions, d \in unfinished : Written(t)' \cap d.rows = {}
    BY <1>5, <2>1 DEF Inv, WritersDiffer
  <2>5. QED
    BY <1>3, <2>2, <2>3, <2>4 DEF WritersDiffer
<1>10. QED
  BY <1>6, <1>7, <1>8, <1>9 DEF Inv

\* A session that ends changes the rows it wrote or none, and no other session
\* has written those.
LEMMA EndKeepsInv ==
    ASSUME Inv, NEW s \in Sessions, CommitSession(s) \/ RollbackSession(s)
    PROVE  Inv'
<1>1. PICK label \in {"idle", "committed"} : EndSession(s, label)
  BY DEF CommitSession, RollbackSession
<1>2. /\ pc' = [pc EXCEPT ![s] = label] /\ base' = [base EXCEPT ![s] = {}]
      /\ view' = [view EXCEPT ![s] = {}] /\ did' = [did EXCEPT ![s] = {}]
      /\ UNCHANGED <<arg, unfinished>>
      /\ s \in Procs /\ s \notin Plain /\ Plain \cup Sessions = Procs
  BY <1>1, GoroutinesDiffer DEF EndSession, Procs
<1>3. /\ table' \subseteq Row /\ PrimaryKey(table')
      /\ \A r : r.id \notin Written(s) => (r \in table' <=> r \in table)
  <2>1. CASE table' = table
    BY <2>1 DEF Inv, Shape
  <2>2. CASE CommitSession(s)
    <3>1. /\ table' = {q \in table : q.id \notin Written(s)}
                          \cup {q \in view[s] : q.id \in Written(s)}
          /\ view[s] \subseteq Row /\ PrimaryKey(view[s])
          /\ table \subseteq Row /\ PrimaryKey(table)
      BY <2>2 DEF CommitSession, Of, Inv, Shape
    <3>2. table' \subseteq Row /\ PrimaryKey(table')
      BY <3>1 DEF PrimaryKey
    <3>3. \A r : r.id \notin Written(s) => (r \in table' <=> r \in table)
      BY <3>1
    <3>4. QED
      BY <3>2, <3>3
  <2>3. QED
    BY <2>1, <2>2 DEF RollbackSession
<1>4. \A t \in Sessions : Written(t)' = IF t = s THEN {} ELSE Written(t)
  BY <1>2 DEF Written, Inv, Shape
<1>5. Shape'
  <2>1. PrimaryKey(table)'
    BY <1>3 DEF PrimaryKey
  <2>2. \A t \in Sessions : PrimaryKey(view[t])'
    BY <1>2 DEF Inv, Shape, PrimaryKey
  <2>3. /\ base' \in [Sessions -> SUBSET Row] /\ view' \in [Sessions -> SUBSET Row]
        /\ did' \in [Sessions -> SUBSET Commands]
    BY <1>2 DEF Inv, Shape
  <2>4. /\ pc' \in [Procs -> {"idle", "set", "commit", "tx", "txquery", "committed"}]
        /\ \A t \in Sessions : did'[t] # {} => pc'[t] = "tx"
        /\ \A p \in Plain : pc'[p] = "commit" => arg'[p] \in Commands
    BY <1>2 DEF Inv, Shape
  <2>5. QED
    BY <1>2, <1>3, <2>1, <2>2, <2>3, <2>4 DEF Inv, Shape
<1>6. SeesItsSnapshot'
  BY <1>2, <1>4 DEF Inv, Shape, SeesItsSnapshot
<1>7. SnapshotsHold'
  <2>1. SUFFICES ASSUME NEW t \in Sessions, NEW r, r.id \in Written(t)'
                 PROVE  r \in base'[t] <=> r \in table'
    BY DEF SnapshotsHold
  <2>2. t # s /\ r.id \in Written(t)
    BY <1>4, <2>1
  <2>3. r.id \notin Written(s)
    BY <2>2 DEF Inv, WritersDiffer
  <2>4. base'[t] = base[t]
    BY <1>2, <2>2 DEF Inv, Shape
  <2>5. QED
    BY <1>3, <2>2, <2>3, <2>4 DEF Inv, SnapshotsHold
<1>8. WritersDiffer'
  <2>1. \A t, v \in Sessions : t # v => Written(t)' \cap Written(v)' = {}
    BY <1>4 DEF Inv, WritersDiffer
  <2>2. \A t \in Sessions, p \in Plain :
           pc'[p] = "commit" => Written(t)' \cap arg[p].rows = {}
    BY <1>2, <1>4 DEF Inv, Shape, WritersDiffer
  <2>3. \A t \in Sessions, c \in unfinished : Written(t)' \cap c.rows = {}
    BY <1>4 DEF Inv, WritersDiffer
  <2>4. QED
    BY <1>2, <2>1, <2>2, <2>3 DEF WritersDiffer
<1>9. QED
  BY <1>5, <1>6, <1>7, <1>8 DEF Inv

LEMMA NextInv == Inv /\ [Next]_vars => Inv'
<1>1. SUFFICES ASSUME Inv, [Next]_vars PROVE Inv'
  OBVIOUS
<1>2. Sessions \subseteq Procs /\ Plain \subseteq Procs /\ Plain \cap Sessions = {}
  BY GoroutinesDiffer DEF Procs
<1>3. ASSUME NEW p \in Plain, Read(p) \/ Fill(p) PROVE Inv'
  <2>1. /\ UNCHANGED <<table, unfinished, base, view, did>>
        /\ \E label \in {"set", "idle"} : pc' = [pc EXCEPT ![p] = label]
        /\ \E a : arg' = [arg EXCEPT ![p] = a]
    BY <1>3 DEF Read, Fill
  <2>2. pc' \in [Procs -> {"idle", "set", "commit", "tx", "txquery", "committed"}]
    BY <1>1, <1>2, <2>1 DEF Inv, Shape
  <2>3. arg' = [q \in Plain |-> arg'[q]]
    BY <1>1, <2>1 DEF Inv, Shape
  <2>4. \A s \in Sessions : pc'[s] = pc[s]
    BY <1>1, <1>2, <2>1 DEF Inv, Shape
  <2>5. \A q \in Plain : pc'[q] = "commit" => pc[q] = "commit" /\ arg'[q] = arg[q]
    BY <1>1, <1>2, <2>1 DEF Inv, Shape
  <2>6. QED
    BY <1>1, <2>1, <2>2, <2>3, <2>4, <2>5, OtherStepsKeepInv
<1>4. ASSUME UNCHANGED <<table, unfinished, pc, arg, base, view, did>> PROVE Inv'
  BY <1>1, <1>2, <1>4, OtherStepsKeepInv DEF Inv, Shape
<1>5. ASSUME NEW s \in Sessions, SessionRead(s) \/ ExplicitCall(s) PROVE Inv'
  BY <1>4, <1>5 DEF SessionRead, ExplicitCall
<1>6. ASSUME (\E k \in Keys : Expire(k)) \/ \E e \in late : LateSet(e) PROVE Inv'
  BY <1>4, <1>6 DEF Expire, LateSet
<1>7. ASSUME UNCHANGED vars PROVE Inv'
  BY <1>4, <1>7
<1>8. QED
  BY <1>1, <1>3, <1>5, <1>6, <1>7, ExecuteKeepsInv, CommitKeepsInv, LateCommitKeepsInv,
     BeginKeepsInv, SessionCommandKeepsInv, EndKeepsInv DEF Next

LEMMA InvHolds == Spec => []Inv
BY InitInv, NextInv, PTL DEF Spec

\* SessionInv: when a session commits, the rows it replaces are the ones its
\* snapshot had.
THEOREM SessionsOverwriteNothing == Spec => []SessionInv
<1>1. ASSUME Inv PROVE SessionInv
  <2>1. SUFFICES ASSUME NEW s \in Sessions
                 PROVE  /\ view[s] \ Of(view[s], Written(s)) = base[s] \ Of(base[s], Written(s))
                        /\ Of(base[s], Written(s)) = Of(table, Written(s))
                        /\ Written(s) \cap LockedAgainst(s) = {}
    BY <1>1 DEF Inv, Shape, SessionInv
  <2>2. view[s] \ Of(view[s], Written(s)) = base[s] \ Of(base[s], Written(s))
    BY <1>1 DEF Inv, SeesItsSnapshot, Of
  <2>3. Of(base[s], Written(s)) = Of(table, Written(s))
    BY <1>1 DEF Inv, SnapshotsHold, Of
  <2>4. Written(s) \cap LockedAgainst(s) = {}
    BY <1>1, LockedRows DEF Inv, WritersDiffer
  <2>5. QED
    BY <2>2, <2>3, <2>4
<1>2. QED
  BY <1>1, InvHolds, PTL
-----------------------------------------------------------------------------
(* Who left the entries of the cache, and which of them go stale.          *)

\* The types that a step which stores or deletes an entry relies on.
CacheShape ==
    /\ cache = [k \in Keys |-> cache[k]]
    /\ filler = [k \in Keys |-> filler[k]]
    /\ res = [p \in Plain |-> res[p]]
    /\ owed = [s \in Sessions |-> owed[s]]
    /\ \A p \in Plain : pc[p] = "set" => arg[p] \in Queries /\ ~arg[p].direct

FillInv == Inv /\ CacheShape /\ FillersInv

\* A command of a session deletes the entries of all filters, and those of
\* the ids it names.
LEMMA CommandDeletes ==
    ASSUME NEW c \in Commands
    PROVE  /\ FilterKinds \X Texts \subseteq Deleted[c]
           /\ IdKinds \X (c.ids \ LongIds) \subseteq Deleted[c]
           /\ Deleted[c] = DeletedBefore(c, LastStage + 1)
BY WholeInvalidation DEF Deleted

LEMMA SessionDeletesKeys ==
    ASSUME NEW s
    PROVE  \A k : k \in DeletedBy(s) <=> \E c \in did[s] : k \in Deleted[c]
BY DEF DeletedBy

\* A key of a list is one of a filter.
LEMMA ListKeys ==
    ASSUME NEW q \in Queries, q.key[1] = "list"
    PROVE  /\ q.key \in FilterKinds \X Texts
           /\ \A t : Answer(t, q) = {FirstPage(Matching(t, q.filter), q.order)}
<1>1. q.key \in Keys
  BY QueriesAreQueries DEF Query
<1>2. q.key \in FilterKinds \X Texts
  BY <1>1 DEF Keys, IdKinds
<1>3. \A t : Answer(t, q) = List(t, q.filter, q.order)
  BY DEF Answer
<1>4. QED
  BY <1>2, <1>3 DEF List

LEMMA InitFill == Init => FillInv
<1> SUFFICES ASSUME Init PROVE FillInv
  OBVIOUS
<1>1. CacheShape
  BY DEF Init, CacheShape, Procs
<1>2. \A p \in Plain : pc[p] = "idle"
  BY DEF Init, Procs
<1>3. \A s \in Sessions : DeletedBy(s) = {}
  BY DEF Init, DeletedBy
<1>4. FillersInv
  BY <1>2, <1>3 DEF FillersInv
<1>5. QED
  BY <1>1, <1>4, InitInv DEF FillInv

\* Steps that store nothing, begin no command of a session and keep each
\* plain command where it is.
LEMMA ForgettingKeepsFillers ==
    ASSUME FillInv,
           \A k \in Keys : \/ cache'[k] = {}
                           \/ cache'[k] = cache[k] /\ filler'[k] = filler[k],
           cache' = [k \in Keys |-> cache'[k]], filler' = [k \in Keys |-> filler'[k]],
           \A p \in Plain : pc'[p] = pc[p] /\ arg'[p] = arg[p], UNCHANGED res,
           owed' = [s \in Sessions |-> owed'[s]],
           \A s \in Sessions : did'[s] \in {did[s], {}},
           \A s \in Sessions : did'[s] # {} => view'[s] = view[s] /\ owed'[s] = owed[s]
    PROVE  CacheShape' /\ FillersInv'
<1>1. \A c \in Commands : Deleted[c] \subseteq Keys
  BY CommandDeletes, DeletedKeysAreKeys
<1>2. CacheShape'
  BY DEF FillInv, CacheShape
<1>3. \A p, q \in Plain : pc'[p] = "commit" /\ q # p => pc'[q] = "idle"
  BY DEF FillInv, FillersInv
<1>4. ASSUME NEW p \in Plain, pc'[p] = "commit", NEW k \in Deleted[arg'[p]],
             cache'[k] # {}
      PROVE  filler'[k] \notin Plain
  <2>1. k \in Keys
    BY <1>1, <1>4 DEF FillInv, Inv, Shape
  <2>2. QED
    BY <1>4, <2>1 DEF FillInv, FillersInv
<1>5. ASSUME NEW s \in Sessions, NEW k \in DeletedBy(s)' \ owed'[s], cache'[k] # {},
             filler'[k] = s
      PROVE  \E q \in CachedUnder(k) :
                q.key[1] = "list" /\ cache'[k] = Answer(view'[s], q)
  <2>1. PICK c \in did'[s] : k \in Deleted[c]
    BY <1>5 DEF DeletedBy
  <2>2. did'[s] = did[s] /\ view'[s] = view[s] /\ owed'[s] = owed[s]
    BY <2>1
  <2>3. k \in DeletedBy(s) /\ c \in Commands
    BY <2>1, <2>2 DEF DeletedBy, FillInv, Inv, Shape
  <2>4. cache'[k] = cache[k] /\ filler'[k] = filler[k]
    BY <1>1, <1>5, <2>1, <2>3
  <2>5. QED
    BY <1>5, <2>2, <2>3, <2>4 DEF FillInv, FillersInv
<1>6. QED
  BY <1>2, <1>3, <1>4, <1>5 DEF FillersInv

\* A plain query reads, and later stores, while no plain command is open.
LEMMA QueryKeepsFillers ==
    ASSUME FillInv, NEW p \in Plain, Read(p) \/ Fill(p)
    PROVE  CacheShape' /\ FillersInv'
<1>1. p \in Procs /\ p \notin Sessions
  BY GoroutinesDiffer DEF Procs
<1>2. UNCHANGED <<did, view, owed>> /\ \A s \in Sessions : DeletedBy(s)' = DeletedBy(s)
  BY DEF Read, Fill, DeletedBy
<1>3. \A q \in Plain : pc[q] # "commit" /\ pc'[q] # "commit"
  BY <1>1 DEF Read, Fill, FillInv, FillersInv, Inv, Shape, Procs
<1>4. CASE Read(p)
  <2>1. PICK q \in Queries : ~q.direct /\ arg' = [arg EXCEPT ![p] = q]
                             /\ res' = [res EXCEPT ![p] = Answer(table, q)]
    BY <1>4 DEF Read
  <2>2. /\ pc' = [pc EXCEPT ![p] = "set"] /\ UNCHANGED <<cache, filler>>
    BY <1>4 DEF Read
  <2>3. CacheShape'
    BY <1>1, <1>2, <2>1, <2>2 DEF FillInv, CacheShape, Inv, Shape, Procs
  <2>4. FillersInv'
    BY <1>2, <1>3, <2>2 DEF FillInv, FillersInv, Inv, Shape
  <2>5. QED
    BY <2>3, <2>4
<1>5. CASE Fill(p)
  <2>1. /\ pc[p] = "set" /\ pc' = [pc EXCEPT ![p] = "idle"]
        /\ arg' = [arg EXCEPT ![p] = NoArg] /\ res' = [res EXCEPT ![p] = {}]
    BY <1>5 DEF Fill
  <2>2. \/ UNCHANGED <<cache, filler>>
        \/ /\ cache' = [cache EXCEPT ![arg[p].key] = res[p]]
           /\ filler' = [filler EXCEPT ![arg[p].key] = p]
    BY <1>5 DEF Fill, Store
  <2>3. CacheShape'
    BY <1>1, <1>2, <2>1, <2>2 DEF FillInv, CacheShape, Inv, Shape, Procs
  <2>4. \A s \in Sessions, k \in Keys :
           filler'[k] = s => cache'[k] = cache[k] /\ filler'[k] = filler[k]
    BY <1>1, <2>2 DEF FillInv, CacheShape
  <2>5. \A s \in Sessions : DeletedBy(s) \subseteq Keys
    BY CommandDeletes, DeletedKeysAreKeys DEF DeletedBy, FillInv, Inv, Shape
  <2>6. FillersInv'
    BY <1>2, <1>3, <2>4, <2>5 DEF FillInv, FillersInv
  <2>7. QED
    BY <2>3, <2>6
<1>6. QED
  BY <1>4, <1>5

\* A plain command deletes its entries and is alone.
LEMMA ExecuteKeepsFillers ==
    ASSUME FillInv, NEW p \in Plain, Execute(p)
    PROVE  CacheShape' /\ FillersInv'
<1>1. p \in Procs /\ p \notin Sessions
  BY GoroutinesDiffer DEF Procs
<1>2. PICK c \in Commands : arg' = [arg EXCEPT ![p] = c] /\ Invalidate(Deleted[c])
  BY DEF Execute
<1>3. /\ pc' = [pc EXCEPT ![p] = "commit"] /\ UNCHANGED <<res, did, view, owed>>
      /\ \A q \in Plain : pc[q] = "idle"
  BY DEF Execute
<1>4. /\ cache' = [k \in Keys |-> IF k \in Deleted[c] THEN {} ELSE cache[k]]
      /\ filler' = [k \in Keys |-> IF k \in Deleted[c] THEN Nobody ELSE filler[k]]
  BY <1>2 DEF Invalidate
<1>5. CacheShape'
  BY <1>1, <1>2, <1>3, <1>4 DEF FillInv, CacheShape, Inv, Shape, Procs
<1>6. \A q \in Plain : pc'[q] = IF q = p THEN "commit" ELSE "idle"
  BY <1>1, <1>3 DEF FillInv, Inv, Shape, Procs
<1>7. arg'[p] = c
  BY <1>2 DEF FillInv, Inv, Shape
<1>8. Deleted[c] \subseteq Keys /\ \A s \in Sessions : DeletedBy(s) \subseteq Keys
  BY CommandDeletes, DeletedKeysAreKeys DEF DeletedBy, FillInv, Inv, Shape
<1>9. \A s \in Sessions : DeletedBy(s)' = DeletedBy(s)
  BY <1>3 DEF DeletedBy
<1>10. \A k \in Deleted[arg'[p]] : cache'[k] = {}
  BY <1>4, <1>7, <1>8
<1>11. ASSUME NEW s \in Sessions, NEW k \in DeletedBy(s)', cache'[k] # {}
       PROVE  k \in DeletedBy(s) /\ cache'[k] = cache[k] /\ filler'[k] = filler[k]
  BY <1>4, <1>8, <1>9, <1>11
<1>12. FillersInv'
  BY <1>3, <1>6, <1>10, <1>11 DEF FillInv, FillersInv
<1>13. QED
  BY <1>5, <1>12

\* Its transaction ends and no plain command is open.
LEMMA CommitKeepsFillers ==
    ASSUME FillInv, NEW p \in Plain, Commit(p)
    PROVE  CacheShape' /\ FillersInv'
<1>1. /\ pc[p] = "commit" /\ pc' = [pc EXCEPT ![p] = "idle"]
      /\ arg' = [arg EXCEPT ![p] = NoArg]
      /\ UNCHANGED <<cache, filler, res, did, view, owed>>
  BY DEF Commit
<1>2. \A q \in Plain : pc'[q] = "idle"
  BY <1>1 DEF FillInv, FillersInv, Inv, Shape, Procs
<1>3. CacheShape'
  BY <1>1, <1>2 DEF FillInv, CacheShape
<1>4. \A s \in Sessions : DeletedBy(s)' = DeletedBy(s)
  BY <1>1 DEF DeletedBy
<1>5. FillersInv'
  BY <1>1, <1>2, <1>4 DEF FillInv, FillersInv
<1>6. QED
  BY <1>3, <1>5

\* A session stores what it sees: once it has run a command, lists only.
LEMMA SessionReadKeepsFillers ==
    ASSUME FillInv, NEW s \in Sessions, SessionRead(s)
    PROVE  CacheShape' /\ FillersInv'
<1>a. /\ UNCHANGED <<pc, arg, res, did, view>>
      /\ owed' = [t \in Sessions |-> owed'[t]]
  BY DEF SessionRead, FillInv, CacheShape
<1>b. CASE UNCHANGED <<cache, filler, owed>>
  BY <1>a, <1>b, ForgettingKeepsFillers DEF FillInv, CacheShape
<1>c. SUFFICES ASSUME ~UNCHANGED <<cache, filler, owed>>
               PROVE  CacheShape' /\ FillersInv'
  BY <1>b
<1>1. PICK q \in Queries :
         /\ pc[s] = "tx" => q.key[1] = "list"
         /\ ~q.direct
         /\ owed' = [owed EXCEPT ![s] = @ \ {q.key}]
         /\ cache' = [cache EXCEPT ![q.key] = Answer(view[s], q)]
         /\ filler' = [filler EXCEPT ![q.key] = s]
  BY <1>c DEF SessionRead, Store
<1>2. UNCHANGED <<pc, arg, res, did, view>>
  BY <1>a
<1>3. CacheShape'
  BY <1>1, <1>a DEF FillInv, CacheShape
<1>4. \A t \in Sessions : DeletedBy(t)' = DeletedBy(t) /\ DeletedBy(t) \subseteq Keys
  BY <1>2, CommandDeletes, DeletedKeysAreKeys DEF DeletedBy, FillInv, Inv, Shape
<1>5. \A p \in Plain : pc[p] = "commit" => Deleted[arg[p]] \subseteq Keys
  BY CommandDeletes, DeletedKeysAreKeys DEF FillInv, Inv, Shape
<1>6. \A k \in Keys : IF k = q.key THEN cache'[k] = Answer(view[s], q) /\ filler'[k] = s
                      ELSE cache'[k] = cache[k] /\ filler'[k] = filler[k]
  BY <1>1 DEF FillInv, CacheShape
<1>7. \A p \in Plain : pc[p] = "commit" =>
         \A k \in Deleted[arg[p]] : cache'[k] # {} => filler'[k] \notin Plain
  BY <1>5, <1>6, GoroutinesDiffer DEF FillInv, FillersInv
<1>8. ASSUME NEW t \in Sessions, NEW k \in DeletedBy(t) \ owed'[t],
             cache'[k] # {}, filler'[k] = t
      PROVE  \E r \in CachedUnder(k) : r.key[1] = "list" /\ cache'[k] = Answer(view[t], r)
  <2>1. k \in Keys
    BY <1>4
  <2>2. CASE k = q.key
    <3>1. t = s /\ cache'[k] = Answer(view[s], q)
      BY <1>6, <1>8, <2>1, <2>2
    <3>2. pc[s] = "tx"
      BY <1>8, <3>1 DEF DeletedBy, FillInv, Inv, Shape
    <3>3. q \in CachedUnder(k)
      BY <1>1, <2>2 DEF CachedUnder
    <3>4. QED
      BY <1>1, <3>1, <3>2, <3>3
  <2>3. CASE k # q.key
    <3>1. k \notin owed[t]
      BY <1>1, <1>8, <2>3 DEF FillInv, CacheShape
    <3>2. QED
      BY <1>6, <1>8, <2>1, <2>3, <3>1 DEF FillInv, FillersInv
  <2>4. QED
    BY <2>2, <2>3
<1>9. FillersInv'
  BY <1>2, <1>4, <1>7, <1>8 DEF FillInv, FillersInv
<1>10. QED
  BY <1>3, <1>9

\* A command of a session deletes every entry of a filter, so that no list of
\* the session's own is left to be wrong about what it has written; or it owes
\* the deletion of all of them.
LEMMA SessionCommandKeepsFillers ==
    ASSUME FillInv, NEW s \in Sessions, SessionCommand(s)
    PROVE  CacheShape' /\ FillersInv'
<1>1. PICK c \in Commands :
         /\ view' \in {[view EXCEPT ![s] = t] : t \in Effect(view[s], c)}
         /\ did' = [did EXCEPT ![s] = @ \cup {c}]
         /\ \/ /\ cache' = [k \in Keys |-> IF k \in Deleted[c] THEN {} ELSE cache[k]]
               /\ filler' = [k \in Keys |->
                                IF k \in Deleted[c] THEN Nobody ELSE filler[k]]
               /\ owed' = [owed EXCEPT ![s] = @ \ Deleted[c]]
            \/ /\ owed' = [owed EXCEPT ![s] = @ \cup Deleted[c]]
               /\ UNCHANGED <<cache, filler>>
  BY DEF SessionCommand, Invalidate, SessionDeletes
<1>2. \A t \in Sessions \ {s} : view'[t] = view[t] /\ owed'[t] = owed[t]
  BY <1>1 DEF FillInv, CacheShape, Inv, Shape
<1>3. UNCHANGED <<pc, arg, res>>
  BY DEF SessionCommand
<1>4. CacheShape'
  BY <1>1, <1>3 DEF FillInv, CacheShape
<1>5. \A d \in Commands : Deleted[d] \subseteq Keys
  BY CommandDeletes, DeletedKeysAreKeys
<1>6. \A k \in Keys : cache'[k] # {} =>
         /\ cache'[k] = cache[k] /\ filler'[k] = filler[k]
         /\ k \in owed[s] => k \in owed'[s] \/ k \in Deleted[c]
         /\ k \in Deleted[c] => k \in owed'[s]
         /\ k \notin owed'[s] => k \notin owed[s]
  BY <1>1 DEF FillInv, CacheShape
<1>7. ASSUME NEW p \in Plain, pc[p] = "commit", NEW k \in Deleted[arg[p]], cache'[k] # {}
      PROVE  filler'[k] \notin Plain
  <2>1. k \in Keys
    BY <1>5, <1>7 DEF FillInv, Inv, Shape
  <2>2. QED
    BY <1>6, <1>7, <2>1 DEF FillInv, FillersInv
<1>8. ASSUME NEW t \in Sessions, NEW k \in DeletedBy(t)' \ owed'[t],
             cache'[k] # {}, filler'[k] = t
      PROVE  \E r \in CachedUnder(k) : r.key[1] = "list" /\ cache'[k] = Answer(view'[t], r)
  <2>1. PICK d \in did'[t] : k \in Deleted[d]
    BY <1>8 DEF DeletedBy
  <2>2. d \in did[t] \/ (t = s /\ d = c)
    BY <1>1, <2>1 DEF FillInv, Inv, Shape
  <2>3. d \in Commands
    BY <2>2 DEF FillInv, Inv, Shape
  <2>4. /\ k \in Keys /\ cache'[k] = cache[k] /\ filler'[k] = filler[k]
        /\ t = s => k \notin Deleted[c]
    BY <1>5, <1>6, <1>8, <2>1, <2>3
  <2>5. k \in DeletedBy(t) \ owed[t]
    BY <1>2, <1>6, <1>8, <2>1, <2>2, <2>4 DEF DeletedBy
  <2>6. PICK r \in CachedUnder(k) : r.key[1] = "list" /\ cache[k] = Answer(view[t], r)
    BY <1>8, <2>4, <2>5 DEF FillInv, FillersInv
  <2>7. k \in Deleted[c]
    BY <2>6, ListKeys, CommandDeletes DEF CachedUnder
  <2>8. view'[t] = view[t]
    BY <1>2, <2>4, <2>7
  <2>9. QED
    BY <2>4, <2>6, <2>8
<1>9. FillersInv'
  BY <1>3, <1>7, <1>8 DEF FillInv, FillersInv
<1>10. QED
  BY <1>4, <1>9

\* A SET that runs late is nobody's.
LEMMA LateSetKeepsFillers ==
    ASSUME FillInv, NEW e \in late, LateSet(e)
    PROVE  CacheShape' /\ FillersInv'
<1>1. /\ cache' = [cache EXCEPT ![e[1]] = e[2]]
      /\ filler' = [filler EXCEPT ![e[1]] = Nobody]
      /\ UNCHANGED <<pc, arg, res, view, did, owed>>
  BY DEF LateSet, Store
<1>2. ASSUME NEW k \in Keys
      PROVE  filler'[k] = Nobody \/ (cache'[k] = cache[k] /\ filler'[k] = filler[k])
  <2>1. k \in DOMAIN cache /\ k \in DOMAIN filler
    BY DEF FillInv, CacheShape
  <2>2. CASE k = e[1]
    BY <1>1, <2>1, <2>2
  <2>3. CASE k # e[1]
    BY <1>1, <2>1, <2>3
  <2>4. QED
    BY <2>2, <2>3
<1>3. CacheShape'
  BY <1>1 DEF FillInv, CacheShape
<1>4. /\ \A s \in Sessions : DeletedBy(s)' = DeletedBy(s) /\ DeletedBy(s) \subseteq Keys
      /\ \A p \in Plain : pc[p] = "commit" => Deleted[arg[p]] \subseteq Keys
  BY <1>1, CommandDeletes, DeletedKeysAreKeys DEF DeletedBy, FillInv, Inv, Shape
<1>5. FillersInv'
  BY <1>1, <1>2, <1>4, GoroutinesDiffer DEF FillInv, FillersInv
<1>6. QED
  BY <1>3, <1>5

LEMMA NextFill == FillInv /\ [Next]_vars => FillInv'
<1> SUFFICES ASSUME FillInv, [Next]_vars PROVE CacheShape' /\ FillersInv'
  BY NextInv DEF FillInv
<1>1. \A s \in Sessions : s \in Procs /\ s \notin Plain
  BY GoroutinesDiffer DEF Procs
<1>2. /\ cache = [k \in Keys |-> cache[k]] /\ filler = [k \in Keys |-> filler[k]]
      /\ owed = [s \in Sessions |-> owed[s]]
  BY DEF FillInv, CacheShape
<1>3. ASSUME NEW s \in Sessions, Begin(s) PROVE CacheShape' /\ FillersInv'
  <2>1. did[s] = {}
    BY <1>3 DEF Begin, InSession, FillInv, Inv, Shape
  <2>2. /\ UNCHANGED <<cache, filler, arg, res, did, owed>>
        /\ \A p \in Plain : pc'[p] = pc[p]
        /\ \A t \in Sessions : t # s => view'[t] = view[t]
    BY <1>1, <1>3 DEF Begin, FillInv, Inv, Shape
  <2>3. QED
    BY <1>2, <2>1, <2>2, ForgettingKeepsFillers
<1>4. ASSUME NEW s \in Sessions, CommitSession(s) \/ RollbackSession(s)
      PROVE  CacheShape' /\ FillersInv'
  <2>1. PICK label \in {"idle", "committed"} : EndSession(s, label)
    BY <1>4 DEF CommitSession, RollbackSession
  <2>2. /\ UNCHANGED <<cache, filler, arg, res>>
        /\ \A p \in Plain : pc'[p] = pc[p]
        /\ did' = [did EXCEPT ![s] = {}] /\ view' = [view EXCEPT ![s] = {}]
        /\ owed' = [owed EXCEPT ![s] = {}]
    BY <1>1, <2>1 DEF EndSession, FillInv, Inv, Shape
  <2>3. /\ \A t \in Sessions : did'[t] \in {did[t], {}}
        /\ \A t \in Sessions : did'[t] # {} => view'[t] = view[t] /\ owed'[t] = owed[t]
        /\ owed' = [t \in Sessions |-> owed'[t]]
    BY <2>2 DEF FillInv, CacheShape, Inv, Shape
  <2>4. QED
    BY <1>2, <2>2, <2>3, ForgettingKeepsFillers
<1>5. ASSUME NEW l \in Keys, Expire(l) PROVE CacheShape' /\ FillersInv'
  <2>1. /\ cache' = [k \in Keys |-> IF k \in {l} THEN {} ELSE cache[k]]
        /\ filler' = [k \in Keys |-> IF k \in {l} THEN Nobody ELSE filler[k]]
        /\ UNCHANGED <<pc, arg, res, did, view, owed>>
    BY <1>5 DEF Expire, Invalidate
  <2>2. QED
    BY <1>2, <2>1, ForgettingKeepsFillers
<1>6. ASSUME UNCHANGED <<cache, filler, pc, arg, res, did, view, owed>>
      PROVE  CacheShape' /\ FillersInv'
  BY <1>2, <1>6, ForgettingKeepsFillers
<1>7. ASSUME NEW s \in Sessions, ExplicitCall(s) PROVE CacheShape' /\ FillersInv'
  BY <1>6, <1>7 DEF ExplicitCall
<1>8. ASSUME NEW c \in unfinished, LateCommit(c) PROVE CacheShape' /\ FillersInv'
  BY <1>6, <1>8 DEF LateCommit
<1>9. QED
  BY <1>3, <1>4, <1>5, <1>6, <1>7, <1>8, LateSetKeepsFillers, QueryKeepsFillers, ExecuteKeepsFillers,
     CommitKeepsFillers, SessionReadKeepsFillers, SessionCommandKeepsFillers DEF Next

LEMMA FillInvHolds == Spec => []FillInv
BY InitFill, NextFill, PTL DEF Spec

\* FillersInv: while a plain command is open no plain query fills again what it
\* has deleted, and under the keys that a session's commands have deleted it
\* leaves nothing but lists as it sees them now; the keys apart that a command
\* whose deadline was over has left undeleted.
THEOREM SessionsLeaveWhatTheySee == Spec => []FillersInv
<1>1. FillInv => FillersInv
  BY DEF FillInv
<1>2. QED
  BY <1>1, FillInvHolds, PTL

\* Where nothing commits, an entry goes stale only by being stored.
LEMMA StaleWhenStored ==
    ASSUME UNCHANGED table, NEW k \in Keys, cache'[k] \in {cache[k], {}}, ~Stale(k)
    PROVE  ~Stale(k)'
BY DEF Stale

\* An entry that its session stored before it commits, and which is current
\* then, is current after: the page shows rows that the session and the table
\* agree on, and nothing that either has comes between them.
LEMMA OwnListStaysCurrent ==
    ASSUME FillInv, OneQueryPerKey, NEW s \in Sessions, CommitSession(s),
           NEW k \in DeletedBy(s) \ owed[s], cache[k] # {}, filler[k] = s, ~Stale(k)
    PROVE  ~Stale(k)'
<1>1. PICK q \in CachedUnder(k) : q.key[1] = "list" /\ cache[k] = Answer(view[s], q)
  BY DEF FillInv, FillersInv
<1> DEFINE f == q.filter
           here == Matching(table, f)
           seen == Matching(view[s], f)
           after == Matching(table', f)
<1>2. q \in Queries /\ q.key = k /\ ~q.direct
  BY <1>1 DEF CachedUnder
<1>3. \A t : Answer(t, q) = {FirstPage(Matching(t, f), q.order)}
  BY <1>1, <1>2, ListKeys
<1>4. Current(table, k) = Answer(table, q)
  <2>1. CachedUnder(k) = {q}
    BY <1>1, <1>2 DEF CachedUnder, OneQueryPerKey
  <2>2. QED
    BY <2>1 DEF Current
<1>5. FirstPage(seen, q.order) = FirstPage(here, q.order)
  BY <1>1, <1>3, <1>4 DEF Stale
<1>6. /\ table' = {r \in table : r.id \notin Written(s)}
                     \cup {r \in view[s] : r.id \in Written(s)}
      /\ UNCHANGED cache
  BY DEF CommitSession, EndSession, Of
<1>7. /\ table \subseteq Row /\ PrimaryKey(table)
      /\ view[s] \subseteq Row /\ PrimaryKey(view[s])
  BY DEF FillInv, Inv, Shape
<1>8. table' \subseteq Row /\ PrimaryKey(table')
  BY <1>6, <1>7 DEF PrimaryKey
<1>9. /\ seen \in SUBSET Row /\ PrimaryKey(seen)
      /\ here \in SUBSET Row /\ PrimaryKey(here)
      /\ after \in SUBSET Row /\ PrimaryKey(after)
  BY <1>7, <1>8 DEF Matching, Live, PrimaryKey
<1>10. here \cap seen \subseteq after /\ after \subseteq here \cup seen
  BY <1>6 DEF Matching, Live
<1>11. FirstPage(after, q.order) = FirstPage(here, q.order)
  <2> HIDE DEF here, seen, after
  <2>1. QED
    BY <1>5, <1>9, <1>10, SamePage
<1>12. Answer(table', q) = Answer(table, q)
  BY <1>3, <1>11
<1>13. Answer(table', q) \subseteq Current(table', k)
  BY <1>1 DEF Current
<1>14. QED
  BY <1>4, <1>6, <1>12, <1>13 DEF Stale

\* The entries that a session which commits has not deleted are of rows it has
\* not written.
LEMMA OtherEntriesStay ==
    ASSUME FillInv, CommandsNameTheirRows, NEW s \in Sessions, CommitSession(s),
           NEW k \in Keys \ LongKeys, k \notin DeletedBy(s) \/ did[s] = {}
    PROVE  Current(table', k) = Current(table, k)
<1>1. table' = {r \in table : r.id \notin Written(s)}
                   \cup {r \in view[s] : r.id \in Written(s)}
  BY DEF CommitSession, Of
<1>2. CASE did[s] = {}
  <2>1. Written(s) = {}
    BY <1>2 DEF Written
  <2>2. table' = table
    BY <1>1, <2>1
  <2>3. QED
    BY <2>2
<1>3. CASE did[s] # {} /\ k \notin DeletedBy(s)
  <2>1. PICK c \in did[s] : TRUE
    BY <1>3
  <2>2. did[s] \subseteq Commands
    BY DEF FillInv, Inv, Shape
  <2>3. k \notin FilterKinds \X Texts
    BY <1>3, <2>1, <2>2, CommandDeletes DEF DeletedBy
  <2>4. PICK kind \in IdKinds, i \in Ids \ LongIds : k = <<kind, i>>
    BY <2>3 DEF Keys, LongKeys
  <2>5. i \notin Written(s)
    <3>1. SUFFICES ASSUME NEW d \in did[s], i \in d.rows PROVE FALSE
      BY DEF Written
    <3>2. i \in d.ids
      BY <2>2, <3>1 DEF CommandsNameTheirRows
    <3>3. k \in Deleted[d]
      BY <2>2, <2>4, <3>2, CommandDeletes
    <3>4. QED
      BY <1>3, <3>3 DEF DeletedBy
  <2>6. {r \in table' : r.id = i} = {r \in table : r.id = i}
    BY <1>1, <2>5
  <2>7. \A q \in CachedUnder(k) : Answer(table', q) = Answer(table, q)
    <3>1. SUFFICES ASSUME NEW q \in CachedUnder(k)
                   PROVE  Answer(table', q) = Answer(table, q)
      OBVIOUS
    <3>2. q.key = <<kind, i>>
      BY <2>4 DEF CachedUnder
    <3>3. kind \in IdKinds
      BY <2>4
    <3>4. QED
      BY ONLY <2>6, <3>2, <3>3, SameRowSameAnswer
  <2>8. QED
    BY <2>7 DEF Current
<1>4. QED
  BY <1>2, <1>3

\* What a session that commits outdates.
LEMMA SessionCommitWay ==
    ASSUME FillInv, CommandsNameTheirRows, OneQueryPerKey,
           NEW s \in Sessions, CommitSession(s),
           NEW k \in Keys \ LongKeys, ~Stale(k), Stale(k)'
    PROVE  SessionWay(k)
<1>1. InSession(s) /\ UNCHANGED cache
  BY DEF CommitSession, EndSession
<1>2. k \in DeletedBy(s) /\ did[s] # {}
  <2>1. SUFFICES ASSUME k \notin DeletedBy(s) \/ did[s] = {} PROVE FALSE
    OBVIOUS
  <2>2. Current(table', k) = Current(table, k)
    BY <2>1, OtherEntriesStay
  <2>3. QED
    BY <1>1, <2>2 DEF Stale
<1>3. cache[k] # {}
  BY <1>1 DEF Stale
<1>4. filler[k] # s \/ k \in owed[s]
  BY <1>2, <1>3, OwnListStaysCurrent
<1>5. pc'[s] = "committed"
  BY <1>2, GoroutinesDiffer
     DEF CommitSession, EndSession, FillInv, Inv, Shape, Procs
<1>6. QED
  BY <1>1, <1>2, <1>4, <1>5 DEF SessionWay

\* What a plain command that commits outdates.
LEMMA PlainCommitWay ==
    ASSUME FillInv, CommandsNameTheirRows, NEW p \in Plain, Commit(p),
           NEW k \in Keys \ LongKeys, ~Stale(k), Stale(k)'
    PROVE  SessionWay(k)
<1>1. /\ pc[p] = "commit" /\ arg[p] \in Commands /\ UNCHANGED cache
      /\ table' \in Effect(table, arg[p]) \cup {table}
      /\ table \subseteq Row
  BY DEF Commit, FillInv, Inv, Shape
<1>2. k \in Deleted[arg[p]]
  <2>1. SUFFICES ASSUME k \notin Deleted[arg[p]] PROVE FALSE
    OBVIOUS
  <2>2. table' \in Effect(table, arg[p])
    BY <1>1 DEF Stale
  <2>3. arg[p].rows \ arg[p].ids = {}
    BY <1>1 DEF CommandsNameTheirRows
  <2>4. k \notin IdKinds \X (LongIds \cup (arg[p].rows \ arg[p].ids))
    BY <2>3 DEF LongKeys
  <2>5. k \notin DeletedBefore(arg[p], LastStage + 1)
    BY <1>1, <2>1, CommandDeletes
  <2>6. \A q \in CachedUnder(k) : Answer(table', q) = Answer(table, q)
    BY <1>1, <2>2, <2>4, <2>5, InvalidationCovers DEF CachedUnder
  <2>7. Current(table', k) = Current(table, k)
    BY <2>6 DEF Current
  <2>8. QED
    BY <1>1, <2>7 DEF Stale
<1>3. filler[k] \notin Plain
  BY <1>1, <1>2 DEF Stale, FillInv, FillersInv
<1>4. pc'[p] = "idle"
  BY DEF Commit, FillInv, Inv, Shape, Procs
<1>5. QED
  BY <1>1, <1>2, <1>3, <1>4 DEF SessionWay

\* What a plain command outdates whose COMMIT lands late.
LEMMA LateCommitWay ==
    ASSUME FillInv, CommandsNameTheirRows, NEW c \in unfinished, LateCommit(c),
           NEW k \in Keys \ LongKeys, ~Stale(k), Stale(k)'
    PROVE  SessionWay(k)
<1>1. /\ c \in Commands /\ c \in unfinished \ unfinished' /\ UNCHANGED cache
      /\ table' \in Effect(table, c) \cup {table} /\ table \subseteq Row
  BY DEF LateCommit, FillInv, Inv, Shape
<1>2. k \in Deleted[c]
  <2>1. SUFFICES ASSUME k \notin Deleted[c] PROVE FALSE
    OBVIOUS
  <2>2. table' \in Effect(table, c)
    BY <1>1 DEF Stale
  <2>3. k \notin IdKinds \X (LongIds \cup (c.rows \ c.ids))
    <3>1. c.rows \ c.ids = {}
      BY <1>1 DEF CommandsNameTheirRows
    <3>2. QED
      BY <3>1 DEF LongKeys
  <2>4. k \notin DeletedBefore(c, LastStage + 1)
    BY <1>1, <2>1, CommandDeletes
  <2>5. \A q \in CachedUnder(k) : Answer(table', q) = Answer(table, q)
    BY <1>1, <2>2, <2>3, <2>4, InvalidationCovers DEF CachedUnder
  <2>6. Current(table', k) = Current(table, k)
    BY <2>5 DEF Current
  <2>7. QED
    BY <1>1, <2>6 DEF Stale
<1>3. QED
  BY <1>1, <1>2 DEF SessionWay

\* What a goroutine that stores makes stale, or a SET that runs late.
LEMMA StoreWay ==
    ASSUME FillInv, NEW k \in Keys, ~Stale(k), Stale(k)',
           \/ \E p \in Plain : Fill(p)
           \/ \E s \in Sessions : SessionRead(s)
           \/ \E e \in late : LateSet(e)
    PROVE  SessionWay(k)
<1>1. UNCHANGED table
  BY DEF Fill, SessionRead, LateSet
<1>2. cache'[k] # cache[k]
  BY <1>1, StaleWhenStored
<1>3. CASE \E p \in Plain : Fill(p)
  <2>1. PICK p \in Plain : Fill(p)
    BY <1>3
  <2>2. /\ pc[p] = "set" /\ arg[p] \in Queries /\ ~arg[p].direct
        /\ k = arg[p].key /\ cache'[k] = res[p]
    BY <1>2, <2>1 DEF Fill, Store, FillInv, CacheShape
  <2>3. res[p] # Answer(table, arg[p])
    BY <1>1, <2>2 DEF Stale, Current, CachedUnder
  <2>4. QED
    BY <2>2, <2>3 DEF SessionWay
<1>4. CASE \E s \in Sessions : SessionRead(s)
  <2>1. PICK s \in Sessions : SessionRead(s)
    BY <1>4
  <2>2. filler'[k] = s
    BY <1>2, <2>1 DEF SessionRead, Store, FillInv, CacheShape
  <2>3. QED
    BY <1>2, <2>2 DEF SessionWay
<1>5. CASE \E e \in late : LateSet(e)
  <2>1. PICK e \in late : LateSet(e)
    BY <1>5
  <2>2. e[1] = k /\ e \in late \ late'
    BY <1>2, <2>1 DEF LateSet, Store, FillInv, CacheShape
  <2>3. QED
    BY <2>2 DEF SessionWay
<1>6. QED
  BY <1>3, <1>4, <1>5

\* StaleOnlyBySessions: every other step leaves current entries current, a
\* rollback, a retry, an expiry and a failed fill among them; if commands name
\* the rows they write and callers that share a key ask the same.
THEOREM OnlySessionsMakeStale ==
    ASSUME CommandsNameTheirRows, OneQueryPerKey
    PROVE  Spec => StaleOnlyBySessions
<1>1. ASSUME FillInv, [Next]_vars
      PROVE  \A k \in Keys \ LongKeys : ~Stale(k) /\ Stale(k)' => SessionWay(k)
  <2>1. SUFFICES ASSUME NEW k \in Keys \ LongKeys, ~Stale(k), Stale(k)'
                 PROVE  SessionWay(k)
    OBVIOUS
  <2>2. ASSUME UNCHANGED table, cache'[k] \in {cache[k], {}} PROVE FALSE
    BY <2>1, <2>2, StaleWhenStored
  <2>3. ASSUME NEW c \in Commands, UNCHANGED table,
               Invalidate(Deleted[c]) \/ Invalidate(SessionDeletes(c))
        PROVE  FALSE
    BY <2>2, <2>3 DEF Invalidate, SessionDeletes
  <2>4. ASSUME NEW l \in Keys, Expire(l) PROVE FALSE
    BY <2>2, <2>4 DEF Expire, Invalidate
  <2>5. ASSUME NEW p \in Plain, Execute(p) PROVE FALSE
    BY <2>3, <2>5 DEF Execute
  <2>6. ASSUME NEW s \in Sessions, SessionCommand(s) PROVE FALSE
    BY <2>2, <2>3, <2>6 DEF SessionCommand
  <2>7. ASSUME UNCHANGED <<table, cache>> PROVE FALSE
    BY <2>2, <2>7
  <2>8. QED
    BY <1>1, <2>1, <2>4, <2>5, <2>6, <2>7, StoreWay, PlainCommitWay, SessionCommitWay,
       LateCommitWay
       DEF Next, Read, Begin, ExplicitCall, RollbackSession, EndSession
<1>2. QED
  BY <1>1, FillInvHolds, PTL DEF Spec, StaleOnlyBySessions, SessionWay
=============================================================================
