--------------------------- MODULE LazyInitProofs ---------------------------
(***************************************************************************)
(* What the sync.Once of init guarantees, for any number of goroutines and *)
(* instances, through restarts, dead networks and contexts that end.       *)
(***************************************************************************)
EXTENDS LazyInit, TLAPS

USE DEF vars, Goto

Running == {"ping", "check", "create", "compare", "alter"}

\* A goroutine is in an instance as long as its call; in the function of the
\* Once only while that is running, and alone; past it only when it is done.
CallsAreIn ==
    \A p \in Procs :
        /\ pc[p] # "idle" => inst[p] \in Instances
        /\ pc[p] \in Running => once[inst[p]] = "running"
        /\ pc[p] \in {"use", "fail"} => once[inst[p]] = "done"
        /\ pc[p] = "use" => initErr[inst[p]] = "none"

RunnerIsAlone ==
    \A p, q \in Procs :
        pc[p] \in Running /\ pc[q] \in Running /\ inst[p] = inst[q] => p = q

\* An instance that is done without an error has its table.
DoneHasTable ==
    \A x \in Instances :
        /\ once[x] # "done" => initErr[x] = "none"
        /\ once[x] = "done" /\ initErr[x] = "none" /\ x \in Migrating => schema = "new"

OnceInv == TypeOK /\ CallsAreIn /\ RunnerIsAlone /\ DoneHasTable

LEMMA InitOnce == Init => OnceInv
BY DEF Init, OnceInv, TypeOK, CallsAreIn, RunnerIsAlone, DoneHasTable, Running

\* A step of one goroutine that stays outside the function.
LEMMA OutsideKeepsOnce ==
    ASSUME OnceInv, NEW p \in Procs, Call(p) \/ Others(p) \/ Return(p)
    PROVE  OnceInv'
<1>1. TypeOK'
  BY DEF OnceInv, TypeOK, Call, Others, Return
<1>2. CallsAreIn'
  BY DEF OnceInv, TypeOK, CallsAreIn, Running, Call, Others, Return
<1>3. RunnerIsAlone'
  BY DEF OnceInv, TypeOK, RunnerIsAlone, Running, Call, Others, Return
<1>4. DoneHasTable'
  BY DEF OnceInv, DoneHasTable, Call, Others, Return
<1>5. QED
  BY <1>1, <1>2, <1>3, <1>4 DEF OnceInv

\* The first caller enters; nobody was inside, or the Once would be running.
LEMMA FirstKeepsOnce ==
    ASSUME OnceInv, NEW p \in Procs, First(p)
    PROVE  OnceInv'
<1>1. TypeOK'
  BY DEF OnceInv, TypeOK, CallsAreIn, First
<1>2. CallsAreIn'
  BY DEF OnceInv, TypeOK, CallsAreIn, Running, First
<1>3. RunnerIsAlone'
  BY DEF OnceInv, TypeOK, CallsAreIn, RunnerIsAlone, Running, First
<1>4. DoneHasTable'
  BY DEF OnceInv, TypeOK, CallsAreIn, DoneHasTable, First
<1>5. QED
  BY <1>1, <1>2, <1>3, <1>4 DEF OnceInv

\* The function goes on, or returns with its table as it should be or with an
\* error.
LEMMA FunctionKeepsOnce ==
    ASSUME OnceInv, NEW p \in Procs,
           Ping(p) \/ Check(p) \/ Create(p) \/ Compare(p) \/ Alter(p)
    PROVE  OnceInv'
<1>1. /\ inst[p] \in Instances /\ pc[p] \in Running
      /\ once[inst[p]] = "running" /\ initErr[inst[p]] = "none"
  BY DEF OnceInv, CallsAreIn, DoneHasTable, Running, Ping, Check, Create,
         Compare, Alter
<1>2. /\ UNCHANGED <<inst, ended, up, accepts>>
      /\ schema' \in {"none", "old", "new"} /\ (schema = "new" => schema' = "new")
      /\ \/ /\ \E label \in Running : pc' = [pc EXCEPT ![p] = label]
            /\ UNCHANGED <<once, initErr>>
         \/ /\ Finish(p, "none")
            /\ inst[p] \in Migrating => schema' = "new"
         \/ \E err \in {"pool", "ping", "migrate"} : Finish(p, err)
  BY DEF OnceInv, TypeOK, Ping, Pinged, Check, Create, Compare, Alter, Running
<1>3. CASE \E label \in Running : /\ pc' = [pc EXCEPT ![p] = label]
                                  /\ UNCHANGED <<once, initErr>>
  <2>1. TypeOK' /\ CallsAreIn'
    BY <1>1, <1>2, <1>3 DEF OnceInv, TypeOK, CallsAreIn, Running
  <2>2. RunnerIsAlone' /\ DoneHasTable'
    BY <1>1, <1>2, <1>3 DEF OnceInv, TypeOK, RunnerIsAlone, DoneHasTable, Running
  <2>3. QED
    BY <2>1, <2>2 DEF OnceInv
<1>4. CASE \E err \in {"none", "pool", "ping", "migrate"} :
              Finish(p, err) /\ (err = "none" /\ inst[p] \in Migrating => schema' = "new")
  <2>1. PICK err \in {"none", "pool", "ping", "migrate"} :
           Finish(p, err) /\ (err = "none" /\ inst[p] \in Migrating => schema' = "new")
    BY <1>4
  <2>2. TypeOK'
    BY <1>1, <1>2, <2>1 DEF OnceInv, TypeOK, Finish
  <2>3. CallsAreIn'
    BY <1>1, <1>2, <2>1 DEF OnceInv, TypeOK, CallsAreIn, RunnerIsAlone, Running, Finish
  <2>4. RunnerIsAlone'
    BY <1>1, <1>2, <2>1 DEF OnceInv, TypeOK, RunnerIsAlone, Running, Finish
  <2>5. DoneHasTable'
    BY <1>1, <1>2, <2>1 DEF OnceInv, TypeOK, DoneHasTable, Finish
  <2>6. QED
    BY <2>2, <2>3, <2>4, <2>5 DEF OnceInv
<1>5. QED
  BY <1>2, <1>3, <1>4

\* A restart takes an instance's calls with it; the network, the table and the
\* contexts touch no Once, and a table does not lose its columns.
LEMMA EnvironmentKeepsOnce ==
    ASSUME OnceInv,
           \/ \E x \in Instances : Restart(x)
           \/ \E p \in Procs : EndContext(p)
           \/ Flap \/ Evolve
    PROVE  OnceInv'
<1>1. CASE \E x \in Instances : Restart(x)
  <2>1. PICK x \in Instances : Restart(x)
    BY <1>1
  <2>2. TypeOK'
    BY <2>1 DEF OnceInv, TypeOK, Restart
  <2>3. CallsAreIn' /\ RunnerIsAlone'
    BY <2>1, InstancesAssumption
       DEF OnceInv, TypeOK, CallsAreIn, RunnerIsAlone, Running, Restart
  <2>4. DoneHasTable'
    BY <2>1 DEF OnceInv, TypeOK, DoneHasTable, Restart
  <2>5. QED
    BY <2>2, <2>3, <2>4 DEF OnceInv
<1>2. CASE Flap \/ Evolve \/ \E p \in Procs : EndContext(p)
  <2>1. UNCHANGED <<once, initErr, pc, inst>> /\ (schema = "new" => schema' = "new")
    BY <1>2 DEF Flap, Evolve, EndContext
  <2>2. TypeOK'
    BY <1>2 DEF OnceInv, TypeOK, Flap, Evolve, EndContext
  <2>3. CallsAreIn' /\ RunnerIsAlone' /\ DoneHasTable'
    BY <2>1 DEF OnceInv, CallsAreIn, RunnerIsAlone, DoneHasTable
  <2>4. QED
    BY <2>2, <2>3 DEF OnceInv
<1>3. QED
  BY <1>1, <1>2

LEMMA NextOnce == OnceInv /\ [Next]_vars => OnceInv'
<1>1. ASSUME OnceInv, UNCHANGED vars PROVE OnceInv'
  BY <1>1 DEF OnceInv, TypeOK, CallsAreIn, RunnerIsAlone, DoneHasTable,
              Running
<1>2. ASSUME OnceInv, Next PROVE OnceInv'
  BY <1>2, OutsideKeepsOnce, FirstKeepsOnce, FunctionKeepsOnce, EnvironmentKeepsOnce
     DEF Next, Run
<1>3. QED
  BY <1>1, <1>2

LEMMA OnceHolds == Spec => []OnceInv
BY InitOnce, NextOnce, PTL DEF Spec

\* UsesAreInitialised: no call goes on while the function is running or after
\* it has failed, and what a migrating instance works on is there in full.
THEOREM CallsWaitForInit == Spec => []UsesAreInitialised
<1>1. OnceInv => UsesAreInitialised
  BY DEF OnceInv, CallsAreIn, DoneHasTable, UsesAreInitialised
<1>2. QED
  BY <1>1, OnceHolds, PTL

\* BreaksForACause: only a handle without a pool, PostgreSQL, the first caller's
\* own context or a race of two migrations breaks an instance.
THEOREM InstancesBreakForACause == Spec => BreaksForACause
<1>1. ASSUME OnceInv, [Next]_vars
      PROVE  \A x \in Instances : initErr[x] = "none" /\ initErr'[x] # "none" =>
                \E p \in Procs : inst[p] = x /\ Cause(p)
  <2> SUFFICES ASSUME NEW x \in Instances, initErr[x] = "none", initErr'[x] # "none"
               PROVE  \E p \in Procs : inst[p] = x /\ Cause(p)
    OBVIOUS
  <2>1. PICK p \in Procs : Ping(p) \/ Check(p) \/ Create(p) \/ Compare(p) \/ Alter(p)
    BY <1>1 DEF Next, Run, Call, First, Others, Return, EndContext, Restart,
                Flap, Evolve, OnceInv, TypeOK
  <2>2. PICK err \in {"none", "pool", "ping", "migrate"} :
           Finish(p, err) /\ (err # "none" => Cause(p))
    BY <2>1 DEF Ping, Pinged, Check, Create, Compare, Alter, Cause
  <2>3. inst[p] = x /\ err # "none"
    BY <1>1, <2>2 DEF Finish, OnceInv, TypeOK
  <2>4. QED
    BY <2>2, <2>3
<1>2. QED
  BY <1>1, OnceHolds, PTL DEF Spec, BreaksForACause
=============================================================================
