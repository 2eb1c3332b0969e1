------------------------------ MODULE LazyInit ------------------------------
(***************************************************************************)
(* init of cache.go, which every call of an instance begins with: a        *)
(* sync.Once around a ping and, WithAutoMigrate, a migration.  The first   *)
(* caller runs it under its own context, the others wait for it and watch  *)
(* no context; its error stays with the instance.  Several instances, of   *)
(* one program or of several, may migrate the same table, for one entity.  *)
(* The instances that builders.Tx makes skip init and are none of these.   *)
(***************************************************************************)
CONSTANTS
    Procs,      \* goroutines
    Instances,  \* repository instances over one table
    Migrating,  \* those built WithAutoMigrate
    NoPool,     \* those over a handle that has no sql.DB, a transaction's say
    NoInst

ASSUME InstancesAssumption ==
    Migrating \subseteq Instances /\ NoPool \subseteq Instances /\ NoInst \notin Instances

VARIABLES
    schema,     \* the table: "none"; "old", without some of the entity's
                \* columns or indexes; "new", with all of them
    up,         \* whether PostgreSQL can be reached
    accepts,    \* whether PostgreSQL accepts what the migration asks for: no
                \* right is missing, no row is in the way of a new constraint
    once,       \* the Once of an instance: "new", "running", "done"
    initErr,    \* its error: "none", "pool", "ping", "migrate"
    pc,         \* "idle", "init", "ping", "check", "create", "compare", "alter",
                \* "use", "fail"
    inst,       \* the instance a goroutine has called
    ended       \* whether its context has ended

vars == <<schema, up, accepts, once, initErr, pc, inst, ended>>

Init ==
    /\ schema \in {"none", "old", "new"}
    /\ up \in BOOLEAN
    /\ accepts \in BOOLEAN
    /\ once = [x \in Instances |-> "new"]
    /\ initErr = [x \in Instances |-> "none"]
    /\ pc = [p \in Procs |-> "idle"]
    /\ inst = [p \in Procs |-> NoInst]
    /\ ended = [p \in Procs |-> FALSE]

Goto(p, label) == pc' = [pc EXCEPT ![p] = label]

Call(p) ==
    /\ pc[p] = "idle"
    /\ \E x \in Instances : inst' = [inst EXCEPT ![p] = x]
    /\ Goto(p, "init")
    /\ UNCHANGED <<schema, up, accepts, once, initErr, ended>>

\* The first caller runs the function.
First(p) ==
    /\ pc[p] = "init" /\ once[inst[p]] = "new"
    /\ once' = [once EXCEPT ![inst[p]] = "running"]
    /\ Goto(p, "ping")
    /\ UNCHANGED <<schema, up, accepts, initErr, inst, ended>>

Others_DoNotWait(p) ==
    /\ pc[p] = "init" /\ once[inst[p]] # "new"
    /\ Goto(p, IF initErr[inst[p]] = "none" THEN "use" ELSE "fail")
    /\ UNCHANGED <<schema, up, accepts, once, initErr, inst, ended>>

\* The others come by when it has returned, and get its error.
Others(p) ==
    /\ pc[p] = "init" /\ once[inst[p]] = "done"
    /\ Goto(p, IF initErr[inst[p]] = "none" THEN "use" ELSE "fail")
    /\ UNCHANGED <<schema, up, accepts, once, initErr, inst, ended>>

\* The function returns, with an error or without.
Finish(p, err) ==
    /\ once' = [once EXCEPT ![inst[p]] = "done"]
    /\ initErr' = [initErr EXCEPT ![inst[p]] = err]
    /\ Goto(p, IF err = "none" THEN "use" ELSE "fail")

\* What p's context, and the network, allow.
Reaches(p) == up /\ ~ended[p]

\* The instance has its pool and PostgreSQL answers: on to the migration, or
\* back to the caller.
Pinged(p) ==
    IF inst[p] \in Migrating
    THEN Goto(p, "check") /\ UNCHANGED <<once, initErr>>
    ELSE Finish(p, "none")

Ping_AnyContext(p) ==
    /\ pc[p] = "ping"
    /\ CASE inst[p] \in NoPool -> Finish(p, "pool")
         [] inst[p] \notin NoPool /\ up
               /\ (\A q \in Procs : inst[q] = inst[p] => ~ended[q]) -> Pinged(p)
         [] OTHER -> Finish(p, "ping")
    /\ UNCHANGED <<schema, up, accepts, inst, ended>>

Ping_Insists(p) ==
    /\ pc[p] = "ping"
    /\ CASE inst[p] \in NoPool -> Finish(p, "pool")
         [] inst[p] \notin NoPool -> Reaches(p) /\ Pinged(p)
    /\ UNCHANGED <<schema, up, accepts, inst, ended>>

\* db.DB and the ping of the function.
Ping(p) ==
    /\ pc[p] = "ping"
    /\ CASE inst[p] \in NoPool -> Finish(p, "pool")
         [] inst[p] \notin NoPool /\ Reaches(p) -> Pinged(p)
         [] OTHER -> Finish(p, "ping")
    /\ UNCHANGED <<schema, up, accepts, inst, ended>>

\* AutoMigrate: HasTable, which also says no when it cannot ask.
Check(p) ==
    /\ pc[p] = "check"
    /\ Goto(p, IF schema # "none" /\ Reaches(p) THEN "compare" ELSE "create")
    /\ UNCHANGED <<schema, up, accepts, once, initErr, inst, ended>>

\* CREATE TABLE, without IF NOT EXISTS.
Create(p) ==
    /\ pc[p] = "create"
    /\ IF schema = "none" /\ Reaches(p) /\ accepts
       THEN schema' = "new" /\ Finish(p, "none")
       ELSE Finish(p, "migrate") /\ UNCHANGED schema
    /\ UNCHANGED <<up, accepts, inst, ended>>

\* The table is there: which columns it has, which is not asked again.
Compare(p) ==
    /\ pc[p] = "compare"
    /\ CASE ~Reaches(p) -> Finish(p, "migrate")
         [] Reaches(p) /\ schema = "new" -> Finish(p, "none")
         [] OTHER -> Goto(p, "alter") /\ UNCHANGED <<once, initErr>>
    /\ UNCHANGED <<schema, up, accepts, inst, ended>>

\* ALTER TABLE for what is missing.  What somebody else has added meanwhile is
\* refused as a duplicate, or taken as done, as the statement is.
Alter(p) ==
    /\ pc[p] = "alter"
    /\ \/ Reaches(p) /\ accepts /\ schema' = "new" /\ Finish(p, "none")
       \/ /\ ~Reaches(p) \/ ~accepts \/ schema = "new"
          /\ Finish(p, "migrate") /\ UNCHANGED schema
    /\ UNCHANGED <<up, accepts, inst, ended>>

\* The rest of the call, and its end.
Return(p) ==
    /\ pc[p] \in {"use", "fail"}
    /\ Goto(p, "idle")
    /\ inst' = [inst EXCEPT ![p] = NoInst]
    /\ ended' = [ended EXCEPT ![p] = FALSE]
    /\ UNCHANGED <<schema, up, accepts, once, initErr>>

\* A caller gives up, or its deadline passes.
EndContext(p) ==
    /\ pc[p] # "idle" /\ ~ended[p]
    /\ ended' = [ended EXCEPT ![p] = TRUE]
    /\ UNCHANGED <<schema, up, accepts, once, initErr, pc, inst>>

\* The network fails or heals; rights are granted, rows changed.
Flap ==
    /\ \/ up' = ~up /\ UNCHANGED accepts
       \/ accepts' = ~accepts /\ UNCHANGED up
    /\ UNCHANGED <<schema, once, initErr, pc, inst, ended>>

\* A statement of a migration that has failed or died takes effect after all,
\* or another program migrates the table.
Evolve ==
    /\ \/ schema = "none" /\ schema' \in {"old", "new"}
       \/ schema = "old" /\ schema' = "new"
    /\ UNCHANGED <<up, accepts, once, initErr, pc, inst, ended>>

\* The program of instance x starts again: the Once is new.
Restart(x) ==
    /\ once[x] # "new"
    /\ once' = [once EXCEPT ![x] = "new"]
    /\ initErr' = [initErr EXCEPT ![x] = "none"]
    /\ pc' = [p \in Procs |-> IF inst[p] = x THEN "idle" ELSE pc[p]]
    /\ ended' = [p \in Procs |-> IF inst[p] = x THEN FALSE ELSE ended[p]]
    /\ inst' = [p \in Procs |-> IF inst[p] = x THEN NoInst ELSE inst[p]]
    /\ UNCHANGED <<schema, up, accepts>>

Run(p) ==
    \/ First(p) \/ Others(p) \/ Ping(p) \/ Check(p) \/ Create(p) \/ Compare(p)
    \/ Alter(p) \/ Return(p)

Next ==
    \/ \E p \in Procs : Call(p) \/ Run(p) \/ EndContext(p)
    \/ \E x \in Instances : Restart(x)
    \/ Flap \/ Evolve

Spec == Init /\ [][Next]_vars

\* Goroutines run, and a ping or a statement ends: with an answer, with its
\* context, or with the connection's own time limits.
FairSpec == Spec /\ \A p \in Procs : WF_vars(Run(p))

-----------------------------------------------------------------------------
(* Properties.                                                             *)

TypeOK ==
    /\ schema \in {"none", "old", "new"} /\ up \in BOOLEAN /\ accepts \in BOOLEAN
    /\ once \in [Instances -> {"new", "running", "done"}]
    /\ initErr \in [Instances -> {"none", "pool", "ping", "migrate"}]
    /\ pc \in [Procs -> {"idle", "init", "ping", "check", "create", "compare", "alter",
                        "use", "fail"}]
    /\ inst \in [Procs -> Instances \cup {NoInst}]
    /\ ended \in [Procs -> BOOLEAN]

\* No call goes on before the function has returned, nor after it failed; the
\* table that a migrating instance works on has all of its columns, whoever
\* added them.
UsesAreInitialised ==
    \A p \in Procs : pc[p] = "use" =>
        /\ once[inst[p]] = "done" /\ initErr[inst[p]] = "none"
        /\ inst[p] \in Migrating => schema = "new"

\* Why an instance is broken for good.  Its handle has no sql.DB; PostgreSQL
\* cannot be reached, or refuses the migration; the context of the caller that
\* came first has ended (the contexts of the others do not matter); or somebody
\* else has created or altered the table since AutoMigrate looked, or it could
\* not look and took the table for missing.
Cause(p) ==
    \/ pc[p] = "ping" /\ inst[p] \in NoPool
    \/ pc[p] \in {"ping", "compare", "create", "alter"} /\ ~Reaches(p)
    \/ pc[p] \in {"create", "alter"} /\ ~accepts
    \/ pc[p] = "create" /\ schema # "none"
    \/ pc[p] = "alter" /\ schema = "new"

BreaksForACause ==
    [][\A x \in Instances : initErr[x] = "none" /\ initErr'[x] # "none" =>
          \E p \in Procs : inst[p] = x /\ Cause(p)]_vars

\* Every call comes back: the others, too, who wait for the first.
CallsReturn == \A p \in Procs : pc[p] # "idle" ~> pc[p] = "idle"
=============================================================================
