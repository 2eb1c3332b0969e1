-------------------------- MODULE AtomicRepository --------------------------
(***************************************************************************)
(* What a repository promises its callers, the cache left out: a call      *)
(* takes effect at one instant between its start and its return.  A query  *)
(* answers what the table says at that instant; a command changes the      *)
(* table at that instant, once, or not at all; a call that returns an      *)
(* error has answered nothing, and has changed the table only if the       *)
(* acknowledgement of its commit was lost.  CacheAside implements it.      *)
(***************************************************************************)
EXTENDS RowStore

CONSTANTS Procs, NoCall

VARIABLES
    table,  \* the committed rows
    pc,     \* "idle", "busy", "done" (returning nil), "failed" (an error)
    arg,    \* the query or the command of the call
    res     \* the answer of a query: a set of at most one answer

vars == <<table, pc, arg, res>>

Init ==
    /\ table = {}
    /\ pc = [p \in Procs |-> "idle"]
    /\ arg = [p \in Procs |-> NoCall]
    /\ res = [p \in Procs |-> {}]

CallWith(p, a) ==
    /\ pc[p] = "idle"
    /\ arg' = [arg EXCEPT ![p] = a]
    /\ pc' = [pc EXCEPT ![p] = "busy"]
    /\ UNCHANGED <<table, res>>

Call(p) == \E a \in Queries \cup Commands : CallWith(p, a)

Read(p) ==
    /\ pc[p] = "busy"
    /\ arg[p] \in Queries
    /\ res' = [res EXCEPT ![p] = Answer(table, arg[p])]
    /\ pc' = [pc EXCEPT ![p] = "done"]
    /\ UNCHANGED <<table, arg>>

\* The command takes effect; "failed" when its acknowledgement is lost.
Write(p) ==
    /\ pc[p] = "busy"
    /\ arg[p] \in Commands
    /\ table' \in Effect(table, arg[p])
    /\ \E end \in {"done", "failed"} : pc' = [pc EXCEPT ![p] = end]
    /\ UNCHANGED <<arg, res>>

Fail(p) ==
    /\ pc[p] = "busy"
    /\ pc' = [pc EXCEPT ![p] = "failed"]
    /\ UNCHANGED <<table, arg, res>>

\* Calls end: one returns, or the program that made several of them dies.
End(ps) ==
    /\ pc' = [p \in Procs |-> IF p \in ps THEN "idle" ELSE pc[p]]
    /\ arg' = [p \in Procs |-> IF p \in ps THEN NoCall ELSE arg[p]]
    /\ res' = [p \in Procs |-> IF p \in ps THEN {} ELSE res[p]]
    /\ UNCHANGED table

Return(p) ==
    /\ pc[p] \in {"done", "failed"}
    /\ End({p})

Crash == \E ps \in SUBSET Procs : End(ps)

Next ==
    \/ \E p \in Procs : Call(p) \/ Read(p) \/ Write(p) \/ Fail(p) \/ Return(p)
    \/ Crash

Spec == Init /\ [][Next]_vars
=============================================================================
