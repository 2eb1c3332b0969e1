---------------------------- MODULE MCTxSession ----------------------------
(***************************************************************************)
(* An instance of TxSession for TLC: plain calls beside two sessions, one  *)
(* entry deleted by its key and two deleted by a glob, commands on the     *)
(* same row and on different ones.                                         *)
(***************************************************************************)
EXTENDS TxSession
LOCAL INSTANCE TLC

CONSTANT a

\* Filters print as they are.
Distinct == [f \in Filters |-> f]

Find1 == [key |-> <<"find", 1>>, filter |-> {}, order |-> "ASC", direct |-> FALSE]
ListAll ==
    [key |-> <<"list", Printed[Vals]>>, filter |-> Vals, order |-> "ASC", direct |-> FALSE]
C(op, ids) == [op |-> op, ids |-> ids, rows |-> ids, val |-> a]

SessionSymmetry == Permutations(Sessions)

SomeQueries == {Find1, ListAll}
SomeCommands == {C("Upsert", {1}), C("Delete", {1}), C("Insert", {2})}

\* No property relates two keys, and an invalidation deletes key by key: a
\* behaviour asks for the answer under one of them.
VARIABLE focus

FocusInit == Init /\ focus \in {q.key : q \in Queries}
FocusNext ==
    /\ Next
    /\ \A p \in Plain : arg'[p] \in Queries => arg'[p].key = focus
    /\ \A k \in Keys \ {focus} : cache'[k] = {}
    /\ \A e \in late' : e[1] = focus
    /\ UNCHANGED focus
FocusSpec == FocusInit /\ [][FocusNext]_<<vars, focus>>
=============================================================================
