----------------------------- MODULE RetryLoops -----------------------------
(***************************************************************************)
(* One call that runs a transaction, with the loops of tx.go around it:    *)
(*   "read"     a query: runReadTx, no loop;                               *)
(*   "command"  a command: runSerializableTx, one loop;                    *)
(*   "tx"       Tx and its siblings: runWithRetry around a function that   *)
(*              issues commands, each of them in a savepoint, inside       *)
(*              runSerializableTx's loop.                                  *)
(* The other transactions, the network, Redis, the caller's context and    *)
(* WithTimeout are what may make a step fail.                              *)
(***************************************************************************)
EXTENDS Naturals, FiniteSets

CONSTANTS
    Calls,          \* the kinds of calls that are made
    MaxAttempts,    \* maxAttempts of runSerializableTx (5 in the code)
    MaxRetries,     \* maxRetries of runWithRetry (5 in the code)
    Steps,          \* bound on the commands a function given to Tx issues
    Timeouts,       \* whether the instance is built with WithTimeout
    Texts           \* errors of other origin whose text contains 40001

\* An error is "rejected" (40001 and 40P01), "broken" (a connection that
\* fails), "ctx" (a context that ended) or "other" (a refused statement, an
\* error of Redis or of the function); or one of the last two kinds with the
\* digits 40001 in its text: a port of the connection, an id in a message.
Kinds == {"read", "command", "tx"}
Accidents == {"broken40001", "other40001"}
Errors == {"rejected", "broken", "ctx", "other"} \cup Texts
Broken == {"broken", "broken40001"} \cap Errors
Other == {"other", "other40001"} \cap Errors

ASSUME KindsOfCalls == Calls \subseteq Kinds
ASSUME LoopBounds == /\ MaxAttempts \in Nat \ {0}
                     /\ MaxRetries \in Nat \ {0}
                     /\ Steps \in Nat \ {0}
ASSUME TextsAreAccidents == Texts \subseteq Accidents /\ Timeouts \in BOOLEAN

VARIABLES
    kind,       \* the call
    pc,         \* where it is
    outer,      \* the iteration of runWithRetry
    inner,      \* the iteration of runSerializableTx
    step,       \* the command the function is at
    conn,       \* the transaction: "none", "open", or "dead" (cannot commit)
    pending,    \* pending[s]: how often the open transaction wrote command s
    kept,       \* kept[s]: how often committed transactions wrote command s
    served,     \* commands that returned nil to this run of the function
    expired,    \* commands of this run whose WithTimeout deadline has passed
    live,       \* the caller's context (for a command, WithTimeout's) goes on
    err,        \* the last error
    result      \* "none", "nil", an error, or "exhausted"

vars == <<kind, pc, outer, inner, step, conn, pending, kept, served, expired,
          live, err, result>>
tx == <<conn, pending>>
run == <<step, served, expired>>

PCs == {"read", "begin", "fn", "attempt", "inval", "undo", "backoff",
        "refused", "commit", "failed", "wait", "done"}
Commands == 1 .. Steps
Nothing == [s \in Commands |-> 0]
NoError == "none"

IsSerializationFailure(e) == e \in {"rejected"} \cup Texts

Return(r) == pc' = "done" /\ result' = r
Goto(label) == pc' = label /\ UNCHANGED result

\* The context of the current command: the caller's, or WithTimeout's.
Alive == live /\ step \notin expired

Init ==
    /\ kind \in Calls
    /\ pc = CASE kind = "read" -> "read"
              [] kind = "command" -> "attempt"
              [] kind = "tx" -> "begin"
    /\ outer = 0 /\ inner = 0 /\ step = 1
    /\ conn = "none" /\ pending = Nothing /\ kept = Nothing
    /\ served = {} /\ expired = {}
    /\ live = TRUE /\ err = NoError /\ result = "none"

-----------------------------------------------------------------------------
(* runReadTx.                                                              *)

Read ==
    /\ pc = "read"
    /\ \/ live /\ Return("nil") /\ UNCHANGED err
       \/ \E e \in {"rejected"} \cup Broken \cup Other : Return(e) /\ err' = e
       \/ ~live /\ Return("ctx") /\ err' = "ctx"
    /\ UNCHANGED <<kind, outer, inner, tx, run, kept, live>>

-----------------------------------------------------------------------------
(* runWithRetry and the function it runs.                                  *)

\* BEGIN; the function starts from its first line.
Begin ==
    /\ pc = "begin"
    /\ \/ /\ live
          /\ conn' = "open" /\ Goto("fn") /\ UNCHANGED err
       \/ \E e \in Broken : err' = e /\ Goto("failed") /\ UNCHANGED conn
       \/ ~live /\ err' = "ctx" /\ Goto("failed") /\ UNCHANGED conn
    /\ step' = 1 /\ served' = {} /\ expired' = {}
    /\ UNCHANGED <<kind, outer, inner, pending, kept, live, result>>

\* The function issues its next command.
Issue ==
    /\ pc = "fn" /\ step \in Commands
    /\ inner' = 0
    /\ Goto("attempt")
    /\ UNCHANGED <<kind, outer, tx, run, kept, live, err>>

\* gorm's Transaction rolls back when the function returns an error.
RollBack == conn' = "none" /\ pending' = Nothing

FnReturns ==
    /\ pc = "fn"
    /\ \/ Goto("commit") /\ UNCHANGED <<tx, err>>
       \/ \E e \in Other : err' = e /\ RollBack /\ Goto("failed")
    /\ UNCHANGED <<kind, outer, inner, run, kept, live>>

Refused_NoRollback ==
    /\ pc = "refused"
    /\ \/ Goto("failed") /\ UNCHANGED <<tx, step>>
       \/ step' = step + 1 /\ Goto("fn") /\ UNCHANGED tx
    /\ UNCHANGED <<kind, outer, inner, served, expired, kept, live, err>>

\* A command has returned its error to the function, which hands it on (the
\* DBError around it unwraps) or does without that command.
Refused ==
    /\ pc = "refused"
    /\ \/ RollBack /\ Goto("failed") /\ UNCHANGED step
       \/ step' = step + 1 /\ Goto("fn") /\ UNCHANGED tx
    /\ UNCHANGED <<kind, outer, inner, served, expired, kept, live, err>>

\* The transaction of this iteration has failed and is rolled back.
Failed ==
    /\ pc = "failed"
    /\ IF live /\ IsSerializationFailure(err) THEN Goto("wait") ELSE Return(err)
    /\ UNCHANGED <<kind, outer, inner, tx, run, kept, live, err>>

Wait_SameIteration ==
    /\ pc = "wait"
    /\ \/ live /\ Goto("begin")
       \/ ~live /\ Return("ctx")
    /\ UNCHANGED <<kind, outer, inner, tx, run, kept, live, err>>

\* The back-off, also after the last iteration; then the error is replaced.
Wait ==
    /\ pc = "wait"
    /\ \/ /\ live
          /\ outer' = outer + 1
          /\ IF outer' < MaxRetries THEN Goto("begin") ELSE Return("exhausted")
       \/ ~live /\ Return("ctx") /\ UNCHANGED outer
    /\ UNCHANGED <<kind, inner, tx, run, kept, live, err>>

-----------------------------------------------------------------------------
(* runSerializableTx.                                                      *)

\* The loop's test of the context; then BEGIN or SAVEPOINT and the statements.
\* A context that ends while a statement runs costs the connection.
Attempt ==
    /\ pc = "attempt"
    /\ \/ /\ Alive /\ conn # "dead"
          /\ conn' = "open" /\ pending' = [pending EXCEPT ![step] = @ + 1]
          /\ Goto("inval") /\ UNCHANGED err
       \/ /\ Alive
          /\ \/ err' = "rejected" /\ conn # "dead"
             \/ err' \in Other
          /\ Goto("undo") /\ UNCHANGED tx
       \/ /\ \E e \in Broken \cup (IF Alive THEN {} ELSE {"ctx"}) : err' = e
          /\ conn' = "dead" /\ Goto("undo") /\ UNCHANGED pending
       \/ /\ ~Alive
          /\ err' = "ctx"
          /\ UNCHANGED tx
          /\ IF kind = "tx" THEN Goto("refused") ELSE Return("ctx")
    /\ UNCHANGED <<kind, outer, inner, run, kept, live>>

\* invalidateAfterWrite, inside the savepoint but with the caller's context.
Invalidate ==
    /\ pc = "inval"
    /\ \/ /\ served' = served \cup {step}
          /\ IF kind = "tx"
             THEN step' = step + 1 /\ Goto("fn")
             ELSE Goto("commit") /\ UNCHANGED step
          /\ UNCHANGED err
       \/ /\ \E e \in Other \cup (IF live THEN {} ELSE {"ctx"}) : err' = e
          /\ Goto("undo") /\ UNCHANGED <<step, served>>
    /\ UNCHANGED <<kind, outer, inner, tx, expired, kept, live>>

Retry_OneMore ==
    IF IsSerializationFailure(err) /\ inner <= MaxAttempts - 1
    THEN Goto("backoff")
    ELSE IF kind = "tx" THEN Goto("refused") ELSE Return(err)

\* What the loop does with the error of its transaction.
Retry ==
    IF IsSerializationFailure(err) /\ inner < MaxAttempts - 1
    THEN Goto("backoff")
    ELSE IF kind = "tx" THEN Goto("refused") ELSE Return(err)

Undo_NoSavepoint ==
    /\ pc = "undo"
    /\ IF kind = "tx" THEN UNCHANGED tx ELSE RollBack
    /\ Retry
    /\ UNCHANGED <<kind, outer, inner, run, kept, live, err>>

\* ROLLBACK, or ROLLBACK TO SAVEPOINT, which is not sent when the context of
\* the command has ended: a refused statement has then aborted the
\* transaction, an unfinished invalidation has not.
Undo ==
    /\ pc = "undo"
    /\ \/ kind = "command" /\ RollBack
       \/ /\ kind = "tx" /\ Alive
          /\ pending' = [pending EXCEPT ![step] = 0]
          /\ UNCHANGED conn
       \/ /\ kind = "tx" /\ ~Alive
          /\ conn' \in IF pending[step] = 0 /\ conn = "open"
                       THEN {"open", "dead"} ELSE {conn}
          /\ UNCHANGED pending
    /\ Retry
    /\ UNCHANGED <<kind, outer, inner, run, kept, live, err>>

Backoff ==
    /\ pc = "backoff"
    /\ \/ Alive /\ inner' = inner + 1 /\ Goto("attempt") /\ UNCHANGED err
       \/ /\ ~Alive /\ err' = "ctx" /\ UNCHANGED inner
          /\ IF kind = "tx" THEN Goto("refused") ELSE Return("ctx")
    /\ UNCHANGED <<kind, outer, tx, run, kept, live>>

-----------------------------------------------------------------------------
(* COMMIT, of either loop, and the environment.                            *)

Write == kept' = [s \in Commands |-> kept[s] + pending[s]]

\* When the connection breaks or the caller gives up while COMMIT is under
\* way, the write may have happened.
Commit ==
    /\ pc = "commit"
    /\ \/ /\ conn = "open"
          /\ Write /\ RollBack /\ Return("nil") /\ UNCHANGED <<err, live>>
       \/ /\ \/ conn = "open" /\ Write /\ err' \in Broken /\ UNCHANGED live
             \/ conn = "open" /\ Write /\ err' = "ctx" /\ live' = FALSE
             \/ conn = "open" /\ err' = "rejected" /\ UNCHANGED <<kept, live>>
             \/ err' \in {"other"} \cup Broken /\ UNCHANGED <<kept, live>>
             \/ ~live /\ err' = "ctx" /\ UNCHANGED <<kept, live>>
          /\ IF kind = "tx"
             THEN RollBack /\ Goto("failed")
             ELSE Goto("undo") /\ UNCHANGED tx
    /\ UNCHANGED <<kind, outer, inner, run>>

\* The caller gives up: database/sql rolls the open transaction back.
Cancel ==
    /\ pc # "done" /\ live
    /\ live' = FALSE
    /\ conn' = IF conn = "open" THEN "dead" ELSE conn
    /\ UNCHANGED <<kind, pc, outer, inner, run, pending, kept, err, result>>

\* WithTimeout's deadline for one command of a function.
Expire ==
    /\ Timeouts /\ kind = "tx"
    /\ pc \in {"attempt", "inval", "undo", "backoff"}
    /\ step \notin expired
    /\ expired' = expired \cup {step}
    /\ UNCHANGED <<kind, pc, outer, inner, step, tx, served, kept, live, err,
                   result>>

Proceed ==
    \/ Read \/ Begin \/ Issue \/ FnReturns \/ Refused \/ Failed \/ Wait
    \/ Attempt \/ Invalidate \/ Undo \/ Backoff \/ Commit

Next == Proceed \/ Cancel \/ Expire

Spec == Init /\ [][Next]_vars
FairSpec == Spec /\ WF_vars(Proceed)

-----------------------------------------------------------------------------
(* Properties.                                                             *)

\* Every variable has its type; neither loop passes its bound.
TypeOK ==
    /\ kind \in Kinds /\ pc \in PCs
    /\ outer \in 0 .. MaxRetries /\ inner \in 0 .. MaxAttempts - 1
    /\ step \in 1 .. Steps + 1
    /\ conn \in {"none", "open", "dead"}
    /\ pending \in [Commands -> Nat] /\ kept \in [Commands -> Nat]
    /\ served \subseteq Commands /\ expired \subseteq Commands
    /\ live \in BOOLEAN
    /\ err \in Errors \cup {NoError}
    /\ result \in Errors \cup {"none", "nil", "exhausted"}

\* interfaces.go:35: "Tx executa fn dentro de uma transação atômica."  However
\* often the loops repeat a command, its effect is committed at most once.
\* Holds when no broken connection has 40001 in its text.
AtMostOnce == \A s \in Commands : kept[s] <= 1

\* A call that returns nil has committed what its commands were told, and
\* nothing of a command that failed, unless that command's deadline passed
\* before its savepoint was rolled back; a call that returns an error has
\* committed nothing, unless the connection or the caller was lost at COMMIT.
AllOrNothing ==
    /\ result = "nil" =>
          \A s \in Commands :
             /\ s \in served => kept[s] = 1
             /\ kept[s] # 0 => s \in served \cup expired
    /\ result \notin {"none", "nil", "broken", "ctx"} => kept = Nothing

\* The call ends, whatever fails and however often.
CallEnds == <>(pc = "done")
=============================================================================
