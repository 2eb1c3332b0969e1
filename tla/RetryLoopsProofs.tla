-------------------------- MODULE RetryLoopsProofs --------------------------
(***************************************************************************)
(* A call has at most one effect, for every number of iterations of either *)
(* loop and of commands in a function.                                     *)
(***************************************************************************)
EXTENDS RetryLoops, TLAPS

InCommand == {"attempt", "inval", "undo", "backoff", "refused"}

\* Where each kind of call can be.
Control ==
    /\ kind = "read" => pc \in {"read", "done"} /\ served = {} /\ kept = Nothing
    /\ kind = "command" =>
          /\ pc \in {"attempt", "inval", "undo", "backoff", "commit", "done"}
          /\ step = 1
    /\ kind = "tx" => pc # "read"
    /\ pc \in InCommand => step \in Commands
    /\ pc # "done" => result = "none" /\ outer < MaxRetries
    /\ pc = "backoff" => inner < MaxAttempts - 1

\* The open transaction holds a command's write at most once, and that of the
\* command whose cache entries are being invalidated.
Once == /\ \A s \in Commands : pending[s] \in {0, 1}
        /\ pc = "inval" => pending[step] = 1

\* Between two iterations nothing is pending.
Empty == pc \in {"read", "begin", "failed", "wait"} => pending = Nothing

\* Of a function: what it was told is pending; what it was not told is not,
\* beyond the command under way and those whose deadline has passed.
FunctionHolds == kind = "tx" =>
    /\ \A s \in Commands : s > step => pending[s] = 0
    /\ pc = "fn" /\ step \in Commands => pending[step] = 0
    /\ pc \in {"attempt", "backoff"} => (pending[step] = 0 \/ ~Alive)
    /\ pc \in InCommand \cup {"fn", "commit"} =>
          \A s \in served : s < step /\ pending[s] = 1
    /\ live /\ conn = "open" /\ pc \in InCommand \cup {"fn", "commit"} =>
          \A s \in Commands : pending[s] = 1 =>
              \/ s \in served \cup expired
              \/ pc \in {"inval", "undo"} /\ s = step
    /\ conn = "open" => live
    /\ pc \in InCommand \cup {"fn", "commit"} => conn # "none"

\* Of a command: it holds its one write when it commits.
CommandHolds == kind = "command" =>
    /\ pc \in {"attempt", "backoff"} => pending = Nothing
    /\ served \subseteq {1} /\ \A s \in Commands : s > 1 => pending[s] = 0
    /\ pc = "commit" => served = {1} /\ pending[1] = 1

\* Nothing was committed before the last COMMIT.
LastCommit ==
    kept # Nothing => \/ pc = "done"
                      \/ pc = "failed" /\ err \in {"broken", "ctx"}
                      \/ /\ kind = "command" /\ pc = "undo"
                         /\ err \in {"broken", "ctx"}

LoopInv ==
    /\ TypeOK /\ Control
    /\ Once /\ Empty /\ FunctionHolds /\ CommandHolds
    /\ LastCommit /\ AtMostOnce /\ AllOrNothing

\* No broken connection has 40001 in its text.
NoBrokenAccident == "broken40001" \notin Texts

USE DEF PCs, InCommand, Commands, Goto, Return, tx, run, NoError

\* Under that assumption neither a broken connection nor an ended context is
\* taken for a rejection.
LEMMA ErrorKinds ==
    ASSUME NoBrokenAccident
    PROVE  /\ Broken = {"broken"}
           /\ ~IsSerializationFailure("broken") /\ ~IsSerializationFailure("ctx")
           /\ Other \subseteq Errors /\ Other \subseteq {"other", "other40001"}
           /\ {"rejected", "broken", "ctx", "other"} \subseteq Errors
           /\ "none" \notin Errors /\ "nil" \notin Errors
           /\ "exhausted" \notin Errors
BY TextsAreAccidents
   DEF NoBrokenAccident, Broken, Other, Errors, IsSerializationFailure, Accidents

LEMMA NothingPending ==
    Nothing \in [Commands -> Nat] /\ \A s \in Commands : Nothing[s] = 0
BY DEF Nothing

LEMMA InitLoop == Init => LoopInv
<1> SUFFICES ASSUME Init PROVE LoopInv
  OBVIOUS
<1>1. TypeOK
  BY LoopBounds, KindsOfCalls DEF Init, TypeOK, Kinds, Nothing
<1>2. Control
  BY LoopBounds, KindsOfCalls DEF Init, Control, Kinds, Nothing
<1>3. Once /\ Empty /\ LastCommit /\ AtMostOnce
  BY NothingPending, KindsOfCalls DEF Init, Once, Empty, LastCommit, AtMostOnce, Kinds
<1>4. FunctionHolds /\ CommandHolds
  BY NothingPending DEF Init, FunctionHolds, CommandHolds
<1>5. AllOrNothing
  BY DEF Init, AllOrNothing
<1>6. QED
  BY <1>1, <1>2, <1>3, <1>4, <1>5 DEF LoopInv

\* A query commits nothing.
LEMMA ReadKeepsInv == ASSUME NoBrokenAccident, LoopInv, Read PROVE LoopInv'
<1> USE LoopBounds, ErrorKinds, NothingPending DEF LoopInv, TypeOK, Control, Read, Broken, Other
<1>1. TypeOK'
  OBVIOUS
<1>2. Control'
  OBVIOUS
<1>3. Once'
  BY DEF Once, Empty, FunctionHolds, CommandHolds
<1>4. Empty'
  BY DEF Empty, CommandHolds
<1>5. FunctionHolds'
  BY DEF Once, FunctionHolds, Empty
<1>6. CommandHolds'
  BY DEF Once, CommandHolds
<1>7. LastCommit'
  BY DEF LastCommit
<1>8. AtMostOnce'
  BY DEF AtMostOnce, Once, LastCommit
<1>9. AllOrNothing'
  <2>1. kind = "read"
    BY DEF Kinds
  <2>2. QED
    BY <2>1 DEF AllOrNothing
<1>10. QED
  BY <1>1, <1>2, <1>3, <1>4, <1>5, <1>6, <1>7, <1>8, <1>9

\* A new iteration starts from an empty transaction.
LEMMA BeginKeepsInv == ASSUME NoBrokenAccident, LoopInv, Begin PROVE LoopInv'
<1> USE LoopBounds, ErrorKinds, NothingPending DEF LoopInv, TypeOK, Control, Begin
<1>1. TypeOK'
  OBVIOUS
<1>2. Control'
  OBVIOUS
<1>3. Once'
  BY DEF Once, Empty, FunctionHolds, CommandHolds
<1>4. Empty'
  BY DEF Empty, CommandHolds
<1>5. FunctionHolds'
  BY DEF Once, FunctionHolds, Empty
<1>6. CommandHolds'
  BY DEF Once, CommandHolds
<1>7. LastCommit'
  BY DEF LastCommit
<1>8. AtMostOnce'
  BY DEF AtMostOnce, Once, LastCommit
<1>9. AllOrNothing'
  BY DEF AllOrNothing, LastCommit, Once, Empty, FunctionHolds, CommandHolds
<1>10. QED
  BY <1>1, <1>2, <1>3, <1>4, <1>5, <1>6, <1>7, <1>8, <1>9

\* Issuing a command writes nothing yet.
LEMMA IssueKeepsInv == ASSUME NoBrokenAccident, LoopInv, Issue PROVE LoopInv'
<1> USE LoopBounds, ErrorKinds, NothingPending DEF LoopInv, TypeOK, Control, Issue, Alive
<1>1. TypeOK'
  OBVIOUS
<1>2. Control'
  OBVIOUS
<1>3. Once'
  BY DEF Once, Empty, FunctionHolds, CommandHolds
<1>4. Empty'
  BY DEF Empty, CommandHolds
<1>5. FunctionHolds'
  BY DEF Once, FunctionHolds, Empty
<1>6. CommandHolds'
  BY DEF Once, CommandHolds
<1>7. LastCommit'
  BY DEF LastCommit
<1>8. AtMostOnce'
  BY DEF AtMostOnce, Once, LastCommit
<1>9. AllOrNothing'
  BY DEF AllOrNothing, LastCommit, Once, Empty, FunctionHolds, CommandHolds
<1>10. QED
  BY <1>1, <1>2, <1>3, <1>4, <1>5, <1>6, <1>7, <1>8, <1>9

\* A function that fails is rolled back.
LEMMA FnReturnsKeepsInv == ASSUME NoBrokenAccident, LoopInv, FnReturns PROVE LoopInv'
<1> USE LoopBounds, ErrorKinds, NothingPending DEF LoopInv, TypeOK, Control, FnReturns, RollBack
<1>1. TypeOK'
  OBVIOUS
<1>2. Control'
  OBVIOUS
<1>3. Once'
  BY DEF Once, Empty, FunctionHolds, CommandHolds
<1>4. Empty'
  BY DEF Empty, CommandHolds
<1>5. FunctionHolds'
  BY DEF Once, FunctionHolds, Empty
<1>6. CommandHolds'
  BY DEF Once, CommandHolds
<1>7. LastCommit'
  BY DEF LastCommit
<1>8. AtMostOnce'
  BY DEF AtMostOnce, Once, LastCommit
<1>9. AllOrNothing'
  BY DEF AllOrNothing, LastCommit, Once, Empty, FunctionHolds, CommandHolds
<1>10. QED
  BY <1>1, <1>2, <1>3, <1>4, <1>5, <1>6, <1>7, <1>8, <1>9

\* A command that failed is left behind, or everything is.
LEMMA RefusedKeepsInv == ASSUME NoBrokenAccident, LoopInv, Refused PROVE LoopInv'
<1> USE LoopBounds, ErrorKinds, NothingPending DEF LoopInv, TypeOK, Control, Refused, RollBack
<1>1. TypeOK'
  <2>1. CASE RollBack /\ Goto("failed") /\ UNCHANGED step
    BY <2>1
  <2>2. CASE step' = step + 1 /\ Goto("fn") /\ UNCHANGED tx
    BY <2>2
  <2>3. QED
    BY <2>1, <2>2
<1>2. Control'
  OBVIOUS
<1>3. Once'
  BY DEF Once, Empty, FunctionHolds, CommandHolds
<1>4. Empty'
  BY DEF Empty, CommandHolds
<1>5. FunctionHolds'
  <2>1. CASE RollBack /\ Goto("failed") /\ UNCHANGED step
    BY <2>1 DEF FunctionHolds
  <2>2. CASE step' = step + 1 /\ Goto("fn") /\ UNCHANGED tx
    BY <2>2 DEF FunctionHolds
  <2>3. QED
    BY <2>1, <2>2
<1>6. CommandHolds'
  BY DEF Once, CommandHolds
<1>7. LastCommit'
  BY DEF LastCommit
<1>8. AtMostOnce'
  BY DEF AtMostOnce, Once, LastCommit
<1>9. AllOrNothing'
  BY DEF AllOrNothing, LastCommit, Once, Empty, FunctionHolds, CommandHolds
<1>10. QED
  BY <1>1, <1>2, <1>3, <1>4, <1>5, <1>6, <1>7, <1>8, <1>9

\* Only a rejected transaction, which kept nothing, is run again.
LEMMA FailedKeepsInv == ASSUME NoBrokenAccident, LoopInv, Failed PROVE LoopInv'
<1> USE LoopBounds, ErrorKinds, NothingPending DEF LoopInv, TypeOK, Control, Failed, IsSerializationFailure
<1>1. TypeOK'
  OBVIOUS
<1>2. Control'
  OBVIOUS
<1>3. Once'
  BY DEF Once, Empty, FunctionHolds, CommandHolds
<1>4. Empty'
  BY DEF Empty, CommandHolds
<1>5. FunctionHolds'
  BY DEF Once, FunctionHolds, Empty
<1>6. CommandHolds'
  BY DEF Once, CommandHolds
<1>7. LastCommit'
  BY DEF LastCommit
<1>8. AtMostOnce'
  BY DEF AtMostOnce, Once, LastCommit
<1>9. AllOrNothing'
  BY DEF AllOrNothing, LastCommit, Once, Empty, FunctionHolds, CommandHolds
<1>10. QED
  BY <1>1, <1>2, <1>3, <1>4, <1>5, <1>6, <1>7, <1>8, <1>9

\* The loop goes on or ends; nothing has been kept.
LEMMA WaitKeepsInv == ASSUME NoBrokenAccident, LoopInv, Wait PROVE LoopInv'
<1> USE LoopBounds, ErrorKinds, NothingPending DEF LoopInv, TypeOK, Control, Wait
<1>1. TypeOK'
  OBVIOUS
<1>2. Control'
  OBVIOUS
<1>3. Once'
  BY DEF Once, Empty, FunctionHolds, CommandHolds
<1>4. Empty'
  BY DEF Empty, CommandHolds
<1>5. FunctionHolds'
  BY DEF Once, FunctionHolds, Empty
<1>6. CommandHolds'
  BY DEF Once, CommandHolds
<1>7. LastCommit'
  BY DEF LastCommit
<1>8. AtMostOnce'
  BY DEF AtMostOnce, Once, LastCommit
<1>9. AllOrNothing'
  BY DEF AllOrNothing, LastCommit, Once, Empty, FunctionHolds, CommandHolds
<1>10. QED
  BY <1>1, <1>2, <1>3, <1>4, <1>5, <1>6, <1>7, <1>8, <1>9

\* A statement writes once: what an earlier attempt wrote is gone.
LEMMA AttemptKeepsInv == ASSUME NoBrokenAccident, LoopInv, Attempt PROVE LoopInv'
<1> USE LoopBounds, ErrorKinds, NothingPending DEF LoopInv, TypeOK, Control, Attempt, Alive
<1>1. TypeOK'
  <2>1. err' \in Errors \cup {NoError}
    BY DEF Broken, Other, Errors
  <2>2. pending' \in [Commands -> Nat]
    OBVIOUS
  <2>3. QED
    BY <2>1, <2>2
<1>2. Control'
  OBVIOUS
<1>3. Once'
  <2>1. CASE pending' = pending
    BY <2>1 DEF Once
  <2>2. CASE Alive /\ pending' = [pending EXCEPT ![step] = @ + 1]
    <3>1. pending[step] = 0
      BY <2>2 DEF FunctionHolds, CommandHolds, Kinds, Nothing
    <3>2. QED
      BY <2>2, <3>1 DEF Once
  <2>3. QED
    BY <2>1, <2>2
<1>4. Empty'
  BY DEF Empty, CommandHolds
<1>5. FunctionHolds'
  <2>1. CASE pending' = pending
    BY <2>1 DEF FunctionHolds
  <2>2. CASE Alive /\ pending' = [pending EXCEPT ![step] = @ + 1] /\ pc' = "inval"
    <3>1. \A s \in Commands : s # step => pending'[s] = pending[s]
      BY <2>2
    <3>2. step \in Commands /\ pc = "attempt" /\ UNCHANGED <<run, live, kind>>
      OBVIOUS
    <3>3. ASSUME kind = "tx"
          PROVE  /\ \A s \in Commands : s > step => pending'[s] = 0
                 /\ \A s \in served : s < step /\ pending'[s] = 1
      BY <3>1, <3>2, <3>3 DEF FunctionHolds
    <3>4. ASSUME kind = "tx", live, NEW s \in Commands, pending'[s] = 1
          PROVE  s \in served \cup expired \/ s = step
      <4>1. conn = "open"
        BY <2>2, <3>2, <3>4 DEF FunctionHolds
      <4>2. QED
        BY <3>1, <3>2, <3>4, <4>1 DEF FunctionHolds
    <3>5. QED
      BY <2>2, <3>2, <3>3, <3>4 DEF FunctionHolds
  <2>3. QED
    BY <2>1, <2>2
<1>6. CommandHolds'
  BY DEF Once, CommandHolds
<1>7. LastCommit'
  BY DEF LastCommit
<1>8. AtMostOnce'
  BY DEF AtMostOnce, Once, LastCommit
<1>9. AllOrNothing'
  BY DEF AllOrNothing, LastCommit, Once, Empty, FunctionHolds, CommandHolds
<1>10. QED
  BY <1>1, <1>2, <1>3, <1>4, <1>5, <1>6, <1>7, <1>8, <1>9

\* A command that ends well is in the transaction, once.
LEMMA InvalidateKeepsInv == ASSUME NoBrokenAccident, LoopInv, Invalidate PROVE LoopInv'
<1> USE LoopBounds, ErrorKinds, NothingPending DEF LoopInv, TypeOK, Control, Invalidate, Alive
<1>1. TypeOK'
  <2>1. err' \in Errors \cup {NoError}
    BY DEF Broken, Other, Errors
  <2>2. step \in Commands
    OBVIOUS
  <2>3. step' \in 1 .. Steps + 1 /\ served' \subseteq Commands
    <3>1. step' \in {step, step + 1} /\ served' \in {served, served \cup {step}}
      OBVIOUS
    <3>2. step + 1 \in 1 .. Steps + 1
      BY <2>2
    <3>3. QED
      BY <2>2, <3>1, <3>2
  <2>4. QED
    BY <2>1, <2>3
<1>2. Control'
  OBVIOUS
<1>3. Once'
  BY DEF Once, Empty, FunctionHolds, CommandHolds
<1>4. Empty'
  BY DEF Empty, CommandHolds
<1>5. FunctionHolds'
  <2>1. CASE kind = "tx" /\ pc' = "fn"
    <3>1. step' = step + 1 /\ served' = served \cup {step} /\ pending' = pending
      BY <2>1
    <3>2. QED
      BY <2>1, <3>1 DEF Once, FunctionHolds
  <2>2. CASE kind = "tx" /\ pc' = "undo"
    BY <2>2 DEF Once, FunctionHolds
  <2>3. QED
    BY <2>1, <2>2 DEF FunctionHolds
<1>6. CommandHolds'
  BY DEF Once, CommandHolds
<1>7. LastCommit'
  BY DEF LastCommit
<1>8. AtMostOnce'
  BY DEF AtMostOnce, Once, LastCommit
<1>9. AllOrNothing'
  BY DEF AllOrNothing, LastCommit, Once, Empty, FunctionHolds, CommandHolds
<1>10. QED
  BY <1>1, <1>2, <1>3, <1>4, <1>5, <1>6, <1>7, <1>8, <1>9

\* Savepoints undo what failed, unless their command has expired.
LEMMA UndoKeepsInv == ASSUME NoBrokenAccident, LoopInv, Undo PROVE LoopInv'
<1> USE LoopBounds, ErrorKinds, NothingPending DEF LoopInv, TypeOK, Control, Undo, Retry, RollBack, Alive, IsSerializationFailure
<1>1. TypeOK'
  <2>1. pending' \in [Commands -> Nat] /\ conn' \in {"none", "open", "dead"}
    <3>1. CASE kind = "command" /\ RollBack
      BY <3>1
    <3>2. CASE pending' = [pending EXCEPT ![step] = 0] /\ UNCHANGED conn
      BY <3>2
    <3>3. CASE UNCHANGED pending /\ conn' \in {"open", "dead", conn}
      BY <3>3
    <3>4. QED
      BY <3>1, <3>2, <3>3
  <2>2. pc' \in PCs /\ result' \in Errors \cup {"none", "nil", "exhausted"}
    OBVIOUS
  <2>3. QED
    BY <2>1, <2>2
<1>2. Control'
  OBVIOUS
<1>3. Once'
  BY DEF Once, Empty, FunctionHolds, CommandHolds
<1>4. Empty'
  BY DEF Empty, CommandHolds
<1>5. FunctionHolds'
  BY DEF Once, FunctionHolds, Empty
<1>6. CommandHolds'
  BY DEF Once, CommandHolds
<1>7. LastCommit'
  BY DEF LastCommit
<1>8. AtMostOnce'
  BY DEF AtMostOnce, Once, LastCommit
<1>9. AllOrNothing'
  BY DEF AllOrNothing, LastCommit, Once, Empty, FunctionHolds, CommandHolds
<1>10. QED
  BY <1>1, <1>2, <1>3, <1>4, <1>5, <1>6, <1>7, <1>8, <1>9

\* Only what was undone is tried again.
LEMMA BackoffKeepsInv == ASSUME NoBrokenAccident, LoopInv, Backoff PROVE LoopInv'
<1> USE LoopBounds, ErrorKinds, NothingPending DEF LoopInv, TypeOK, Control, Backoff, Alive
<1>1. TypeOK'
  OBVIOUS
<1>2. Control'
  OBVIOUS
<1>3. Once'
  BY DEF Once, Empty, FunctionHolds, CommandHolds
<1>4. Empty'
  BY DEF Empty, CommandHolds
<1>5. FunctionHolds'
  BY DEF Once, FunctionHolds, Empty
<1>6. CommandHolds'
  BY DEF Once, CommandHolds
<1>7. LastCommit'
  BY DEF LastCommit
<1>8. AtMostOnce'
  BY DEF AtMostOnce, Once, LastCommit
<1>9. AllOrNothing'
  BY DEF AllOrNothing, LastCommit, Once, Empty, FunctionHolds, CommandHolds
<1>10. QED
  BY <1>1, <1>2, <1>3, <1>4, <1>5, <1>6, <1>7, <1>8, <1>9

\* COMMIT keeps what is pending; nothing was kept before.
LEMMA CommitKeepsInv == ASSUME NoBrokenAccident, LoopInv, Commit PROVE LoopInv'
<1> USE LoopBounds, ErrorKinds, NothingPending DEF LoopInv, TypeOK, Control
<1>1. pc = "commit" /\ kind \in {"command", "tx"} /\ kept = Nothing
  BY DEF Commit, Kinds, LastCommit
<1>2. CASE /\ conn = "open" /\ Write /\ RollBack
           /\ Return("nil") /\ UNCHANGED <<err, live, kind, outer, inner, run>>
  <2>1. kept' = pending
    BY <1>1, <1>2 DEF Write
  <2>2. TypeOK' /\ Control'
    BY <1>1, <1>2, <2>1 DEF RollBack
  <2>3. Once' /\ Empty' /\ FunctionHolds' /\ CommandHolds' /\ LastCommit'
    BY <1>1, <1>2, <2>1 DEF RollBack, Once, Empty, FunctionHolds, CommandHolds, LastCommit
  <2>4. AtMostOnce'
    BY <2>1 DEF AtMostOnce, Once
  <2>5. AllOrNothing'
    BY <1>1, <1>2, <2>1 DEF AllOrNothing, Once, FunctionHolds, CommandHolds
  <2>6. QED
    BY <2>2, <2>3, <2>4, <2>5
<1>3. ASSUME \/ kept' = pending /\ err' \in {"broken", "ctx"}
             \/ kept' = Nothing /\ err' \in Errors,
             live' = live \/ live' = FALSE,
             IF kind = "tx" THEN RollBack /\ Goto("failed")
                            ELSE Goto("undo") /\ UNCHANGED tx,
             UNCHANGED <<kind, outer, inner, run>>
      PROVE  LoopInv'
  <2>1. TypeOK' /\ Control'
    <3>1. pending' \in [Commands -> Nat] /\ kept' \in [Commands -> Nat]
      BY <1>1, <1>3 DEF RollBack
    <3>2. err' \in Errors
      BY <1>3
    <3>3. CASE kind = "tx"
      BY <1>1, <1>3, <3>1, <3>2, <3>3 DEF RollBack
    <3>4. CASE kind = "command"
      <4>1. Goto("undo") /\ UNCHANGED tx
        BY <1>3, <3>4
      <4>2. TypeOK'
        BY <1>1, <1>3, <3>1, <3>2, <3>4, <4>1
      <4>3. Control'
        BY <1>1, <1>3, <3>4, <4>1
      <4>4. QED
        BY <4>2, <4>3
    <3>5. QED
      BY <1>1, <3>3, <3>4
  <2>2. Once' /\ Empty'
    BY <1>1, <1>3 DEF RollBack, Once, Empty
  <2>3. FunctionHolds' /\ CommandHolds'
    BY <1>1, <1>3 DEF RollBack, FunctionHolds, CommandHolds
  <2>4. LastCommit'
    BY <1>1, <1>3 DEF LastCommit
  <2>5. AtMostOnce'
    BY <1>1, <1>3 DEF AtMostOnce, Once
  <2>6. AllOrNothing'
    BY <1>1, <1>3, <2>1 DEF AllOrNothing
  <2>7. QED
    BY <2>1, <2>2, <2>3, <2>4, <2>5, <2>6
<1>4. Write => kept' = pending
  BY <1>1 DEF Write
<1>5. QED
  BY <1>1, <1>2, <1>3, <1>4 DEF Commit

\* A caller that gives up kills the transaction.
LEMMA CancelKeepsInv == ASSUME NoBrokenAccident, LoopInv, Cancel PROVE LoopInv'
<1> USE LoopBounds, ErrorKinds, NothingPending DEF LoopInv, TypeOK, Control, Cancel, Alive
<1>1. TypeOK'
  OBVIOUS
<1>2. Control'
  OBVIOUS
<1>3. Once'
  BY DEF Once, Empty, FunctionHolds, CommandHolds
<1>4. Empty'
  BY DEF Empty, CommandHolds
<1>5. FunctionHolds'
  BY DEF Once, FunctionHolds, Empty
<1>6. CommandHolds'
  BY DEF Once, CommandHolds
<1>7. LastCommit'
  BY DEF LastCommit
<1>8. AtMostOnce'
  BY DEF AtMostOnce, Once, LastCommit
<1>9. AllOrNothing'
  BY DEF AllOrNothing, LastCommit, Once, Empty, FunctionHolds, CommandHolds
<1>10. QED
  BY <1>1, <1>2, <1>3, <1>4, <1>5, <1>6, <1>7, <1>8, <1>9

\* A deadline passes.
LEMMA ExpireKeepsInv == ASSUME NoBrokenAccident, LoopInv, Expire PROVE LoopInv'
<1> USE LoopBounds, ErrorKinds, NothingPending DEF LoopInv, TypeOK, Control, Expire, Alive
<1>1. TypeOK'
  OBVIOUS
<1>2. Control'
  OBVIOUS
<1>3. Once'
  BY DEF Once, Empty, FunctionHolds, CommandHolds
<1>4. Empty'
  BY DEF Empty, CommandHolds
<1>5. FunctionHolds'
  BY DEF Once, FunctionHolds, Empty
<1>6. CommandHolds'
  BY DEF Once, CommandHolds
<1>7. LastCommit'
  BY DEF LastCommit
<1>8. AtMostOnce'
  BY DEF AtMostOnce, Once, LastCommit
<1>9. AllOrNothing'
  BY DEF AllOrNothing, LastCommit, Once, Empty, FunctionHolds, CommandHolds
<1>10. QED
  BY <1>1, <1>2, <1>3, <1>4, <1>5, <1>6, <1>7, <1>8, <1>9

\* Every step keeps the invariant.
LEMMA NextLoop == ASSUME NoBrokenAccident, LoopInv, [Next]_vars PROVE LoopInv'
<1>1. CASE Read
  BY <1>1, ReadKeepsInv
<1>2. CASE Begin
  BY <1>2, BeginKeepsInv
<1>3. CASE Issue
  BY <1>3, IssueKeepsInv
<1>4. CASE FnReturns
  BY <1>4, FnReturnsKeepsInv
<1>5. CASE Refused
  BY <1>5, RefusedKeepsInv
<1>6. CASE Failed
  BY <1>6, FailedKeepsInv
<1>7. CASE Wait
  BY <1>7, WaitKeepsInv
<1>8. CASE Attempt
  BY <1>8, AttemptKeepsInv
<1>9. CASE Invalidate
  BY <1>9, InvalidateKeepsInv
<1>10. CASE Undo
  BY <1>10, UndoKeepsInv
<1>11. CASE Backoff
  BY <1>11, BackoffKeepsInv
<1>12. CASE Commit
  BY <1>12, CommitKeepsInv
<1>13. CASE Cancel
  BY <1>13, CancelKeepsInv
<1>14. CASE Expire
  BY <1>14, ExpireKeepsInv
<1>15. CASE UNCHANGED vars
  BY <1>15 DEF vars, LoopInv, TypeOK, Control, Once, Empty, FunctionHolds,
               CommandHolds, LastCommit, AtMostOnce, AllOrNothing, Alive
<1>16. QED
  BY <1>1, <1>2, <1>3, <1>4, <1>5, <1>6, <1>7, <1>8, <1>9, <1>10, <1>11,
     <1>12, <1>13, <1>14, <1>15 DEF Next, Proceed

\* Neither loop passes its bound, whatever the bounds are, and every variable
\* of a call has its type: the attempts of a command never exceed maxAttempts,
\* the iterations of Tx never maxRetries.
THEOREM LoopsAreBounded == ASSUME NoBrokenAccident PROVE Spec => []TypeOK
<1>1. Init => LoopInv
  BY InitLoop
<1>2. LoopInv /\ [Next]_vars => LoopInv'
  BY NextLoop
<1>3. LoopInv => TypeOK
  BY DEF LoopInv
<1>4. QED
  BY <1>1, <1>2, <1>3, PTL DEF Spec

\* A command is committed at most once, however often runSerializableTx and
\* runWithRetry repeat it, if no broken connection has 40001 in its text.
THEOREM EffectAtMostOnce == ASSUME NoBrokenAccident PROVE Spec => []AtMostOnce
<1>1. Init => LoopInv
  BY InitLoop
<1>2. LoopInv /\ [Next]_vars => LoopInv'
  BY NextLoop
<1>3. LoopInv => AtMostOnce
  BY DEF LoopInv
<1>4. QED
  BY <1>1, <1>2, <1>3, PTL DEF Spec

\* What the caller is told is what was committed: all that its commands were
\* told when it is nil, nothing when it is an error that names its cause.
THEOREM CallIsAllOrNothing ==
    ASSUME NoBrokenAccident PROVE Spec => []AllOrNothing
<1>1. Init => LoopInv
  BY InitLoop
<1>2. LoopInv /\ [Next]_vars => LoopInv'
  BY NextLoop
<1>3. LoopInv => AllOrNothing
  BY DEF LoopInv
<1>4. QED
  BY <1>1, <1>2, <1>3, PTL DEF Spec
=============================================================================
