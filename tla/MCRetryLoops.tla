---------------------------- MODULE MCRetryLoops ----------------------------
(***************************************************************************)
(* Instances of RetryLoops for TLC: all kinds of calls, or one.            *)
(***************************************************************************)
EXTENDS RetryLoops
AllCalls == Kinds
Transactions == {"tx"}
=============================================================================
