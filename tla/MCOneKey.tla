------------------------------ MODULE MCOneKey ------------------------------
(***************************************************************************)
(* Instances of CacheAside for TLC that look at one entry of the cache at  *)
(* a time.  An invalidation deletes key by key and no property relates two *)
(* keys: a behaviour asks for the answers under one key, any of them.      *)
(***************************************************************************)
EXTENDS MCCacheAside

VARIABLE focus

FocusInit == Init /\ focus \in {q.key : q \in Queries}
FocusNext ==
    /\ Next
    /\ \A p \in Procs : arg'[p] \in Queries => arg'[p].key = focus
    /\ UNCHANGED focus
FocusSpec == FocusInit /\ [][FocusNext]_<<vars, focus>>
=============================================================================
