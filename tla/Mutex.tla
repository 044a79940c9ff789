-------------------------------- MODULE Mutex --------------------------------
(***************************************************************************)
(* What the handlers expect of the Redis lock: at any time at most one     *)
(* process is inside the section the lock protects.  RedisLock implements  *)
(* this specification as long as no holder outlives the key.               *)
(***************************************************************************)
CONSTANT Procs
VARIABLE inside

Init == inside = {}

Enter(p) == inside = {} /\ inside' = {p}

Leave(p) == inside = {p} /\ inside' = {}

Next == \E p \in Procs : Enter(p) \/ Leave(p)

Spec == Init /\ [][Next]_inside
=============================================================================
