------------------------------ MODULE RedisLock ------------------------------
(***************************************************************************)
(* The lock every money and setup handler takes before it reads Redis:     *)
(*                                                                         *)
(*     MULTI; SETNX lock+playerid "1"; EXPIRE lock+playerid LockTime; EXEC *)
(*     if the SETNX reply is 0, answer "too fast" and return               *)
(*     defer DEL lock+playerid                                             *)
(*                                                                         *)
(* One key is modelled, with the requests (Procs) that compete for it and  *)
(* the time (in seconds, one per Tick) its TTL is counted in.  EXPIRE runs *)
(* whatever SETNX answered, so a refused request refreshes the TTL of the  *)
(* key it was refused by; DEL is sent by whoever got the lock and does not *)
(* look at who owns the key now.  There is no retry in a handler: a client *)
(* that is refused sends a new request, so a process goes back to "idle".  *)
(***************************************************************************)
EXTENDS Integers

CONSTANTS Procs,     \* the requests of one player for one handler
          LockTime,  \* gconst.LockTime, in ticks
          Stall,     \* ticks a handler may take from its EXEC to its DEL
          Faults,    \* may an EXEC reply or a DEL be lost, or the server die?
          NoProc     \* nobody

ASSUME LockAssumption == /\ LockTime \in Nat \ {0}
                         /\ Stall \in Nat
                         /\ Faults \in BOOLEAN
                         /\ NoProc \notin Procs

VARIABLES ttl,     \* the key: 0 when absent, NoTTL, or the ticks it has left
          owner,   \* ghost: the process whose SETNX made the key and holds on
          pc,      \* "idle" or "held": between the EXEC reply and the DEL
          age      \* ticks since a holder's EXEC
vars == <<ttl, owner, pc, age>>

\* The condition under which the lock excludes: no handler outlives its key.
Timely == Stall < LockTime

NoTTL == -1

Absent == ttl = 0

Holds(p) == pc[p] = "held"

Init == /\ ttl = 0
        /\ owner = NoProc
        /\ pc = [p \in Procs |-> "idle"]
        /\ age = [p \in Procs |-> 0]

-----------------------------------------------------------------------------
(* The Redis commands on the key.                                          *)

SetNX(t) == IF t = 0 THEN NoTTL ELSE t

\* Mutants: the EXPIRE is left out of the transaction; the limit is too short.
ExpireForgotten(t) == t
ExpireShort(t) == IF t = 0 THEN 0 ELSE 1

Expire(t) == IF t = 0 THEN 0 ELSE LockTime

LockTx == Expire(SetNX(ttl))

-----------------------------------------------------------------------------
(* The handler.                                                            *)

\* The key was absent: this request owns it and goes on to its own work.
Acquire(p) ==
    /\ pc[p] = "idle" /\ Absent
    /\ ttl' = LockTx
    /\ owner' = p
    /\ pc' = [pc EXCEPT ![p] = "held"]
    /\ age' = [age EXCEPT ![p] = 0]

\* Mutant: the deferred DEL is registered before the SETNX reply is looked at.
RefusedDels(p) ==
    /\ pc[p] = "idle" /\ ~Absent
    /\ ttl' = 0
    /\ owner' = NoProc
    /\ UNCHANGED <<pc, age>>

\* The key was there: "too fast", but the EXPIRE has run.
Refused(p) ==
    /\ pc[p] = "idle" /\ ~Absent
    /\ ttl' = LockTx
    /\ UNCHANGED <<owner, pc, age>>

\* EXEC took effect and its reply was lost: the handler answers ErrRedis and
\* returns before it has deferred the DEL, so the key has no owner.
LoseReply(p) ==
    /\ Faults /\ pc[p] = "idle"
    /\ ttl' = LockTx
    /\ owner' = IF Absent THEN NoProc ELSE owner
    /\ UNCHANGED <<pc, age>>

\* The deferred DEL, whoever owns the key by now.
Release(p) ==
    /\ Holds(p)
    /\ ttl' = 0
    /\ owner' = NoProc
    /\ pc' = [pc EXCEPT ![p] = "idle"]
    /\ UNCHANGED age

\* The server dies under the handler, or its DEL does not arrive.
Abandon(p) ==
    /\ Faults /\ Holds(p)
    /\ pc' = [pc EXCEPT ![p] = "idle"]
    /\ owner' = IF owner = p THEN NoProc ELSE owner
    /\ UNCHANGED <<ttl, age>>

\* A second passes.  No holder is slower than Stall: it releases first.
Tick ==
    /\ \A p \in Procs : Holds(p) => age[p] < Stall
    /\ ttl' = IF ttl > 0 THEN ttl - 1 ELSE ttl
    /\ owner' = IF ttl' = 0 THEN NoProc ELSE owner
    /\ age' = [p \in Procs |-> IF Holds(p) THEN age[p] + 1 ELSE age[p]]
    /\ UNCHANGED pc

Next == \/ Tick
        \/ \E p \in Procs : \/ Acquire(p) \/ Refused(p) \/ LoseReply(p)
                            \/ Release(p) \/ Abandon(p)

\* Time passes and a handler that is running comes to its end; nothing makes a
\* client send a request, and a fault need not happen.
Fairness == /\ WF_vars(Tick)
            /\ \A p \in Procs : WF_vars(Release(p))

Spec == Init /\ [][Next]_vars

FairSpec == Spec /\ Fairness

-----------------------------------------------------------------------------
(* The key always carries a TTL: SETNX and EXPIRE run in one transaction,   *)
(* so no interleaving and no fault leaves a lock that never expires.        *)
TypeOK == /\ ttl \in 0..LockTime
          /\ owner \in Procs \cup {NoProc}
          /\ pc \in [Procs -> {"idle", "held"}]
          /\ age \in [Procs -> 0..Stall]

(* A holder's key is still there, is the one it made, and has not been      *)
(* shortened: what it was given minus the time it has used.                 *)
HolderOwnsKey == \A p \in Procs :
    Holds(p) => owner = p /\ ttl + age[p] >= LockTime /\ age[p] <= Stall

(* The unconditional DEL never removes a key that another request made.     *)
DelOwnKeyOnly == [][\A p \in Procs : Release(p) => owner = p]_vars

(* Once refused requests stop coming, no key survives: whatever was lost or *)
(* crashed, the lock frees itself.  While they keep coming it need not:     *)
(* each one gives an orphaned key another LockTime.                         *)
Quiet == <>[][\A p \in Procs : ~Refused(p) /\ ~LoseReply(p)]_vars
FreesItself == Quiet => []<>Absent

(* The lock implements mutual exclusion.                                    *)
M == INSTANCE Mutex WITH inside <- {p \in Procs : Holds(p)}
ImplementsMutex == M!Spec
=============================================================================
