-------------------------- MODULE RedisLock_proofs ---------------------------
(***************************************************************************)
(* What RedisLock guarantees for every set of requests, every time limit   *)
(* and every fault: the key always has a TTL, and while no handler outlives *)
(* its key the lock excludes, is deleted by its owner only, and implements *)
(* Mutex.                                                                  *)
(***************************************************************************)
EXTENDS RedisLock, TLAPS

LEMMA LockTxValue == ASSUME TypeOK PROVE LockTx = LockTime
BY LockAssumption DEF TypeOK, LockTx, Expire, SetNX, NoTTL

(* The lock key never exists without a TTL, whatever faults occur: SETNX    *)
(* and EXPIRE are one transaction.                                          *)
THEOREM TypeCorrect == Spec => []TypeOK
<1>1. Init => TypeOK
  BY LockAssumption DEF Init, TypeOK
<1>2. TypeOK /\ [Next]_vars => TypeOK'
  <2> SUFFICES ASSUME TypeOK, [Next]_vars PROVE TypeOK'
    OBVIOUS
  <2> USE LockAssumption
  <2>1. LockTx = LockTime
    BY LockTxValue
  <2>2. CASE Tick
    BY <2>2 DEF Tick, TypeOK, Holds
  <2>3. ASSUME NEW p \in Procs, Acquire(p) PROVE TypeOK'
    BY <2>1, <2>3 DEF Acquire, TypeOK
  <2>4. ASSUME NEW p \in Procs, Refused(p) PROVE TypeOK'
    BY <2>1, <2>4 DEF Refused, TypeOK
  <2>5. ASSUME NEW p \in Procs, LoseReply(p) PROVE TypeOK'
    BY <2>1, <2>5 DEF LoseReply, TypeOK
  <2>6. ASSUME NEW p \in Procs, Release(p) PROVE TypeOK'
    BY <2>6 DEF Release, TypeOK
  <2>7. ASSUME NEW p \in Procs, Abandon(p) PROVE TypeOK'
    BY <2>7 DEF Abandon, TypeOK
  <2>8. CASE UNCHANGED vars
    BY <2>8 DEF vars, TypeOK
  <2>9. QED
    BY <2>2, <2>3, <2>4, <2>5, <2>6, <2>7, <2>8 DEF Next
<1>3. QED
  BY <1>1, <1>2, PTL DEF Spec

(* One step keeps every holder the owner of a key that has not been cut     *)
(* short.  Time moves a second from the TTL to the holder's age; a refused  *)
(* request can only raise the TTL; a DEL can only be the single holder's.   *)
LEMMA HolderStep ==
    ASSUME Timely, TypeOK, HolderOwnsKey, [Next]_vars PROVE HolderOwnsKey'
<1> USE LockAssumption DEF Timely
<1>1. LockTx = LockTime
  BY LockTxValue
<1>2. ASSUME NEW p \in Procs, Holds(p) PROVE ttl > 0
  BY <1>2 DEF TypeOK, HolderOwnsKey
<1>3. CASE Tick
  <2> SUFFICES ASSUME NEW p \in Procs, Holds(p)'
               PROVE owner' = p /\ ttl' + age'[p] >= LockTime /\ age'[p] <= Stall
    BY DEF HolderOwnsKey
  <2>1. Holds(p) /\ age[p] < Stall /\ age'[p] = age[p] + 1
    BY <1>3 DEF Tick, Holds, TypeOK
  <2>2. ttl > 0 /\ ttl' = ttl - 1
    BY <1>2, <1>3, <2>1 DEF Tick
  <2>3. ttl' + age'[p] >= LockTime /\ age'[p] <= Stall
    BY <2>1, <2>2 DEF HolderOwnsKey, TypeOK
  <2>4. ttl' > 0
    BY <2>2, <2>3, <2>1 DEF TypeOK
  <2>5. QED
    BY <1>3, <2>1, <2>3, <2>4 DEF Tick, HolderOwnsKey
<1>4. ASSUME NEW p \in Procs, Acquire(p) PROVE HolderOwnsKey'
  <2>1. \A q \in Procs : ~Holds(q)
    BY <1>2, <1>4 DEF Acquire, Absent
  <2>2. QED
    BY <1>1, <1>4, <2>1 DEF Acquire, Holds, HolderOwnsKey, TypeOK
<1>5. ASSUME NEW p \in Procs, Refused(p) PROVE HolderOwnsKey'
  BY <1>1, <1>5 DEF Refused, HolderOwnsKey, Holds, TypeOK
<1>6. ASSUME NEW p \in Procs, LoseReply(p) PROVE HolderOwnsKey'
  <2>1. CASE Absent
    BY <1>2, <1>6, <2>1 DEF LoseReply, Absent, HolderOwnsKey, Holds
  <2>2. CASE ~Absent
    BY <1>1, <1>6, <2>2 DEF LoseReply, HolderOwnsKey, Holds, TypeOK
  <2>3. QED
    BY <2>1, <2>2
<1>7. ASSUME NEW p \in Procs, Release(p) PROVE HolderOwnsKey'
  BY <1>7 DEF Release, HolderOwnsKey, Holds, TypeOK
<1>8. ASSUME NEW p \in Procs, Abandon(p) PROVE HolderOwnsKey'
  BY <1>8 DEF Abandon, HolderOwnsKey, Holds, TypeOK
<1>9. CASE UNCHANGED vars
  BY <1>9 DEF vars, HolderOwnsKey, Holds
<1>10. QED
  BY <1>3, <1>4, <1>5, <1>6, <1>7, <1>8, <1>9 DEF Next

LEMMA HolderInit == Init => HolderOwnsKey
BY DEF Init, HolderOwnsKey, Holds

(* While handlers are faster than the key, a holder's key is present, is    *)
(* its own and has at least the rest of LockTime to live, although refused  *)
(* requests rewrite the TTL and EXEC replies and DELs may be lost.          *)
THEOREM HolderSafe == ASSUME Timely PROVE Spec => []HolderOwnsKey
<1>1. TypeOK /\ HolderOwnsKey /\ [Next]_vars => HolderOwnsKey'
  BY HolderStep
<1>2. QED
  BY <1>1, HolderInit, TypeCorrect, PTL DEF Spec

(* While handlers are faster than the key, the unconditional DEL only ever  *)
(* deletes the key of the request that sends it.                            *)
THEOREM DelSafe == ASSUME Timely PROVE Spec => DelOwnKeyOnly
<1>1. HolderOwnsKey /\ [Next]_vars => [\A p \in Procs : Release(p) => owner = p]_vars
  BY DEF HolderOwnsKey, Release
<1>2. QED
  BY <1>1, HolderSafe, PTL DEF Spec, DelOwnKeyOnly

(* While handlers are faster than the key, the lock implements mutual       *)
(* exclusion: acquiring is Enter, releasing or dying is Leave, and a        *)
(* refusal, a lost reply or a second of time is a stutter.                  *)
THEOREM LockImplementsMutex == ASSUME Timely PROVE Spec => ImplementsMutex
<1> DEFINE inside == {p \in Procs : Holds(p)}
<1>1. Init => M!Init
  BY DEF Init, M!Init, Holds
<1>2. ASSUME TypeOK, HolderOwnsKey, [Next]_vars PROVE [M!Next]_inside
  <2> USE LockAssumption DEF Timely
  <2>1. CASE Tick
    BY <1>2, <2>1 DEF Tick, Holds
  <2>2. ASSUME NEW p \in Procs, Acquire(p) PROVE M!Enter(p)
    <3>1. inside = {}
      BY <1>2, <2>2 DEF Acquire, Absent, HolderOwnsKey, TypeOK
    <3>2. inside' = {p}
      BY <1>2, <2>2, <3>1 DEF Acquire, Holds, TypeOK
    <3>3. QED
      BY <3>1, <3>2 DEF M!Enter
  <2>3. ASSUME NEW p \in Procs, Refused(p) \/ LoseReply(p) PROVE inside' = inside
    BY <2>3 DEF Refused, LoseReply, Holds
  <2>4. ASSUME NEW p \in Procs, Release(p) \/ Abandon(p) PROVE M!Leave(p)
    <3>1. inside = {p}
      BY <1>2, <2>4 DEF Release, Abandon, HolderOwnsKey
    <3>2. inside' = {}
      BY <1>2, <2>4, <3>1 DEF Release, Abandon, Holds, TypeOK
    <3>3. QED
      BY <3>1, <3>2 DEF M!Leave
  <2>5. CASE UNCHANGED vars
    BY <2>5 DEF vars, Holds
  <2>6. QED
    BY <1>2, <2>1, <2>2, <2>3, <2>4, <2>5 DEF Next, M!Next
<1>3. QED
  BY <1>1, <1>2, TypeCorrect, HolderSafe, PTL DEF Spec, ImplementsMutex, M!Spec
=============================================================================
