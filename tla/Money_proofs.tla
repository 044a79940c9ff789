---------------------------- MODULE Money_proofs -----------------------------
(***************************************************************************)
(* What the money handlers guarantee for every number of requests, players *)
(* and days, every quota and reward, whether or not calls fail and locks   *)
(* expire: nothing is typed wrongly (no balance below zero, no quota above *)
(* the configured one) and nothing is ever credited twice.  Then, what     *)
(* timely locks add, and what a client that waits for each answer gets.    *)
(***************************************************************************)
EXTENDS Money, FiniteSetTheorems, TLAPS

\* A request that has arrived belongs to a player and was sent to a handler.
LEMMA Arrived ==
    ASSUME TypeOK, NEW r \in Reqs, pc[r] # "new"
    PROVE  who[r] \in Players /\ kind[r] \in AllKinds
BY DEF TypeOK

LEMMA TypeInit == Init => TypeOK
BY MoneyAssumption DEF Init, TypeOK, ChargedOK, Days, Zero, NoSnap, Snaps, Idle, Busy, Holding, NoKey

\* What a request holds stays typed when it is cleared or a field is set.
LEMMA SnapTyped ==
    /\ NoSnap \in Snaps
    /\ \A s \in Snaps : s.amount \in Nat /\ s.money \in Nat
    /\ \A s \in Snaps, x \in Amounts : [s EXCEPT !.amount = x] \in Snaps
    /\ \A s \in Snaps, n \in Nat : [s EXCEPT !.money = n] \in Snaps
<1> USE MoneyAssumption
<1>1. NoSnap \in Snaps
  BY DEF NoSnap, Snaps, Days
<1>2. ASSUME NEW s \in Snaps PROVE s.amount \in Nat /\ s.money \in Nat
  <2>1. s.amount \in Amounts \cup {0} /\ s.money \in Nat
    BY DEF Snaps
  <2>2. CASE s.amount \in Amounts
    BY <2>1, <2>2
  <2>3. CASE s.amount = 0
    BY <2>1, <2>3
  <2>4. QED
    BY <2>1, <2>2, <2>3
<1>3. ASSUME NEW s \in Snaps, NEW x \in Amounts PROVE [s EXCEPT !.amount = x] \in Snaps
  BY DEF Snaps
<1>4. ASSUME NEW s \in Snaps, NEW n \in Nat PROVE [s EXCEPT !.money = n] \in Snaps
  BY DEF Snaps
<1>5. QED
  BY <1>1, <1>2, <1>3, <1>4

\* What a see handler is about to write is typed.
LEMMA SeeValuesTyped ==
    ASSUME TypeOK, NEW p \in Players, NEW d \in Days
    PROVE  SeeValues(p, d) \in Snaps
<1> USE MoneyAssumption
<1>1. Left(p) \in 0..MaxAdNum
  BY DEF TypeOK, Left, NoKey
<1>2. Charged(p, Left(p) > 0) \in 0..MaxAdNum
  BY <1>1 DEF Charged
<1>3. Reward(Left(p) > 0) \in Nat
  BY DEF Reward
<1>4. QED
  BY <1>1, <1>2, <1>3 DEF SeeValues, SeeSnap, Snaps, TypeOK

\* A step that charges no quota.
LEMMA ChargedStays == ASSUME TypeOK, UNCHANGED charged PROVE ChargedOK'
BY DEF TypeOK, ChargedOK

LEMMA StartTyped ==
    ASSUME TypeOK, NEW r \in Reqs, NEW p \in Players,
           SeeStart(r, p) \/ ClickStart(r, p) \/ GetoutStart(r, p) \/ EntranceRead(r, p)
    PROVE  TypeOK'
<1> USE MoneyAssumption, ChargedStays DEF Arrive, TakeLock, Goto, redis, dbs, ident, clock, ghost, AllKinds, Busy, Holding, Idle
<1>1. CASE SeeStart(r, p)
  BY <1>1 DEF SeeStart, TypeOK
<1>2. CASE ClickStart(r, p)
  BY <1>2 DEF ClickStart, TypeOK
<1>3. CASE GetoutStart(r, p)
  <2>1. PICK a \in Amounts : snap' = [snap EXCEPT ![r] = [snap[r] EXCEPT !.amount = a]]
    BY <1>3 DEF GetoutStart
  <2>2. [snap[r] EXCEPT !.amount = a] \in Snaps
    BY SnapTyped DEF TypeOK
  <2>3. snap' \in [Reqs -> Snaps]
    BY <2>1, <2>2 DEF TypeOK
  <2>4. /\ UNCHANGED <<redis, dbs, ins, clock, ghost>>
        /\ locks' \subseteq AllKinds \X Players /\ pc' \in [Reqs -> Busy \cup Idle]
        /\ pc'[r] # "new" /\ \A q \in Reqs : q # r => pc'[q] = pc[q]
    BY <1>3 DEF GetoutStart, TypeOK
  <2>5. /\ kind' = [kind EXCEPT ![r] = "getout"] /\ who' = [who EXCEPT ![r] = p]
        /\ day' = [day EXCEPT ![r] = today]
    BY <1>3 DEF GetoutStart
  <2>6. QED
    BY <2>3, <2>4, <2>5 DEF TypeOK
<1>4. CASE EntranceRead(r, p)
  BY <1>4 DEF EntranceRead, TypeOK
<1>5. QED
  BY <1>1, <1>2, <1>3, <1>4

LEMMA StepTyped ==
    ASSUME TypeOK, NEW r \in Reqs, Proceed(r)
    PROVE  TypeOK'
<1> USE MoneyAssumption, ChargedStays DEF Goto, redis, dbs, ident, clock, ghost, Busy, Holding, Idle
<1>a. pc[r] # "new" => who[r] \in Players /\ kind[r] \in AllKinds
  BY Arrived
<1>b. snap[r] \in Snaps /\ day[r] \in Days
  BY DEF TypeOK
<1>1. CASE ReadFails(r)
  BY <1>1 DEF ReadFails, TypeOK
<1>2. CASE Finish(r)
  <2>1. snap' \in [Reqs -> Snaps]
    BY <1>2, SnapTyped DEF Finish, TypeOK
  <2>2. QED
    BY <1>2, <2>1 DEF Finish, TypeOK
<1>3. CASE SeeRead(r)
  <2>1. SeeValues(who[r], day[r]) \in Snaps
    BY <1>3, <1>a, <1>b, SeeValuesTyped DEF SeeRead
  <2>2. QED
    BY <1>3, <2>1 DEF SeeRead, TypeOK, Snaps
<1>4. CASE SeeStore(r)
  <2>1. CASE SeeWrites(r)
    <3> DEFINE p == who[r]
               v == snap[r]
    <3>1. p \in Players
      BY <1>4, <1>a DEF SeeStore
    <3>2. /\ v.seen \in Nat /\ v.money \in Nat /\ v.total \in Nat /\ v.remain \in 0..MaxAdNum
          /\ v.dayearnings \in Nat /\ v.dayadnum \in Nat /\ v.on \in Days
      BY <1>b DEF Snaps
    <3>3. ChargedOK'
      <4>1. charged' = [charged EXCEPT ![p] = [charged[p] EXCEPT ![v.on] =
                           IF v.pays THEN charged[p][v.on] + 1 ELSE charged[p][v.on]]]
        BY <2>1 DEF SeeWrites
      <4>2. charged[p] \in [Days -> Nat] /\ charged[p][v.on] \in Nat
        BY <3>1, <3>2 DEF TypeOK, ChargedOK
      <4>3. (IF v.pays THEN charged[p][v.on] + 1 ELSE charged[p][v.on]) \in Nat
        BY <4>2
      <4> HIDE DEF v, p
      <4> QED
        BY <3>1, <4>1, <4>2, <4>3 DEF TypeOK, ChargedOK
    <3>4. until' \in [Players -> Days] /\ remain' \in [Players -> 0..MaxAdNum \cup {NoKey}]
      <4>1. \A d \in v.on..today : d \in Days
        BY <3>2 DEF TypeOK, Days
      <4>2. remain' = [remain EXCEPT ![p] = v.remain]
            /\ \E d \in v.on..today : until' = [until EXCEPT ![p] = d]
        BY <2>1 DEF SeeWrites, SetRemain
      <4> QED
        BY <3>1, <3>2, <4>1, <4>2 DEF TypeOK
    <3> HIDE DEF v, p
    <3>5. Reward(v.pays) \in Nat
      BY DEF Reward
    <3>6. /\ adseenum' \in [Players -> Nat] /\ money' \in [Players -> Nat]
          /\ total' \in [Players -> Nat]
          /\ dayearnings' \in [Days -> Nat] /\ dayadnum' \in [Days -> Nat]
      BY <2>1, <3>1, <3>2 DEF SeeWrites, TypeOK, v, p
    <3>7. /\ seen' \in [Players -> Nat] /\ paid' \in [Players -> Nat]
          /\ daySeen' \in [Days -> Nat] /\ dayPaid' \in [Days -> Nat] /\ allPaid' \in Nat
      BY <1>b, <2>1, <3>1, <3>5 DEF SeeWrites, TypeOK, v, p
    <3>8. /\ UNCHANGED <<adclicknum, locks, dbs, ident, snap, ins, clock>>
          /\ pc[r] = "store" /\ pc' = [pc EXCEPT ![r] = "finish"]
      BY <1>4, <2>1 DEF SeeStore, SeeWrites
    <3> QED
      BY <3>3, <3>4, <3>6, <3>7, <3>8 DEF TypeOK
  <2>2. CASE UNCHANGED <<redis, ghost>>
    BY <1>4, <2>2 DEF SeeStore, TypeOK
  <2>3. QED
    BY <1>4, <2>1, <2>2 DEF SeeStore
<1>5. CASE Insert(r)
  BY <1>5, <1>a DEF Insert, TypeOK
<1>6. CASE ClickStore(r)
  BY <1>6, <1>a DEF ClickStore, ClickCounts, TypeOK
<1>7. CASE GetoutRead(r)
  <2> DEFINE a == snap[r].amount
             m == money[who[r]] - a
  <2>1. money[who[r]] \in Nat /\ a \in Nat
    BY <1>7, <1>a, <1>b, SnapTyped DEF GetoutRead, TypeOK
  <2>2. Enough(who[r], a) => [snap[r] EXCEPT !.money = m] \in Snaps
    <3>1. Enough(who[r], a) => m \in Nat
      BY <2>1 DEF Enough
    <3>2. QED
      BY <3>1, <1>b, SnapTyped
  <2>3. \/ Enough(who[r], a) /\ snap' = [snap EXCEPT ![r] = [snap[r] EXCEPT !.money = m]]
        \/ snap' = snap
    BY <1>7 DEF GetoutRead
  <2>4. snap' \in [Reqs -> Snaps]
    BY <2>2, <2>3 DEF TypeOK
  <2>5. QED
    BY <1>7, <2>4 DEF GetoutRead, TypeOK
<1>8. CASE GetoutInsert(r)
  <2>1. snap[r].amount \in Nat
    BY <1>b, SnapTyped
  <2>2. withdrawn' \in [Players -> Nat]
    BY <1>8, <1>a, <2>1 DEF GetoutInsert, TypeOK
  <2>3. QED
    BY <1>8, <2>2 DEF GetoutInsert, TypeOK
<1>9. CASE GetoutStore(r)
  BY <1>9, <1>a, <1>b DEF GetoutStore, GetoutWrites, Snaps, TypeOK
<1>10. CASE EntranceFill(r)
  <2>1. remain' \in [Players -> 0..MaxAdNum \cup {NoKey}]
    BY <1>10, <1>a DEF EntranceFill, SetRemain, TypeOK
  <2>2. until' \in [Players -> Days]
    <3>1. \A d \in day[r]..today : d \in Days
      BY <1>b DEF TypeOK, Days
    <3> QED
      BY <1>10, <1>a, <3>1 DEF EntranceFill, SetRemain, TypeOK
  <2>3. QED
    BY <1>10, <2>1, <2>2 DEF EntranceFill, TypeOK
<1>11. QED
  BY <1>1, <1>2, <1>3, <1>4, <1>5, <1>6, <1>7, <1>8, <1>9, <1>10 DEF Proceed

LEMMA SystemTyped ==
    ASSUME TypeOK,
           \/ CronRead \/ CronStore \/ NextDay \/ Crash
           \/ \E p \in Players : QuotaExpires(p)
           \/ \E k \in AllKinds, p \in Players : Expire(k, p)
           \/ UNCHANGED vars
    PROVE  TypeOK'
<1> USE MoneyAssumption, ChargedStays DEF redis, dbs, ident, clock, ghost, Busy, Holding, Idle
<1>1. CASE CronRead
  <2>1. today - 1 \in Days
    <3>1. today \in 0..LastDay /\ today > 0
      BY <1>1 DEF CronRead, TypeOK, Days
    <3>2. QED
      BY <3>1 DEF Days
  <2>2. cronsum' \in Nat
    BY <1>1, <2>1 DEF CronRead, TypeOK
  <2>3. QED
    BY <1>1, <2>2 DEF CronRead, TypeOK
<1>2. CASE CronStore
  BY <1>2 DEF CronStore, TypeOK
<1>3. CASE NextDay
  <2>1. today' \in Days /\ today' > 0
    BY <1>3 DEF NextDay, TypeOK, Days
  <2>2. QED
    BY <1>3, <2>1 DEF NextDay, TypeOK
<1>4. CASE Crash
  <2>1. snap' \in [Reqs -> Snaps]
    BY <1>4, SnapTyped DEF Crash
  <2>2. pc' \in [Reqs -> Busy \cup Idle]
    BY <1>4 DEF Crash, TypeOK
  <2>3. \A r \in Reqs : pc'[r] # "new" => pc[r] # "new"
    BY <1>4 DEF Crash, InFlight, TypeOK
  <2>4. ins' \in [Reqs -> BOOLEAN]
    BY <1>4 DEF Crash
  <2>5. QED
    BY <1>4, <2>1, <2>2, <2>3, <2>4 DEF Crash, TypeOK
<1>5. CASE \E k \in AllKinds, p \in Players : Expire(k, p)
  BY <1>5 DEF Expire, TypeOK
<1>6. CASE UNCHANGED vars
  BY <1>6 DEF vars, TypeOK
<1>7. CASE \E p \in Players : QuotaExpires(p)
  <2>1. 0 \in Days
    BY DEF Days
  <2>2. QED
    BY <1>7, <2>1 DEF QuotaExpires, TypeOK
<1>8. QED
  BY <1>1, <1>2, <1>3, <1>4, <1>5, <1>6, <1>7

(* No balance is ever negative and no quota above the configured one, in    *)
(* Redis or in what a handler is about to write, for any constants.         *)
THEOREM TypeCorrect == Spec => []TypeOK
<1>1. TypeOK /\ [Next]_vars => TypeOK'
  BY StartTyped, StepTyped, SystemTyped DEF Next
<1>2. QED
  BY TypeInit, <1>1, PTL DEF Spec

-----------------------------------------------------------------------------
Bounded == NeverOverReported /\ StoresBounded

\* A step that leaves the counters alone, and takes every request out of its
\* write or leaves it where it was, keeps the bounds.
LEMMA Aside ==
    ASSUME Bounded,
           UNCHANGED <<adseenum, money, total, dayearnings, dayadnum, ghost>>
               \/ UNCHANGED <<adseenum, money, total, dayearnings, dayadnum, seen, paid, daySeen, dayPaid>>,
           \A r \in Reqs : \/ pc'[r] \notin {"insert", "store"}
                          \/ kind'[r] = "click"
                          \/ /\ pc'[r] = pc[r] \/ (pc[r] = "insert" /\ kind[r] = "getout")
                             /\ kind'[r] = kind[r] /\ who'[r] = who[r] /\ day'[r] = day[r]
                             /\ snap'[r] = snap[r]
    PROVE  Bounded'
<1>1. UNCHANGED <<adseenum, money, total, dayearnings, dayadnum, seen, paid, daySeen, dayPaid>>
  BY DEF ghost
<1>2. NeverOverReported'
  BY <1>1 DEF Bounded, NeverOverReported
<1>3. StoresBounded'
  BY <1>1 DEF Bounded, StoresBounded, SeeBounded, Reward
<1>4. QED
  BY <1>2, <1>3 DEF Bounded

LEMMA BoundedInit == Init => Bounded
BY DEF Init, Bounded, NeverOverReported, StoresBounded, Zero

\* A see that reads only what was truly stored will write at most one more.
LEMMA SeeReadBounded ==
    ASSUME TypeOK, Bounded, NEW r \in Reqs, SeeRead(r)
    PROVE  Bounded'
<1>1. who[r] \in Players /\ day[r] \in Days
  BY Arrived DEF SeeRead, TypeOK
<1>2. NeverOverReported'
  BY DEF SeeRead, Bounded, NeverOverReported, redis, ghost
<1>3. SeeBounded(r)'
  <2>1. snap'[r] = SeeValues(who[r], day[r])
    BY DEF SeeRead, TypeOK
  <2>2. /\ snap'[r].seen = adseenum[who[r]] + 1
        /\ snap'[r].money = money[who[r]] + Reward(snap'[r].pays)
        /\ snap'[r].total = total[who[r]] + Reward(snap'[r].pays)
        /\ snap'[r].dayearnings = dayearnings[day[r]] + Reward(snap'[r].pays)
        /\ snap'[r].dayadnum = dayadnum[day[r]] + 1
    BY <2>1 DEF SeeValues, SeeSnap
  <2>3. Reward(snap'[r].pays) \in Nat
    BY MoneyAssumption DEF Reward
  <2>4. UNCHANGED <<who, day, seen, paid, daySeen, dayPaid>>
    BY DEF SeeRead, ghost, ident
  <2>5. QED
    BY <1>1, <2>2, <2>3, <2>4 DEF SeeBounded, Bounded, NeverOverReported, TypeOK, Reward
<1>4. ASSUME NEW q \in Reqs, q # r
      PROVE  /\ pc'[q] = "store" /\ kind'[q] = "see" => SeeBounded(q)'
             /\ pc'[q] \in {"insert", "store"} /\ kind'[q] = "getout" => snap'[q].money <= paid'[who'[q]]
  BY <1>4 DEF SeeRead, Goto, ghost, ident, Bounded, StoresBounded, SeeBounded, Reward, TypeOK
<1>5. kind'[r] = "see"
  BY DEF SeeRead, ident
<1>6. QED
  BY <1>2, <1>3, <1>4, <1>5 DEF Bounded, StoresBounded

\* Writing what was read adds at most what the truth grows by; the truth only
\* grows, so what others hold stays bounded.
LEMMA SeeStoreBounded ==
    ASSUME TypeOK, Bounded, NEW r \in Reqs, SeeStore(r)
    PROVE  Bounded'
<1> DEFINE p == who[r]
           d == day[r]
           v == snap[r]
           e == Reward(v.pays)
<1>1. p \in Players /\ d \in Days /\ v \in Snaps /\ e \in Nat
  BY Arrived, MoneyAssumption DEF SeeStore, TypeOK, Reward
<1>2. /\ v.seen \in Nat /\ v.money \in Nat /\ v.total \in Nat
      /\ v.dayearnings \in Nat /\ v.dayadnum \in Nat
  BY <1>1 DEF Snaps
<1>3. SeeBounded(r)
  BY DEF SeeStore, Bounded, StoresBounded
<1>4. \A q \in Reqs : \/ pc'[q] \notin {"insert", "store"}
                      \/ pc'[q] = pc[q] /\ UNCHANGED <<kind, who, day, snap>>
  BY DEF SeeStore, Goto, ident, TypeOK
<1>5. CASE UNCHANGED <<redis, ghost>>
  BY <1>4, <1>5, Aside DEF redis, ghost
<1>6. CASE SeeWrites(r)
  <2>1. /\ \A x \in Players : seen'[x] >= seen[x] /\ paid'[x] >= paid[x]
        /\ \A x \in Days : daySeen'[x] >= daySeen[x] /\ dayPaid'[x] >= dayPaid[x]
    BY <1>1, <1>6 DEF SeeWrites, TypeOK
  <2>2. \A x \in Players : /\ adseenum'[x] <= seen'[x]
                          /\ money'[x] <= paid'[x] /\ total'[x] <= paid'[x]
    BY <1>1, <1>2, <1>3, <1>6 DEF SeeWrites, SeeBounded, Bounded, NeverOverReported, TypeOK
  <2>3. \A x \in Days : dayadnum'[x] <= daySeen'[x] /\ dayearnings'[x] <= dayPaid'[x]
    BY <1>1, <1>2, <1>3, <1>6 DEF SeeWrites, SeeBounded, Bounded, NeverOverReported, TypeOK
  <2>4. NeverOverReported'
    BY <2>2, <2>3 DEF NeverOverReported
  <2>5. ASSUME NEW q \in Reqs
        PROVE  /\ pc'[q] = "store" /\ kind'[q] = "see" => SeeBounded(q)'
               /\ pc'[q] \in {"insert", "store"} /\ kind'[q] = "getout" => snap'[q].money <= paid'[who'[q]]
    <3> SUFFICES ASSUME pc'[q] \in {"insert", "store"} PROVE
               /\ pc'[q] = "store" /\ kind'[q] = "see" => SeeBounded(q)'
               /\ kind'[q] = "getout" => snap'[q].money <= paid'[who'[q]]
      OBVIOUS
    <3>1. pc'[q] = pc[q] /\ UNCHANGED <<kind, who, day, snap>>
      BY <1>4
    <3>2. who[q] \in Players /\ day[q] \in Days /\ snap[q] \in Snaps
      BY <3>1, Arrived DEF TypeOK
    <3>3. /\ snap[q].seen \in Nat /\ snap[q].money \in Nat /\ snap[q].total \in Nat
          /\ snap[q].dayearnings \in Nat /\ snap[q].dayadnum \in Nat
          /\ Reward(snap[q].pays) \in Nat
      BY <3>2, MoneyAssumption DEF Snaps, Reward
    <3>4. /\ seen[who[q]] \in Nat /\ paid[who[q]] \in Nat
          /\ daySeen[day[q]] \in Nat /\ dayPaid[day[q]] \in Nat
          /\ seen'[who[q]] \in Nat /\ paid'[who[q]] \in Nat
          /\ daySeen'[day[q]] \in Nat /\ dayPaid'[day[q]] \in Nat
      BY <1>1, <1>6, <3>2 DEF SeeWrites, TypeOK
    <3>5. kind'[q] = "getout" => snap'[q].money <= paid'[who'[q]]
      BY <2>1, <3>1, <3>2, <3>3, <3>4 DEF Bounded, StoresBounded
    <3>6. CASE pc'[q] = "store" /\ kind'[q] = "see"
      <4>1. SeeBounded(q)
        BY <3>1, <3>6 DEF Bounded, StoresBounded
      <4>2. SeeBounded(q)'
        BY <4>1, <2>1, <3>1, <3>2, <3>3, <3>4 DEF SeeBounded, Reward
      <4>3. QED
        BY <4>2, <3>5
    <3>7. QED
      BY <3>5, <3>6
  <2>6. QED
    BY <2>4, <2>5 DEF Bounded, StoresBounded
<1>7. QED
  BY <1>5, <1>6 DEF SeeStore

\* A withdrawal only ever writes less than the balance it read.
LEMMA GetoutBounded ==
    ASSUME TypeOK, Bounded, NEW r \in Reqs, GetoutRead(r) \/ GetoutStore(r)
    PROVE  Bounded'
<1> DEFINE p == who[r]
<1>1. p \in Players /\ money[p] \in Nat /\ paid[p] \in Nat /\ money[p] <= paid[p]
  BY Arrived DEF GetoutRead, GetoutStore, TypeOK, Bounded, NeverOverReported
<1>2. snap[r] \in Snaps
  BY DEF TypeOK
<1>3. snap[r].amount \in Nat /\ snap[r].money \in Nat
  BY <1>2, SnapTyped
<1>4. CASE GetoutRead(r)
  <2>1. NeverOverReported'
    BY <1>4 DEF GetoutRead, Bounded, NeverOverReported, redis, ghost
  <2>2. UNCHANGED <<kind, who, day, ghost>> /\ \A q \in Reqs : q # r => snap'[q] = snap[q] /\ pc'[q] = pc[q]
    BY <1>4 DEF GetoutRead, Goto, ident, TypeOK
  <2>3. pc'[r] = "insert" => snap'[r].money <= paid[p]
    <3>1. pc'[r] = "insert" => snap'[r].money = money[p] - snap[r].amount
      BY <1>4, <1>2 DEF GetoutRead, Goto, Snaps, TypeOK
    <3>2. QED
      BY <3>1, <1>1, <1>3
  <2>4. pc'[r] # "store" /\ kind[r] = "getout"
    BY <1>4 DEF GetoutRead, Goto, TypeOK
  <2>5. StoresBounded'
    BY <2>2, <2>3, <2>4 DEF Bounded, StoresBounded, SeeBounded, Reward, ghost
  <2>6. QED
    BY <2>1, <2>5 DEF Bounded
<1>5. CASE GetoutStore(r)
  <2>1. UNCHANGED <<kind, who, day, snap, adseenum, total, dayearnings, dayadnum, ghost>>
    BY <1>5 DEF GetoutStore, GetoutWrites, ident, redis
  <2>2. \A x \in Players : money'[x] <= paid[x]
    BY <1>1, <1>3, <1>5 DEF GetoutStore, GetoutWrites, redis, Bounded, StoresBounded, NeverOverReported, TypeOK
  <2>3. \A q \in Reqs : pc'[q] = pc[q] \/ pc'[q] = "finish"
    BY <1>5 DEF GetoutStore, Goto, TypeOK
  <2>4. NeverOverReported'
    BY <2>1, <2>2 DEF Bounded, NeverOverReported, ghost
  <2>5. StoresBounded'
    BY <2>1, <2>3 DEF Bounded, StoresBounded, SeeBounded, Reward, ghost
  <2>6. QED
    BY <2>4, <2>5 DEF Bounded
<1>6. QED
  BY <1>4, <1>5

LEMMA OthersBounded ==
    ASSUME TypeOK, Bounded, NEW r \in Reqs,
           \/ ReadFails(r) \/ Finish(r) \/ Insert(r) \/ ClickStore(r)
           \/ GetoutInsert(r) \/ EntranceFill(r)
    PROVE  Bounded'
<1>1. UNCHANGED <<adseenum, money, total, dayearnings, dayadnum, ghost>>
  BY DEF ReadFails, Finish, Insert, ClickStore, ClickCounts, GetoutInsert, EntranceFill, redis
<1>2. UNCHANGED <<kind, who, day>> /\ \A q \in Reqs : q # r => pc'[q] = pc[q] /\ snap'[q] = snap[q]
  BY DEF ReadFails, Finish, Insert, ClickStore, GetoutInsert, EntranceFill, Goto, ident, TypeOK
<1>3. \/ pc'[r] \notin {"insert", "store"}
      \/ snap'[r] = snap[r] /\ (pc'[r] = pc[r] \/ (pc[r] = "insert" /\ kind[r] = "getout"))
  BY DEF ReadFails, Finish, Insert, ClickStore, GetoutInsert, EntranceFill, Goto, TypeOK
<1>4. QED
  BY <1>1, <1>2, <1>3, Aside

LEMMA StartBounded ==
    ASSUME TypeOK, Bounded, NEW r \in Reqs, NEW p \in Players,
           SeeStart(r, p) \/ ClickStart(r, p) \/ GetoutStart(r, p) \/ EntranceRead(r, p)
    PROVE  Bounded'
<1> USE DEF SeeStart, ClickStart, GetoutStart, EntranceRead
<1>1. UNCHANGED <<adseenum, money, total, dayearnings, dayadnum, ghost>>
  BY DEF redis
<1>2. \A q \in Reqs : q # r => /\ pc'[q] = pc[q] /\ snap'[q] = snap[q] /\ kind'[q] = kind[q]
                              /\ who'[q] = who[q] /\ day'[q] = day[q]
  BY DEF Arrive, TakeLock, Goto, TypeOK
<1>3. pc'[r] \notin {"insert", "store"} \/ kind'[r] = "click"
  BY DEF Arrive, TakeLock, Goto, TypeOK
<1>4. QED
  BY <1>1, <1>2, <1>3, Aside

LEMMA SystemBounded ==
    ASSUME TypeOK, Bounded,
           \/ CronRead \/ CronStore \/ NextDay \/ Crash
           \/ \E p \in Players : QuotaExpires(p)
           \/ \E k \in AllKinds, p \in Players : Expire(k, p)
           \/ UNCHANGED vars
    PROVE  Bounded'
<1> USE DEF CronRead, CronStore, NextDay, Crash, QuotaExpires, Expire, vars, redis, ghost, ident
<1>1. UNCHANGED <<adseenum, money, total, dayearnings, dayadnum, seen, paid, daySeen, dayPaid>>
  OBVIOUS
<1>2. UNCHANGED <<kind, who, day>>
  OBVIOUS
<1>3. \A q \in Reqs : pc'[q] \notin {"insert", "store"} \/ (pc'[q] = pc[q] /\ snap'[q] = snap[q])
  BY DEF InFlight, Busy, Holding
<1>4. QED
  BY <1>1, <1>2, <1>3, Aside

(* Money is never made: however requests overlap, locks expire under their  *)
(* holders, calls fail and the server restarts, every counter and balance   *)
(* is at most what the applied stores amount to.                            *)
THEOREM NoOverReport == Spec => []NeverOverReported
<1>1. TypeOK /\ Bounded /\ [Next]_vars => Bounded'
  BY SeeReadBounded, SeeStoreBounded, GetoutBounded, OthersBounded, StartBounded, SystemBounded
     DEF Next, Proceed
<1>2. Bounded => NeverOverReported
  BY DEF Bounded
<1>3. QED
  BY BoundedInit, TypeCorrect, <1>1, <1>2, PTL DEF Spec

-----------------------------------------------------------------------------
(* What the statistics page shows.                                         *)

\* No request begins in the future, so nothing is paid there; what is paid on
\* two days is part of what is paid on all.
Past ==
    /\ \A r \in Reqs : day[r] <= today
    /\ \A d \in Days : today < d => dayPaid[d] = 0
    /\ \A d \in Days : dayPaid[d] <= allPaid
    /\ \A c, d \in Days : c # d => dayPaid[c] + dayPaid[d] <= allPaid

\* The history, and what the job is about to store as the history, leave today
\* out; before the job has run they leave yesterday out too.
Booked ==
    /\ earnings + dayPaid[today] <= allPaid
    /\ ~fired => earnings + dayPaid[today - 1] + dayPaid[today] <= allPaid
    /\ cron = "store" => fired /\ cronsum + dayPaid[today] <= allPaid

History == Past /\ Booked

LEMMA DayNumbers ==
    ASSUME TypeOK
    PROVE  /\ today \in Days /\ \A d \in Days : d \in Nat /\ dayPaid[d] \in Nat
           /\ \A r \in Reqs : day[r] \in Days
           /\ earnings \in Nat /\ cronsum \in Nat /\ allPaid \in Nat
           /\ ~fired => today - 1 \in Days
BY MoneyAssumption DEF TypeOK, Days

\* A step that pays nothing and leaves the job and the clock alone.
LEMMA HistoryAside ==
    ASSUME History, UNCHANGED <<dayPaid, allPaid, today, cron, cronsum, fired, earnings>>,
           \A r \in Reqs : day'[r] <= today
    PROVE  History'
BY DEF History, Past, Booked

LEMMA SeeStoreHistory ==
    ASSUME TypeOK, History, NEW r \in Reqs, SeeStore(r)
    PROVE  History'
<1> DEFINE e == Reward(snap[r].pays)
<1>1. UNCHANGED <<day, today, cron, cronsum, fired, earnings>>
  BY DEF SeeStore, ident, clock
<1>2. CASE UNCHANGED <<redis, ghost>>
  BY <1>1, <1>2, HistoryAside DEF History, Past, ghost
<1>3. CASE SeeWrites(r)
  <2>1. e \in Nat /\ day[r] \in Days /\ day[r] <= today
    BY MoneyAssumption, DayNumbers DEF Reward, History, Past
  <2>2. /\ allPaid' = allPaid + e
        /\ \A d \in Days : dayPaid'[d] = IF d = day[r] THEN dayPaid[d] + e ELSE dayPaid[d]
    BY <1>3, <2>1 DEF SeeWrites, TypeOK
  <2> HIDE DEF e
  <2>3. Past'
    <3>1. \A d \in Days : today < d => dayPaid'[d] = 0
      BY <2>1, <2>2, DayNumbers DEF History, Past
    <3>2. \A d \in Days : dayPaid'[d] <= allPaid'
      BY <2>1, <2>2, DayNumbers DEF History, Past
    <3>3. ASSUME NEW c \in Days, NEW d \in Days, c # d
          PROVE  dayPaid'[c] + dayPaid'[d] <= allPaid'
      <4>1. dayPaid[c] + dayPaid[d] <= allPaid /\ dayPaid[c] \in Nat /\ dayPaid[d] \in Nat
        BY <3>3, DayNumbers DEF History, Past
      <4>2. /\ dayPaid'[c] = IF c = day[r] THEN dayPaid[c] + e ELSE dayPaid[c]
            /\ dayPaid'[d] = IF d = day[r] THEN dayPaid[d] + e ELSE dayPaid[d]
        BY <2>2
      <4> QED
        BY <2>1, <2>2, <3>3, <4>1, <4>2, DayNumbers
    <3> QED
      BY <1>1, <3>1, <3>2, <3>3 DEF History, Past
  <2>4. Booked'
    <3>1. dayPaid[today] \in Nat /\ dayPaid'[today] \in Nat /\ dayPaid'[today] <= dayPaid[today] + e
      BY <2>1, <2>2, DayNumbers
    <3>2. ~fired => /\ dayPaid[today - 1] \in Nat /\ dayPaid'[today - 1] \in Nat
                    /\ dayPaid'[today - 1] + dayPaid'[today]
                           <= dayPaid[today - 1] + dayPaid[today] + e
      BY <2>1, <2>2, DayNumbers
    <3>3. earnings + dayPaid'[today] <= allPaid'
      BY <2>1, <2>2, <3>1, DayNumbers DEF History, Booked
    <3>4. ~fired => earnings + dayPaid'[today - 1] + dayPaid'[today] <= allPaid'
      BY <2>1, <2>2, <3>1, <3>2, DayNumbers DEF History, Booked
    <3>5. cron = "store" => fired /\ cronsum + dayPaid'[today] <= allPaid'
      BY <2>1, <2>2, <3>1, DayNumbers DEF History, Booked
    <3> QED
      BY <1>1, <3>3, <3>4, <3>5 DEF Booked
  <2> QED
    BY <2>3, <2>4 DEF History
<1> QED
  BY <1>2, <1>3 DEF SeeStore

\* The job adds a day that is over, and what it adds was really paid on it.
LEMMA JobHistory ==
    ASSUME TypeOK, NeverOverReported, History, CronRead \/ CronStore
    PROVE  History'
<1>1. UNCHANGED <<day, dayPaid, allPaid, today>>
  BY DEF CronRead, CronStore, ident, ghost
<1>2. Past'
  BY <1>1 DEF History, Past
<1>3. CASE CronStore
  <2>1. fired /\ UNCHANGED fired /\ cron' = "idle" /\ earnings' \in {earnings, cronsum}
    BY <1>3 DEF CronStore, History, Booked
  <2>2. earnings' + dayPaid[today] <= allPaid
    BY <1>3, <2>1 DEF CronStore, History, Booked
  <2> QED
    BY <1>1, <1>2, <2>1, <2>2 DEF History, Booked
<1>4. CASE CronRead
  <2>1. ~fired /\ fired' = TRUE /\ earnings' = earnings /\ cron = "idle"
    BY <1>4 DEF CronRead
  <2>2. earnings + dayPaid[today - 1] + dayPaid[today] <= allPaid
    BY <2>1 DEF History, Booked
  <2>3. dayearnings[today - 1] \in Nat /\ dayearnings[today - 1] <= dayPaid[today - 1]
    BY <2>1, DayNumbers DEF NeverOverReported, TypeOK
  <2>4. dayPaid[today - 1] \in Nat /\ dayPaid[today] \in Nat
    BY <2>1, DayNumbers
  <2>5. earnings + dayearnings[today - 1] + dayPaid[today] <= allPaid
    BY <2>2, <2>3, <2>4, DayNumbers
  <2>6. cron' = "store" => cronsum' = earnings + dayearnings[today - 1]
    BY <1>4, <2>1 DEF CronRead
  <2> QED
    BY <1>1, <1>2, <2>1, <2>5, <2>6 DEF History, Booked
<1> QED
  BY <1>3, <1>4

\* At midnight a day begins on which nothing was earned yet; the history leaves
\* out the day that has ended, whether or not its predecessor was added.
LEMMA NextDayHistory ==
    ASSUME TypeOK, History, NextDay
    PROVE  History'
<1>1. /\ today' = today + 1 /\ fired' = FALSE /\ cron' = "idle"
      /\ UNCHANGED <<day, dayPaid, allPaid, earnings>>
  BY DEF NextDay, ident, redis, ghost
<1>2. today' \in Days /\ dayPaid[today'] = 0
  <2>1. today' \in Days /\ today < today'
    BY <1>1, DayNumbers, MoneyAssumption DEF NextDay, Days
  <2> QED
    BY <2>1 DEF History, Past
<1>3. Past'
  BY <1>1, DayNumbers DEF History, Past, Days
<1>4. today' - 1 = today /\ dayPaid[today] \in Nat /\ earnings \in Nat
  BY <1>1, DayNumbers DEF Days
<1>5. earnings + dayPaid[today] <= allPaid
  BY DEF History, Booked
<1>6. /\ earnings' + dayPaid'[today'] <= allPaid'
      /\ earnings' + dayPaid'[today' - 1] + dayPaid'[today'] <= allPaid'
  <2>1. /\ dayPaid'[today'] = 0 /\ dayPaid'[today' - 1] = dayPaid[today]
        /\ earnings' = earnings /\ allPaid' = allPaid
    BY <1>1, <1>2, <1>4
  <2> QED
    BY <1>4, <1>5, <2>1, DayNumbers
<1> QED
  BY <1>1, <1>3, <1>6 DEF History, Booked

LEMMA HistoryStep ==
    ASSUME TypeOK, NeverOverReported, History, [Next]_vars
    PROVE  History'
<1>1. ASSUME NEW r \in Reqs, NEW p \in Players,
             SeeStart(r, p) \/ ClickStart(r, p) \/ GetoutStart(r, p) \/ EntranceRead(r, p)
      PROVE  History'
  <2>1. UNCHANGED <<dayPaid, allPaid, today, cron, cronsum, fired, earnings>>
    BY <1>1 DEF SeeStart, ClickStart, GetoutStart, EntranceRead, clock, ghost
  <2>2. \A q \in Reqs : day'[q] = IF q = r THEN today ELSE day[q]
    BY <1>1 DEF SeeStart, ClickStart, GetoutStart, EntranceRead, Arrive, TypeOK
  <2> QED
    BY <2>1, <2>2, DayNumbers, HistoryAside DEF History, Past
<1>2. ASSUME NEW r \in Reqs, Proceed(r), ~SeeStore(r) PROVE History'
  BY <1>2, HistoryAside
     DEF Proceed, ReadFails, Finish, SeeRead, Insert, ClickStore, GetoutRead, GetoutInsert,
         GetoutStore, EntranceFill, ident, clock, ghost, History, Past
<1>3. CASE Crash
  BY <1>3 DEF Crash, ident, ghost, History, Past, Booked
<1>4. CASE \/ UNCHANGED vars \/ \E p \in Players : QuotaExpires(p)
           \/ \E k \in AllKinds, p \in Players : Expire(k, p)
  BY <1>4, HistoryAside DEF vars, QuotaExpires, Expire, ident, clock, ghost, History, Past
<1> QED
  BY <1>1, <1>2, <1>3, <1>4, SeeStoreHistory, JobHistory, NextDayHistory DEF Next

(* The statistics page never counts a day's earnings into the history before *)
(* the day is over, nor shows more for yesterday and today than was paid on  *)
(* all days: the nightly job runs late, not at all or is cut between its     *)
(* reading and its storing, and requests that began before midnight are      *)
(* still stored after it.                                                   *)
THEOREM HistoryIsEarned == Spec => []HistoryNotOverstated
<1>1. Init => History
  BY MoneyAssumption DEF Init, History, Past, Booked, Zero, Days
<1>2. TypeOK /\ NeverOverReported /\ History /\ [Next]_vars => History'
  BY HistoryStep
<1>3. TypeOK /\ NeverOverReported /\ History => HistoryNotOverstated
  <2> SUFFICES ASSUME TypeOK, NeverOverReported, History PROVE HistoryNotOverstated
    OBVIOUS
  <2>1. Page.historyall + dayPaid[today] <= allPaid
    BY DEF Page, History, Booked
  <2>2. Page.todayadnum <= daySeen[today]
    BY DayNumbers DEF Page, NeverOverReported
  <2>3. /\ dayearnings[today] \in Nat /\ dayearnings[today] <= dayPaid[today]
        /\ dayPaid[today] \in Nat /\ dayPaid[today] <= allPaid
    BY DayNumbers DEF NeverOverReported, TypeOK, History, Past
  <2>4. CASE today = 0
    <3>1. Page.yestardayall + Page.todayall = 0 + dayearnings[today]
      BY <2>4 DEF Page
    <3> QED
      BY <2>1, <2>2, <2>3, <3>1, DayNumbers DEF HistoryNotOverstated
  <2>5. CASE today # 0
    <3>1. today - 1 \in Days /\ today - 1 # today
      BY <2>5, MoneyAssumption DEF TypeOK, Days
    <3>2. /\ dayearnings[today - 1] \in Nat /\ dayearnings[today - 1] <= dayPaid[today - 1]
          /\ dayPaid[today - 1] \in Nat /\ dayPaid[today - 1] + dayPaid[today] <= allPaid
      BY <3>1, DayNumbers DEF NeverOverReported, TypeOK, History, Past
    <3>3. Page.yestardayall + Page.todayall = dayearnings[today - 1] + dayearnings[today]
      BY <2>5 DEF Page
    <3> QED
      BY <2>1, <2>2, <2>3, <3>2, <3>3, DayNumbers DEF HistoryNotOverstated
  <2> QED
    BY <2>4, <2>5
<1> QED
  BY <1>1, <1>2, <1>3, TypeCorrect, NoOverReport, PTL DEF Spec

-----------------------------------------------------------------------------
LEMMA ExclusiveStep ==
    ASSUME Timely, TypeOK, LocksExclusive, [Next]_vars
    PROVE  LocksExclusive'
<1>1. ASSUME NEW r \in Reqs, NEW p \in Players,
             SeeStart(r, p) \/ ClickStart(r, p) \/ GetoutStart(r, p) \/ EntranceRead(r, p)
      PROVE  LocksExclusive'
  <2> USE <1>1 DEF SeeStart, ClickStart, GetoutStart, EntranceRead, Arrive, TakeLock, Goto
  <2>1. \A q \in Reqs : q # r => pc'[q] = pc[q] /\ kind'[q] = kind[q] /\ who'[q] = who[q]
    BY DEF TypeOK
  <2>2. locks \subseteq locks'
    OBVIOUS
  <2>3. pc'[r] \in Holding => /\ <<kind'[r], who'[r]>> \notin locks
                             /\ <<kind'[r], who'[r]>> \in locks'
    BY DEF TypeOK, Holding
  <2>4. QED
    BY <2>1, <2>2, <2>3 DEF LocksExclusive
<1>2. ASSUME NEW r \in Reqs, Proceed(r), ~Finish(r) PROVE LocksExclusive'
  <2> USE <1>2 DEF Proceed, ReadFails, SeeRead, SeeStore, Insert, ClickStore, GetoutRead,
                   GetoutInsert, GetoutStore, EntranceFill, ident, Goto
  <2>1. UNCHANGED <<kind, who, locks>>
    OBVIOUS
  <2>2. \A q \in Reqs : pc'[q] \in Holding => pc[q] \in Holding
    BY DEF TypeOK, Holding
  <2>3. QED
    BY <2>1, <2>2 DEF LocksExclusive
<1>3. ASSUME NEW r \in Reqs, Finish(r) PROVE LocksExclusive'
  <2>1. UNCHANGED <<kind, who>> /\ pc[r] \in Holding
    BY <1>3 DEF Finish, ident, Holding
  <2>2. \A q \in Reqs : pc'[q] \in Holding => q # r /\ pc[q] \in Holding
    BY <1>3 DEF Finish, Goto, Holding, TypeOK
  <2>3. locks' = locks \/ locks' = locks \ {<<kind[r], who[r]>>}
    BY <1>3 DEF Finish
  <2>4. QED
    BY <2>1, <2>2, <2>3 DEF LocksExclusive
<1>4. ASSUME NEW k \in AllKinds, NEW p \in Players, Expire(k, p) PROVE LocksExclusive'
  BY <1>4 DEF Expire, Holder, LocksExclusive, ident
<1>5. CASE \/ CronRead \/ CronStore \/ NextDay \/ Crash \/ UNCHANGED vars
           \/ \E p \in Players : QuotaExpires(p)
  <2>1. UNCHANGED <<kind, who, locks>>
    BY <1>5 DEF CronRead, CronStore, NextDay, Crash, QuotaExpires, vars, ident
  <2>2. \A q \in Reqs : pc'[q] \in Holding => pc[q] \in Holding
    BY <1>5 DEF CronRead, CronStore, NextDay, Crash, QuotaExpires, vars, InFlight, Busy, Holding
  <2>3. QED
    BY <2>1, <2>2 DEF LocksExclusive
<1>6. QED
  BY <1>1, <1>2, <1>3, <1>4, <1>5 DEF Next

Exact == SeesExact /\ BalanceWithinTotal /\ StoresExact

LEMMA ExactInit == Init => LocksExclusive /\ Exact
BY DEF Init, LocksExclusive, Exact, SeesExact, BalanceWithinTotal, StoresExact, Zero, Holding

\* As Aside, for the exact values.
LEMMA AsideExact ==
    ASSUME Exact,
           UNCHANGED <<adseenum, money, total, seen, paid>>,
           \A r \in Reqs : \/ pc'[r] \notin {"insert", "store"}
                          \/ kind'[r] = "click"
                          \/ /\ pc'[r] = pc[r] \/ (pc[r] = "insert" /\ kind[r] = "getout")
                             /\ kind'[r] = kind[r] /\ who'[r] = who[r]
                             /\ snap'[r] = snap[r]
    PROVE  Exact'
<1>1. SeesExact' /\ BalanceWithinTotal'
  BY DEF Exact, SeesExact, BalanceWithinTotal
<1>2. StoresExact'
  BY DEF Exact, StoresExact, Reward
<1>3. QED
  BY <1>1, <1>2 DEF Exact

LEMMA SeeReadExact ==
    ASSUME TypeOK, Exact, NEW r \in Reqs, SeeRead(r)
    PROVE  Exact'
<1>1. who[r] \in Players
  BY Arrived DEF SeeRead
<1>2. SeesExact' /\ BalanceWithinTotal'
  BY DEF SeeRead, Exact, SeesExact, BalanceWithinTotal, redis, ghost
<1>3. UNCHANGED <<kind, who, seen, paid, total>> /\ kind[r] = "see"
  BY DEF SeeRead, redis, ghost, ident
<1>4. /\ snap'[r].seen = seen[who[r]] + 1
      /\ snap'[r].total = paid[who[r]] + Reward(snap'[r].pays)
      /\ snap'[r].money <= snap'[r].total
  <2>1. snap'[r] = SeeValues(who[r], day[r])
    BY DEF SeeRead, TypeOK
  <2>2. /\ snap'[r].seen = adseenum[who[r]] + 1
        /\ snap'[r].money = money[who[r]] + Reward(snap'[r].pays)
        /\ snap'[r].total = total[who[r]] + Reward(snap'[r].pays)
    BY <2>1 DEF SeeValues, SeeSnap
  <2>3. Reward(snap'[r].pays) \in Nat
    BY MoneyAssumption DEF Reward
  <2>4. QED
    BY <1>1, <2>2, <2>3 DEF Exact, SeesExact, BalanceWithinTotal, TypeOK
<1>5. \A q \in Reqs : q # r => pc'[q] = pc[q] /\ snap'[q] = snap[q]
  BY DEF SeeRead, Goto, TypeOK
<1>6. StoresExact'
  BY <1>3, <1>4, <1>5 DEF Exact, StoresExact, Reward
<1>7. QED
  BY <1>2, <1>6 DEF Exact

\* The writer is the only see of its player, so what the others hold is about
\* other players, or is a withdrawal's balance, which the total only outgrows.
LEMMA SeeStoreExact ==
    ASSUME TypeOK, LocksExclusive, Exact, NEW r \in Reqs, SeeStore(r)
    PROVE  Exact'
<1> DEFINE p == who[r]
           v == snap[r]
           e == Reward(v.pays)
<1>1. p \in Players /\ v \in Snaps /\ e \in Nat
  BY Arrived, MoneyAssumption DEF SeeStore, TypeOK, Reward
<1>2. v.seen = seen[p] + 1 /\ v.total = paid[p] + e /\ v.money <= v.total
  BY DEF SeeStore, Exact, StoresExact
<1>3. UNCHANGED <<kind, who, snap>> /\ pc[r] \in Holding /\ kind[r] = "see"
  BY DEF SeeStore, ident, Holding
<1>4. \A q \in Reqs : pc'[q] \in {"insert", "store"} => q # r /\ pc'[q] = pc[q] /\ pc[q] \in Holding
  BY DEF SeeStore, Goto, TypeOK, Holding
<1>5. CASE UNCHANGED <<redis, ghost>>
  BY <1>3, <1>4, <1>5, AsideExact DEF redis, ghost
<1>6. CASE SeeWrites(r)
  <2>1. SeesExact' /\ BalanceWithinTotal'
    BY <1>1, <1>2, <1>6 DEF SeeWrites, Exact, SeesExact, BalanceWithinTotal, TypeOK
  <2>2. ASSUME NEW x \in Players
        PROVE  /\ total[x] \in Nat /\ total'[x] \in Nat /\ total'[x] >= total[x]
               /\ x # p => seen'[x] = seen[x] /\ paid'[x] = paid[x]
    BY <1>1, <1>2, <1>6 DEF SeeWrites, Exact, SeesExact, TypeOK
  <2>3. ASSUME NEW q \in Reqs, pc'[q] = "store", kind'[q] = "see"
        PROVE  /\ snap'[q].seen = seen'[who'[q]] + 1
               /\ snap'[q].total = paid'[who'[q]] + Reward(snap'[q].pays)
               /\ snap'[q].money <= snap'[q].total
    <3>1. q # r /\ pc[q] = "store" /\ pc[q] \in Holding /\ kind[q] = "see"
      BY <1>3, <1>4, <2>3
    <3>2. who[q] \in Players /\ who[q] # p
      BY <1>3, <3>1, Arrived DEF LocksExclusive
    <3>3. seen'[who[q]] = seen[who[q]] /\ paid'[who[q]] = paid[who[q]]
      BY <2>2, <3>2
    <3>4. /\ snap[q].seen = seen[who[q]] + 1
          /\ snap[q].total = paid[who[q]] + Reward(snap[q].pays)
          /\ snap[q].money <= snap[q].total
      BY <3>1 DEF Exact, StoresExact
    <3>5. snap' = snap /\ who' = who
      BY <1>3
    <3>6. QED
      BY <3>3, <3>4, <3>5 DEF Reward
  <2>4. ASSUME NEW q \in Reqs, pc'[q] \in {"insert", "store"}, kind'[q] = "getout"
        PROVE  snap'[q].money <= total'[who'[q]]
    <3>1. pc[q] \in {"insert", "store"} /\ kind[q] = "getout"
      BY <1>3, <1>4, <2>4
    <3>2. who[q] \in Players /\ snap[q] \in Snaps
      BY <3>1, Arrived DEF TypeOK
    <3>3. snap[q].money \in Nat /\ snap[q].money <= total[who[q]]
      BY <3>1, <3>2, SnapTyped DEF Exact, StoresExact
    <3>4. total'[who[q]] >= total[who[q]] /\ total'[who[q]] \in Nat /\ total[who[q]] \in Nat
      BY <2>2, <3>2
    <3>5. snap[q].money <= total'[who[q]]
      BY <3>3, <3>4
    <3>6. snap' = snap /\ who' = who
      BY <1>3
    <3>7. QED
      BY <3>5, <3>6
  <2>5. StoresExact'
    BY <2>3, <2>4 DEF StoresExact, Reward
  <2>6. QED
    BY <2>1, <2>5 DEF Exact
<1>7. QED
  BY <1>5, <1>6 DEF SeeStore

LEMMA GetoutExact ==
    ASSUME TypeOK, Exact, NEW r \in Reqs, GetoutRead(r) \/ GetoutStore(r)
    PROVE  Exact'
<1> DEFINE p == who[r]
<1>1. p \in Players /\ money[p] \in Nat /\ total[p] \in Nat /\ money[p] <= total[p]
  BY Arrived DEF GetoutRead, GetoutStore, TypeOK, Exact, BalanceWithinTotal
<1>2. snap[r] \in Snaps /\ snap[r].amount \in Nat /\ snap[r].money \in Nat
  BY SnapTyped DEF TypeOK
<1>3. UNCHANGED <<kind, who, adseenum, total, seen, paid>> /\ kind[r] = "getout"
  BY DEF GetoutRead, GetoutStore, GetoutWrites, redis, ghost, ident
<1>4. CASE GetoutRead(r)
  <2>1. UNCHANGED money /\ \A q \in Reqs : q # r => snap'[q] = snap[q] /\ pc'[q] = pc[q]
    BY <1>4 DEF GetoutRead, Goto, redis, TypeOK
  <2>2. pc'[r] # "store" /\ (pc'[r] = "insert" => snap'[r].money = money[p] - snap[r].amount)
    BY <1>4, <1>2 DEF GetoutRead, Goto, Snaps, TypeOK
  <2>3. pc'[r] = "insert" => snap'[r].money <= total[p]
    BY <1>1, <1>2, <2>2
  <2>4. SeesExact' /\ BalanceWithinTotal'
    BY <1>3, <2>1 DEF Exact, SeesExact, BalanceWithinTotal
  <2>5. StoresExact'
    BY <1>3, <2>1, <2>2, <2>3 DEF Exact, StoresExact, Reward
  <2>6. QED
    BY <2>4, <2>5 DEF Exact
<1>5. CASE GetoutStore(r)
  <2>1. UNCHANGED snap /\ \A q \in Reqs : pc'[q] = pc[q] \/ pc'[q] = "finish"
    BY <1>5 DEF GetoutStore, Goto, TypeOK
  <2>2. BalanceWithinTotal'
    BY <1>1, <1>2, <1>3, <1>5 DEF GetoutStore, GetoutWrites, redis, Exact, StoresExact, BalanceWithinTotal, TypeOK
  <2>3. SeesExact' /\ StoresExact'
    BY <1>3, <2>1 DEF Exact, SeesExact, StoresExact, Reward
  <2>4. QED
    BY <2>2, <2>3 DEF Exact
<1>6. QED
  BY <1>4, <1>5

LEMMA OthersExact ==
    ASSUME TypeOK, Exact, NEW r \in Reqs,
           \/ ReadFails(r) \/ Finish(r) \/ Insert(r) \/ ClickStore(r)
           \/ GetoutInsert(r) \/ EntranceFill(r)
    PROVE  Exact'
<1>1. UNCHANGED <<adseenum, money, total, seen, paid, kind, who>>
  BY DEF ReadFails, Finish, Insert, ClickStore, ClickCounts, GetoutInsert, EntranceFill, redis, ghost, ident
<1>2. \A q \in Reqs : q # r => pc'[q] = pc[q] /\ snap'[q] = snap[q]
  BY DEF ReadFails, Finish, Insert, ClickStore, GetoutInsert, EntranceFill, Goto, TypeOK
<1>3. \/ pc'[r] \notin {"insert", "store"}
      \/ snap'[r] = snap[r] /\ (pc'[r] = pc[r] \/ (pc[r] = "insert" /\ kind[r] = "getout"))
  BY DEF ReadFails, Finish, Insert, ClickStore, GetoutInsert, EntranceFill, Goto, TypeOK
<1>4. QED
  BY <1>1, <1>2, <1>3, AsideExact

LEMMA StartExact ==
    ASSUME TypeOK, Exact, NEW r \in Reqs, NEW p \in Players,
           SeeStart(r, p) \/ ClickStart(r, p) \/ GetoutStart(r, p) \/ EntranceRead(r, p)
    PROVE  Exact'
<1> USE DEF SeeStart, ClickStart, GetoutStart, EntranceRead
<1>1. UNCHANGED <<adseenum, money, total, seen, paid>>
  BY DEF redis, ghost
<1>2. \A q \in Reqs : q # r => /\ pc'[q] = pc[q] /\ snap'[q] = snap[q]
                              /\ kind'[q] = kind[q] /\ who'[q] = who[q]
  BY DEF Arrive, TakeLock, Goto, TypeOK
<1>3. pc'[r] \notin {"insert", "store"} \/ kind'[r] = "click"
  BY DEF Arrive, TakeLock, Goto, TypeOK
<1>4. QED
  BY <1>1, <1>2, <1>3, AsideExact

LEMMA SystemExact ==
    ASSUME TypeOK, Exact,
           \/ CronRead \/ CronStore \/ NextDay \/ Crash
           \/ \E p \in Players : QuotaExpires(p)
           \/ \E k \in AllKinds, p \in Players : Expire(k, p)
           \/ UNCHANGED vars
    PROVE  Exact'
<1> USE DEF CronRead, CronStore, NextDay, Crash, QuotaExpires, Expire, vars, redis, ghost, ident
<1>1. UNCHANGED <<adseenum, money, total, seen, paid, kind, who>>
  OBVIOUS
<1>2. \A q \in Reqs : pc'[q] \notin {"insert", "store"} \/ (pc'[q] = pc[q] /\ snap'[q] = snap[q])
  BY DEF InFlight, Busy, Holding
<1>3. QED
  BY <1>1, <1>2, AsideExact

LEMMA ExactStep ==
    ASSUME TypeOK, LocksExclusive, Exact, [Next]_vars
    PROVE  Exact'
BY SeeReadExact, SeeStoreExact, GetoutExact, OthersExact, StartExact, SystemExact DEF Next, Proceed

LEMMA ExactAlways == ASSUME Timely PROVE Spec => []Exact
<1>1. TypeOK /\ LocksExclusive /\ [Next]_vars => LocksExclusive'
  BY ExclusiveStep
<1>2. TypeOK /\ LocksExclusive /\ Exact /\ [Next]_vars => Exact'
  BY ExactStep
<1>3. QED
  BY ExactInit, TypeCorrect, <1>1, <1>2, PTL DEF Spec

(* While no handler outlives its lock key, the number of advertisements and *)
(* the lifetime total of a player are exactly what was stored, although     *)
(* calls fail, the server restarts, and withdrawals, entrances and the job  *)
(* run in between.                                                          *)
THEOREM SeesAreExact == ASSUME Timely PROVE Spec => []SeesExact
<1>1. Exact => SeesExact
  BY DEF Exact
<1>2. QED
  BY ExactAlways, <1>1, PTL

(* Under the same condition no balance exceeds the lifetime total, although *)
(* a see and a withdrawal may overwrite each other's balance.               *)
THEOREM BalanceIsEarned == ASSUME Timely PROVE Spec => []BalanceWithinTotal
<1>1. Exact => BalanceWithinTotal
  BY DEF Exact
<1>2. QED
  BY ExactAlways, <1>1, PTL

-----------------------------------------------------------------------------
(* A client that waits for each answer, while no call fails.                *)

\* A player has one request in flight; every lock key has a holder; nobody was
\* refused.
OneRequest == \A r, q \in Reqs : InFlight(r) /\ InFlight(q) /\ who[r] = who[q] => r = q
KeysHeld == \A k \in AllKinds, p \in Players :
    <<k, p>> \in locks => \E r \in Reqs : Holder(r, k, p)
Waiting == OneRequest /\ KeysHeld /\ NeverTooFast

\* The starts of the handlers, and what each has in common.
Starts(r, p) == SeeStart(r, p) \/ ClickStart(r, p) \/ GetoutStart(r, p) \/ EntranceRead(r, p)

LEMMA StartMoves ==
    ASSUME OneAtATime, Faults = FALSE, TypeOK, Waiting,
           NEW r \in Reqs, NEW p \in Players, Starts(r, p)
    PROVE  /\ pc[r] = "new"
           /\ \A q \in Reqs : q # r => pc'[q] = pc[q] /\ kind'[q] = kind[q]
                                       /\ who'[q] = who[q] /\ day'[q] = day[q]
           /\ \A q \in Reqs : who[q] = p => ~InFlight(q)
           /\ who'[r] = p /\ day'[r] = today
           /\ pc'[r] \notin {"refused", "new"} /\ (pc'[r] = "store" => kind'[r] = "click")
           /\ pc'[r] = "fill" => remain[p] = NoKey
           /\ \/ UNCHANGED locks /\ pc'[r] \in {"fill", "done"}
              \/ \E k \in AllKinds : /\ locks' = locks \cup {<<k, p>>}
                                     /\ pc'[r] \in Holding /\ kind'[r] = k
           /\ \A q \in Reqs : q # r => snap'[q] = snap[q]
           /\ UNCHANGED <<remain, until, today, charged>>
<1> USE DEF Starts, SeeStart, ClickStart, GetoutStart, EntranceRead
<1>1. pc[r] = "new" /\ who'[r] = p /\ day'[r] = today
      /\ \A q \in Reqs : who[q] = p => ~InFlight(q)
  BY OneAtATime DEF Arrive, TypeOK
<1>2. \A q \in Reqs : q # r => kind'[q] = kind[q] /\ who'[q] = who[q] /\ day'[q] = day[q]
  BY DEF Arrive, TypeOK
<1>3. \A q \in Reqs : q # r => snap'[q] = snap[q]
  BY DEF TypeOK
<1>4. \A k \in AllKinds : <<k, p>> \notin locks
  BY <1>1 DEF Waiting, KeysHeld, Holder, InFlight, Busy
<1>5. ASSUME NEW k \in AllKinds, NEW l, TakeLock(r, k, p, l)
      PROVE  locks' = locks \cup {<<k, p>>} /\ Goto(r, l)
  BY <1>4, <1>5, Faults = FALSE DEF TakeLock
<1>6. CASE EntranceRead(r, p)
  <2>1. /\ UNCHANGED locks /\ pc'[r] \in {"fill", "done"}
        /\ pc'[r] = "fill" => remain[p] = NoKey
        /\ \A q \in Reqs : q # r => pc'[q] = pc[q]
    BY <1>6 DEF Goto, TypeOK
  <2>2. UNCHANGED <<remain, until, today, charged>>
    BY <1>6 DEF redis, clock, ghost
  <2> QED
    BY <1>1, <1>2, <1>3, <2>1, <2>2
<1>7. ASSUME NEW k \in AllKinds, NEW l \in {"read", "store"}, TakeLock(r, k, p, l),
             kind'[r] = k, l = "store" => k = "click", UNCHANGED <<redis, clock, ghost>>
      PROVE  /\ \A q \in Reqs : q # r => pc'[q] = pc[q]
             /\ pc'[r] = l /\ locks' = locks \cup {<<k, p>>} /\ kind'[r] = k
             /\ UNCHANGED <<remain, until, today, charged>>
  BY <1>5, <1>7 DEF Goto, TypeOK, redis, clock, ghost
<1>8. CASE SeeStart(r, p)
  <2>1. TakeLock(r, "see", p, "read") /\ kind'[r] = "see" /\ UNCHANGED <<redis, clock, ghost>>
    BY <1>8 DEF Arrive, TypeOK
  <2>2. "see" \in AllKinds
    BY DEF AllKinds
  <2> QED
    BY <1>1, <1>2, <1>3, <1>7, <2>1, <2>2 DEF Holding
<1>9. CASE ClickStart(r, p)
  <2>1. TakeLock(r, "click", p, "store") /\ kind'[r] = "click" /\ UNCHANGED <<redis, clock, ghost>>
    BY <1>9 DEF Arrive, TypeOK
  <2>2. "click" \in AllKinds
    BY DEF AllKinds
  <2> QED
    BY <1>1, <1>2, <1>3, <1>7, <2>1, <2>2 DEF Holding
<1>10. CASE GetoutStart(r, p)
  <2>1. TakeLock(r, "getout", p, "read") /\ kind'[r] = "getout" /\ UNCHANGED <<redis, clock, ghost>>
    BY <1>10 DEF Arrive, TypeOK
  <2>2. "getout" \in AllKinds
    BY DEF AllKinds
  <2> QED
    BY <1>1, <1>2, <1>3, <1>7, <2>1, <2>2 DEF Holding
<1> QED
  BY <1>6, <1>8, <1>9, <1>10

LEMMA ProceedMoves ==
    ASSUME Faults = FALSE, TypeOK, NEW r \in Reqs, Proceed(r)
    PROVE  /\ \A q \in Reqs : q # r => pc'[q] = pc[q] /\ snap'[q] = snap[q]
           /\ UNCHANGED <<kind, who, day, today>>
           /\ \/ UNCHANGED pc /\ UNCHANGED snap /\ UNCHANGED locks
              \/ pc[r] \in Holding /\ pc'[r] \in Holding /\ UNCHANGED locks
              \/ pc[r] = "fill" /\ pc'[r] = "done" /\ UNCHANGED locks
              \/ pc[r] = "finish" /\ pc'[r] = "done" /\ locks' = locks \ {<<kind[r], who[r]>>}
<1> USE Faults = FALSE DEF Goto, TypeOK, ident, clock, Holding
<1>1. CASE ReadFails(r)
  BY <1>1 DEF ReadFails
<1>2. CASE Finish(r)
  BY <1>2 DEF Finish
<1>3. CASE SeeRead(r)
  BY <1>3 DEF SeeRead
<1>4. CASE SeeStore(r)
  BY <1>4 DEF SeeStore
<1>5. CASE Insert(r)
  BY <1>5 DEF Insert
<1>6. CASE ClickStore(r)
  BY <1>6 DEF ClickStore
<1>7. CASE GetoutRead(r)
  BY <1>7 DEF GetoutRead
<1>8. CASE GetoutInsert(r)
  BY <1>8 DEF GetoutInsert
<1>9. CASE GetoutStore(r)
  BY <1>9 DEF GetoutStore
<1>10. CASE EntranceFill(r)
  BY <1>10 DEF EntranceFill
<1> QED
  BY <1>1, <1>2, <1>3, <1>4, <1>5, <1>6, <1>7, <1>8, <1>9, <1>10 DEF Proceed

LEMMA WaitingStep ==
    ASSUME OneAtATime, Faults = FALSE, TypeOK, Waiting, [Next]_vars
    PROVE  Waiting'
<1>1. ASSUME NEW r \in Reqs, NEW p \in Players, Starts(r, p) PROVE Waiting'
  <2>0. /\ \A q \in Reqs : q # r => pc'[q] = pc[q] /\ who'[q] = who[q]
        /\ \A q \in Reqs : who[q] = p => pc[q] \notin Busy
        /\ who'[r] = p
    BY <1>1, StartMoves DEF InFlight
  <2>1. OneRequest'
    <3> SUFFICES ASSUME NEW x \in Reqs, NEW y \in Reqs,
                        pc'[x] \in Busy, pc'[y] \in Busy, who'[x] = who'[y]
                 PROVE  x = y
      BY DEF OneRequest, InFlight
    <3>1. CASE x # r /\ y # r
      BY <2>0, <3>1 DEF Waiting, OneRequest, InFlight
    <3>2. CASE x = r \/ y = r
      BY <2>0, <3>2
    <3> QED
      BY <3>1, <3>2
  <2>2. NeverTooFast'
    BY <1>1, StartMoves DEF Waiting, NeverTooFast
  <2>3. ASSUME NEW k \in AllKinds, NEW x \in Players, <<k, x>> \in locks
        PROVE  \E q \in Reqs : Holder(q, k, x)'
    <3>1. PICK q \in Reqs : Holder(q, k, x)
      BY <2>3 DEF Waiting, KeysHeld
    <3>2. q # r
      BY <1>1, <3>1, StartMoves DEF Holder, Holding
    <3>3. Holder(q, k, x)'
      BY <1>1, <3>1, <3>2, StartMoves DEF Holder
    <3> QED
      BY <3>3
  <2>4. ASSUME NEW k \in AllKinds, locks' = locks \cup {<<k, p>>}, pc'[r] \in Holding, kind'[r] = k
        PROVE  Holder(r, k, p)'
    BY <1>1, <2>4, StartMoves DEF Holder
  <2>5. KeysHeld'
    <3> SUFFICES ASSUME NEW k \in AllKinds, NEW x \in Players, <<k, x>> \in locks'
                 PROVE  \E q \in Reqs : Holder(q, k, x)'
      BY DEF KeysHeld
    <3>1. CASE <<k, x>> \in locks
      BY <2>3, <3>1
    <3>2. CASE <<k, x>> \notin locks
      <4>1. PICK j \in AllKinds : /\ locks' = locks \cup {<<j, p>>}
                                  /\ pc'[r] \in Holding /\ kind'[r] = j
        BY <1>1, <3>2, StartMoves
      <4>2. j = k /\ x = p
        BY <3>2, <4>1
      <4>3. Holder(r, k, x)'
        BY <2>4, <4>1, <4>2
      <4> QED
        BY <4>3
    <3> QED
      BY <3>1, <3>2
  <2> QED
    BY <2>1, <2>2, <2>5 DEF Waiting
<1>2. ASSUME NEW r \in Reqs, Proceed(r) PROVE Waiting'
  <2>0. \A q \in Reqs : /\ who'[q] = who[q]
                        /\ pc'[q] \in Busy => pc[q] \in Busy
                        /\ pc[q] # "refused" => pc'[q] # "refused"
    BY <1>2, ProceedMoves DEF Busy, Holding
  <2>1. OneRequest' /\ NeverTooFast'
    BY <2>0 DEF Waiting, OneRequest, NeverTooFast, InFlight
  <2>2. ASSUME NEW k \in AllKinds, NEW x \in Players, <<k, x>> \in locks'
        PROVE  \E q \in Reqs : Holder(q, k, x)'
    <3>1. <<k, x>> \in locks
      BY <1>2, <2>2, ProceedMoves
    <3>2. PICK q \in Reqs : Holder(q, k, x)
      BY <3>1 DEF Waiting, KeysHeld
    <3>3. CASE q # r
      <4>1. Holder(q, k, x)'
        BY <1>2, <3>2, <3>3, ProceedMoves DEF Holder
      <4> QED
        BY <4>1
    <3>4. CASE q = r
      <4>1. pc'[r] \in Holding
        BY <1>2, <2>2, <3>2, <3>4, ProceedMoves DEF Holder, Holding
      <4>2. Holder(r, k, x)'
        BY <1>2, <3>2, <3>4, <4>1, ProceedMoves DEF Holder
      <4> QED
        BY <4>2
    <3> QED
      BY <3>3, <3>4
  <2> QED
    BY <2>1, <2>2 DEF Waiting, KeysHeld
<1>3. CASE \/ CronRead \/ CronStore \/ NextDay \/ UNCHANGED vars
           \/ \E p \in Players : QuotaExpires(p)
  BY <1>3 DEF CronRead, CronStore, NextDay, QuotaExpires, vars, ident, Waiting, OneRequest, KeysHeld,
              NeverTooFast, InFlight, Holder
<1>4. ASSUME NEW k \in AllKinds, NEW p \in Players, Expire(k, p) PROVE Waiting'
  BY <1>4 DEF Expire, ident, Waiting, OneRequest, KeysHeld, NeverTooFast, InFlight, Holder
<1>5. ~Crash
  BY Faults = FALSE DEF Crash
<1> QED
  BY <1>1, <1>2, <1>3, <1>4, <1>5 DEF Next, Starts

LEMMA WaitingAlways == ASSUME OneAtATime, Faults = FALSE PROVE Spec => [](TypeOK /\ Waiting)
<1>1. Init => Waiting
  BY DEF Init, Waiting, OneRequest, KeysHeld, NeverTooFast, InFlight, Busy, Holding
<1>2. TypeOK /\ Waiting /\ [Next]_vars => Waiting'
  BY OneAtATime, Faults = FALSE, WaitingStep
<1> QED
  BY <1>1, <1>2, TypeCorrect, PTL DEF Spec

(* A client that waits for each answer is never refused by a lock, whatever  *)
(* else runs, as long as no call fails.                                     *)
THEOREM WaitingNeverTooFast ==
    ASSUME OneAtATime, Faults = FALSE PROVE Spec => []NeverTooFast
<1>1. Waiting => NeverTooFast
  BY DEF Waiting
<1> QED
  BY <1>1, WaitingAlways, OneAtATime, Faults = FALSE, PTL

-----------------------------------------------------------------------------
(* The daily quota.                                                        *)

Charge(r) == IF snap[r].pays THEN 1 ELSE 0

\* What was charged to today's quota and what is left of it make no more than the
\* maximum, and no day was charged more; yesterday's key, while it stays, means
\* that nothing was charged to today.
Room(p) == /\ \A d \in Days : charged[p][d] <= MaxAdNum /\ (d > today => charged[p][d] = 0)
           /\ charged[p][today] + Left(p) <= MaxAdNum
           /\ until[p] <= today /\ (Overdue(p) => charged[p][today] = 0)

\* There is room for what a handler is about to charge; if the day has changed
\* since it read, nothing is charged to the new day yet, as the player has made
\* no other request.
QuotaStored(r) ==
    LET p == who[r] v == snap[r]
    IN /\ pc[r] = "store" /\ kind[r] = "see" =>
             /\ v.on <= today
             /\ v.on = today => charged[p][today] + Charge(r) + v.remain <= MaxAdNum
             /\ v.on < today => /\ charged[p][today] = 0
                                /\ charged[p][v.on] + Charge(r) <= MaxAdNum
       /\ pc[r] = "fill" => charged[p][today] = 0
Quota == (\A p \in Players : Room(p)) /\ (\A r \in Reqs : QuotaStored(r))

LEMMA Numbers ==
    ASSUME TypeOK
    PROVE  /\ today \in Days /\ MaxAdNum \in Nat /\ Days \subseteq Nat
           /\ \A p \in Players : Left(p) \in 0..MaxAdNum /\ until[p] \in Days
           /\ \A p \in Players, d \in Days : charged[p][d] \in Nat
           /\ \A r \in Reqs : /\ snap[r].on \in Days /\ snap[r].remain \in 0..MaxAdNum
                              /\ Charge(r) \in {0, 1} /\ (snap[r].pays <=> Charge(r) = 1)
<1>1. today \in Days /\ MaxAdNum \in Nat /\ Days \subseteq Nat
  BY MoneyAssumption DEF TypeOK, Days
<1>2. \A p \in Players : Left(p) \in 0..MaxAdNum /\ until[p] \in Days
  BY MoneyAssumption DEF TypeOK, Left, NoKey
<1>3. \A p \in Players, d \in Days : charged[p][d] \in Nat
  BY DEF TypeOK, ChargedOK
<1>4. ASSUME NEW r \in Reqs
      PROVE  /\ snap[r].on \in Days /\ snap[r].remain \in 0..MaxAdNum
             /\ Charge(r) \in {0, 1} /\ (snap[r].pays <=> Charge(r) = 1)
  <2>1. snap[r] \in Snaps
    BY DEF TypeOK
  <2>2. \A s \in Snaps : s.on \in Days /\ s.remain \in 0..MaxAdNum /\ s.pays \in BOOLEAN
    BY DEF Snaps
  <2> QED
    BY <2>1, <2>2 DEF Charge
<1> QED
  BY <1>1, <1>2, <1>3, <1>4

\* A step that leaves the quota, the day and what is being stored alone.
LEMMA QuotaAside ==
    ASSUME Quota, UNCHANGED <<remain, until, today, charged>>,
           \A q \in Reqs : pc'[q] = "store" /\ kind'[q] = "see" =>
               /\ pc[q] = "store" /\ kind[q] = "see"
               /\ snap'[q] = snap[q] /\ who'[q] = who[q],
           \A q \in Reqs : pc'[q] = "fill" => charged[who'[q]][today] = 0
    PROVE  Quota'
<1>1. ASSUME NEW p \in Players PROVE Room(p)'
  BY DEF Quota, Room, Left, Overdue
<1>2. ASSUME NEW q \in Reqs PROVE QuotaStored(q)'
  BY DEF Quota, QuotaStored, Charge
<1> QED
  BY <1>1, <1>2 DEF Quota

\* A step of a request that sets its player's quota, or what is charged to it.
LEMMA QuotaSet ==
    ASSUME TypeOK, Waiting, Quota, NEW r \in Reqs, InFlight(r), ~InFlight(r)' \/ pc'[r] = "finish",
           UNCHANGED <<today, kind, who, day, snap>>,
           \A q \in Reqs : q # r => pc'[q] = pc[q],
           \A p \in Players : p # who[r] => /\ remain'[p] = remain[p] /\ until'[p] = until[p]
                                            /\ charged'[p] = charged[p],
           who[r] \in Players => Room(who[r])'
    PROVE  Quota'
<1>1. ASSUME NEW p \in Players PROVE Room(p)'
  <2>1. CASE p # who[r]
    BY <2>1 DEF Quota, Room, Left, Overdue
  <2> QED
    BY <2>1
<1>2. ASSUME NEW q \in Reqs PROVE QuotaStored(q)'
  <2>1. CASE q = r
    BY <2>1 DEF QuotaStored, InFlight, Busy, Holding
  <2>2. CASE q # r /\ pc[q] \in {"store", "fill"}
    <3>1. who[q] # who[r]
      BY <2>2 DEF Waiting, OneRequest, InFlight, Busy, Holding
    <3>2. who[q] \in Players
      BY <2>2, Arrived
    <3>3. charged'[who[q]] = charged[who[q]]
      BY <3>1, <3>2
    <3> QED
      BY <2>2, <3>3 DEF Quota, QuotaStored, Charge
  <2>3. CASE q # r /\ pc[q] \notin {"store", "fill"}
    BY <2>3 DEF QuotaStored
  <2> QED
    BY <2>1, <2>2, <2>3
<1> QED
  BY <1>1, <1>2 DEF Quota

LEMMA QuotaStart ==
    ASSUME OneAtATime, Faults = FALSE, TypeOK, Waiting, Quota,
           NEW r \in Reqs, NEW p \in Players, Starts(r, p)
    PROVE  Quota'
<1>1. UNCHANGED <<remain, until, today, charged>> /\ who'[r] = p
  BY StartMoves
<1>2. \A q \in Reqs : pc'[q] = "store" /\ kind'[q] = "see" =>
         /\ pc[q] = "store" /\ kind[q] = "see"
         /\ snap'[q] = snap[q] /\ who'[q] = who[q]
  BY StartMoves
<1>3. ASSUME NEW q \in Reqs, pc'[q] = "fill" PROVE charged[who'[q]][today] = 0
  <2>1. CASE q = r
    <3>1. Left(p) = MaxAdNum
      BY <1>3, <2>1, StartMoves DEF Left
    <3>2. charged[p][today] + MaxAdNum <= MaxAdNum
      BY <3>1 DEF Quota, Room
    <3> QED
      BY <1>1, <2>1, <3>2, Numbers
  <2>2. CASE q # r
    BY <1>3, <2>2, StartMoves DEF Quota, QuotaStored
  <2> QED
    BY <2>1, <2>2
<1> QED
  BY <1>1, <1>2, <1>3, QuotaAside

LEMMA QuotaRead ==
    ASSUME Faults = FALSE, TypeOK, TypeOK', Quota, NEW r \in Reqs, SeeRead(r)
    PROVE  Quota'
<1> DEFINE p == who[r]
           v == SeeValues(p, day[r])
<1>1. /\ pc' = [pc EXCEPT ![r] = "store"] /\ snap' = [snap EXCEPT ![r] = v]
      /\ UNCHANGED <<remain, until, today, charged, kind, who, day>>
  BY DEF SeeRead, Goto, redis, clock, ghost, ident
<1>2. p \in Players
  BY Arrived DEF SeeRead
<1>3. /\ v.on = today /\ (v.pays <=> Left(p) > 0)
      /\ v.remain = IF Left(p) > 0 THEN Left(p) - 1 ELSE Left(p)
  BY DEF SeeValues, SeeSnap, Charged
<1> HIDE DEF v
<1>4. snap'[r] = v /\ pc'[r] = "store" /\ \A q \in Reqs : q # r => pc'[q] = pc[q] /\ snap'[q] = snap[q]
  BY <1>1 DEF TypeOK
<1>5. Charge(r)' + v.remain = Left(p)
  <2>1. Left(p) \in Nat
    BY <1>2, Numbers
  <2>2. Charge(r)' = IF v.pays THEN 1 ELSE 0
    BY <1>4 DEF Charge
  <2>3. CASE Left(p) > 0
    BY <1>3, <2>1, <2>2, <2>3
  <2>4. CASE ~(Left(p) > 0)
    BY <1>3, <2>1, <2>2, <2>4
  <2> QED
    BY <2>3, <2>4
<1>6. QuotaStored(r)'
  <2>1. charged[p][today] + Left(p) <= MaxAdNum /\ charged[p][today] \in Nat
    BY <1>2, Numbers DEF Quota, Room
  <2>2. Charge(r)' \in {0, 1} /\ v.remain \in Nat /\ today \in Nat
    <3>1. snap'[r].remain \in Nat /\ Charge(r)' \in {0, 1}
      <4>1. snap'[r] \in Snaps
        BY DEF TypeOK
      <4>2. \A s \in Snaps : s.remain \in Nat
        BY MoneyAssumption DEF Snaps
      <4> QED
        BY <4>1, <4>2 DEF Charge
    <3> QED
      BY <1>4, <3>1, Numbers
  <2>3. charged[p][today] + Charge(r)' + v.remain <= MaxAdNum
    BY <1>5, <2>1, <2>2
  <2> QED
    BY <1>1, <1>3, <1>4, <2>2, <2>3 DEF QuotaStored
<1>7. ASSUME NEW q \in Reqs PROVE QuotaStored(q)'
  <2>1. CASE q # r
    BY <1>1, <1>4, <2>1 DEF Quota, QuotaStored, Charge
  <2> QED
    BY <1>6, <2>1
<1>8. ASSUME NEW x \in Players PROVE Room(x)'
  BY <1>1 DEF Quota, Room, Left, Overdue
<1> QED
  BY <1>7, <1>8 DEF Quota

LEMMA QuotaStore ==
    ASSUME Faults = FALSE, TypeOK, TypeOK', Waiting, Quota, NEW r \in Reqs, SeeStore(r)
    PROVE  Quota'
<1> DEFINE p == who[r]
           v == snap[r]
           c == Charge(r)
<1>1. pc[r] = "store" /\ kind[r] = "see" /\ SeeWrites(r)
  BY Faults = FALSE DEF SeeStore
<1>2. p \in Players /\ v.on \in Days /\ v.remain \in 0..MaxAdNum /\ c \in {0, 1}
  BY <1>1, Arrived, Numbers
<1>3. /\ pc'[r] = "finish" /\ \A q \in Reqs : q # r => pc'[q] = pc[q]
      /\ UNCHANGED <<today, kind, who, day, snap>>
  BY DEF SeeStore, Goto, ident, clock, TypeOK
<1>4. /\ remain'[p] = v.remain /\ until'[p] \in v.on..today
      /\ \A x \in Players : x # p => remain'[x] = remain[x] /\ until'[x] = until[x]
  BY <1>1, <1>2 DEF SeeWrites, SetRemain, TypeOK
<1>5. /\ \A x \in Players : x # p => charged'[x] = charged[x]
      /\ \A d \in Days : charged'[p][d] = IF d = v.on THEN charged[p][d] + c ELSE charged[p][d]
  <2>1. charged' = [charged EXCEPT ![p] = [charged[p] EXCEPT ![v.on] =
                       IF v.pays THEN charged[p][v.on] + 1 ELSE charged[p][v.on]]]
    BY <1>1 DEF SeeWrites
  <2>2. charged[p] \in [Days -> Nat]
    BY <1>2 DEF TypeOK, ChargedOK
  <2>3. (IF v.pays THEN charged[p][v.on] + 1 ELSE charged[p][v.on]) = charged[p][v.on] + c
    BY <1>2, Numbers DEF Charge
  <2>4. charged'[p] = [charged[p] EXCEPT ![v.on] = charged[p][v.on] + c]
    BY <1>2, <2>1, <2>3 DEF TypeOK, ChargedOK
  <2> HIDE DEF c, v, p
  <2> QED
    BY <1>2, <2>1, <2>2, <2>4 DEF TypeOK, ChargedOK
<1>6. /\ v.on <= today
      /\ v.on = today => charged[p][today] + c + v.remain <= MaxAdNum
      /\ v.on < today => charged[p][today] = 0 /\ charged[p][v.on] + c <= MaxAdNum
  BY <1>1 DEF Quota, QuotaStored
<1> HIDE DEF c, v
<1>7. Room(p)'
  <2>1. Left(p)' = v.remain
    <3>1. remain'[p] = v.remain /\ v.remain \in 0..MaxAdNum /\ MaxAdNum \in Nat
      BY <1>2, <1>4, MoneyAssumption
    <3>2. v.remain # NoKey
      BY <3>1 DEF NoKey
    <3> QED
      BY <1>3, <3>1, <3>2 DEF Left
  <2>2. ASSUME NEW d \in Days PROVE charged'[p][d] <= MaxAdNum /\ (d > today => charged'[p][d] = 0)
    <3>1. charged[p][d] <= MaxAdNum /\ (d > today => charged[p][d] = 0) /\ charged[p][d] \in Nat
      BY <1>2, Numbers DEF Quota, Room
    <3>2. v.on \in Nat /\ today \in Nat /\ d \in Nat /\ charged[p][v.on] \in Nat
      BY <1>2, Numbers
    <3>3. CASE d = v.on
      <4>1. charged[p][v.on] + c <= MaxAdNum
        BY <1>2, <1>6, <3>2, Numbers
      <4> QED
        BY <1>5, <1>6, <3>2, <3>3, <4>1
    <3>4. CASE d # v.on
      BY <1>5, <3>1, <3>4
    <3> QED
      BY <3>3, <3>4
  <2>3. charged'[p][today] + v.remain <= MaxAdNum /\ (v.on < today => charged'[p][today] = 0)
    <3>1. today \in Days /\ today \in Nat /\ v.on \in Nat
      BY <1>2, Numbers
    <3>2. CASE v.on = today
      BY <1>2, <1>5, <1>6, <3>1, <3>2
    <3>3. CASE v.on < today
      <4>1. charged'[p][today] = 0
        BY <1>5, <1>6, <3>1, <3>3
      <4> QED
        BY <1>2, <4>1, MoneyAssumption
    <3> QED
      BY <1>6, <3>1, <3>2, <3>3
  <2>4. until'[p] <= today /\ (until'[p] < today => v.on < today)
    BY <1>2, <1>4, <1>6, Numbers
  <2> QED
    BY <1>3, <2>1, <2>2, <2>3, <2>4 DEF Room, Overdue
<1> QED
  BY <1>1, <1>3, <1>4, <1>5, <1>7, QuotaSet DEF InFlight, Busy, Holding

LEMMA QuotaFill ==
    ASSUME Faults = FALSE, TypeOK, TypeOK', Waiting, Quota, NEW r \in Reqs, EntranceFill(r)
    PROVE  Quota'
<1> DEFINE p == who[r]
<1>1. pc[r] = "fill" /\ SetRemain(r, MaxAdNum, day[r])
  BY Faults = FALSE DEF EntranceFill
<1>2. p \in Players
  BY <1>1, Arrived
<1>3. /\ pc'[r] = "done" /\ \A q \in Reqs : q # r => pc'[q] = pc[q]
      /\ UNCHANGED <<today, kind, who, day, snap, charged>>
  BY DEF EntranceFill, Goto, ident, clock, ghost, TypeOK
<1>4. /\ \A x \in Players : x # p => remain'[x] = remain[x] /\ until'[x] = until[x]
      /\ until'[p] \in day[r]..today
  BY <1>1, <1>2 DEF SetRemain, TypeOK
<1>5. charged[p][today] = 0
  BY <1>1 DEF Quota, QuotaStored
<1>6. Left(p)' \in 0..MaxAdNum
  BY <1>2, <1>3, MoneyAssumption DEF TypeOK, Left, NoKey
<1>7. Room(p)'
  <2>1. charged'[p][today'] = 0 /\ until'[p] <= today'
    BY <1>2, <1>3, <1>4, <1>5, Numbers
  <2>2. \A d \in Days : charged'[p][d] <= MaxAdNum /\ (d > today' => charged'[p][d] = 0)
    BY <1>2, <1>3 DEF Quota, Room
  <2> QED
    <3>1. charged'[p][today'] + Left(p)' <= MaxAdNum
      BY <1>6, <2>1, MoneyAssumption
    <3> QED
      BY <1>3, <2>1, <2>2, <3>1 DEF Room, Overdue
<1> QED
  BY <1>1, <1>3, <1>4, <1>7, QuotaSet DEF InFlight, Busy, Holding

\* Yesterday's key goes, and nothing was charged to today.
LEMMA QuotaExpiry ==
    ASSUME TypeOK, Quota, NEW p \in Players, QuotaExpires(p)
    PROVE  Quota'
<1>1. /\ Overdue(p) /\ remain'[p] = NoKey /\ until'[p] = 0
      /\ \A x \in Players : x # p => remain'[x] = remain[x] /\ until'[x] = until[x]
      /\ UNCHANGED <<today, charged, pc, kind, who, snap>>
  BY DEF QuotaExpires, clock, ghost, ident, TypeOK
<1>2. ASSUME NEW x \in Players PROVE Room(x)'
  <2>1. CASE x # p
    BY <1>1, <2>1 DEF Quota, Room, Left, Overdue
  <2>2. CASE x = p
    <3>1. charged[p][today] = 0 /\ Left(p)' = MaxAdNum /\ ~Overdue(p)'
      BY <1>1 DEF Quota, Room, Left, Overdue
    <3>2. \A d \in Days : charged[p][d] <= MaxAdNum /\ (d > today => charged[p][d] = 0)
      BY DEF Quota, Room
    <3> QED
      BY <1>1, <2>2, <3>1, <3>2, Numbers DEF Room
  <2> QED
    BY <2>1, <2>2
<1>3. ASSUME NEW q \in Reqs PROVE QuotaStored(q)'
  BY <1>1 DEF Quota, QuotaStored, Charge
<1> QED
  BY <1>2, <1>3 DEF Quota

\* At midnight every key is yesterday's, and the new day has its whole quota.
LEMMA QuotaMidnight ==
    ASSUME TypeOK, Quota, NextDay
    PROVE  Quota'
<1>1. /\ today' = today + 1 /\ today' \in Days
      /\ UNCHANGED <<remain, until, charged, pc, kind, who, snap>>
  BY MoneyAssumption DEF NextDay, ident, redis, ghost, TypeOK, Days
<1>2. today \in Nat /\ today < today' /\ \A d \in Days : d > today' => d > today
  <2>1. today \in Nat /\ Days \subseteq Nat
    BY Numbers
  <2> QED
    BY <1>1, <2>1
<1>3. ASSUME NEW p \in Players PROVE Room(p)' /\ charged[p][today'] = 0
  <2>1. /\ charged[p][today'] = 0 /\ until[p] <= today
        /\ \A d \in Days : charged[p][d] <= MaxAdNum /\ (d > today => charged[p][d] = 0)
    BY <1>1, <1>2 DEF Quota, Room
  <2>2. Left(p)' = Left(p) /\ Left(p) \in 0..MaxAdNum /\ until[p] <= today'
    BY <1>1, <1>2, <2>1, Numbers DEF Left
  <2> QED
    BY <1>1, <1>2, <2>1, <2>2, MoneyAssumption DEF Room
<1>4. ASSUME NEW q \in Reqs PROVE QuotaStored(q)'
  <2> DEFINE p == who[q]
             v == snap[q]
  <2>1. CASE pc[q] = "fill"
    <3>1. charged[p][today'] = 0
      BY <1>3, <2>1, Arrived
    <3> QED
      BY <1>1, <2>1, <3>1 DEF QuotaStored
  <2>2. CASE pc[q] = "store" /\ kind[q] = "see"
    <3>1. p \in Players /\ v.on \in Days /\ v.remain \in Nat /\ Charge(q) \in {0, 1} /\ v.on \in Nat
      BY <2>2, Arrived, Numbers
    <3>2. charged[p][today] \in Nat /\ charged[p][today'] = 0
      BY <1>3, <3>1, Numbers
    <3>3. /\ v.on <= today
          /\ v.on = today => charged[p][today] + Charge(q) + v.remain <= MaxAdNum
          /\ v.on < today => charged[p][v.on] + Charge(q) <= MaxAdNum
      BY <2>2 DEF Quota, QuotaStored
    <3>4. v.on < today' /\ charged[p][v.on] + Charge(q) <= MaxAdNum
      <4>1. CASE v.on = today
        BY <1>2, <3>1, <3>2, <3>3, <4>1, Numbers
      <4>2. CASE v.on < today
        BY <1>1, <1>2, <3>1, <3>3, <4>2
      <4> QED
        BY <1>2, <3>1, <3>3, <4>1, <4>2
    <3>5. Charge(q)' = Charge(q) /\ ~(v.on = today') /\ v.on <= today'
      BY <1>1, <1>2, <3>1, <3>4 DEF Charge
    <3> QED
      BY <1>1, <2>2, <3>2, <3>4, <3>5 DEF QuotaStored
  <2>3. CASE pc[q] # "fill" /\ ~(pc[q] = "store" /\ kind[q] = "see")
    BY <1>1, <2>3 DEF QuotaStored
  <2> QED
    BY <2>1, <2>2, <2>3
<1> QED
  BY <1>3, <1>4 DEF Quota

LEMMA QuotaStep ==
    ASSUME OneAtATime, Faults = FALSE, TypeOK, Waiting, Quota, [Next]_vars
    PROVE  Quota'
<1>0. TypeOK'
  BY StartTyped, StepTyped, SystemTyped DEF Next
<1>1. ASSUME NEW r \in Reqs, NEW p \in Players, Starts(r, p) PROVE Quota'
  BY <1>1, OneAtATime, Faults = FALSE, QuotaStart
<1>2. ASSUME NEW r \in Reqs, Proceed(r), ~SeeRead(r), ~SeeStore(r), ~EntranceFill(r)
      PROVE  Quota'
  <2>1. UNCHANGED <<remain, until, today, charged, kind, who, day>>
    BY <1>2 DEF Proceed, ReadFails, Finish, Insert, ClickStore, ClickCounts, GetoutRead,
                GetoutInsert, GetoutStore, GetoutWrites, redis, clock, ghost, ident
  <2>2. \A q \in Reqs : pc'[q] = "store" /\ kind[q] = "see" => pc[q] = "store" /\ snap'[q] = snap[q]
    BY <1>2, Faults = FALSE
       DEF Proceed, ReadFails, Finish, Insert, ClickStore, GetoutRead, GetoutInsert, GetoutStore,
           Goto, TypeOK
  <2>3. \A q \in Reqs : pc'[q] = "fill" => pc[q] = "fill"
    BY <1>2, Faults = FALSE, ProceedMoves DEF Holding
  <2> QED
    BY <2>1, <2>2, <2>3, QuotaAside DEF Quota, QuotaStored
<1>3. ASSUME NEW r \in Reqs, SeeRead(r) \/ SeeStore(r) \/ EntranceFill(r) PROVE Quota'
  BY <1>0, <1>3, Faults = FALSE, QuotaRead, QuotaStore, QuotaFill
<1>4. CASE \/ CronRead \/ CronStore \/ UNCHANGED vars
           \/ \E k \in AllKinds, p \in Players : Expire(k, p)
  <2>1. UNCHANGED <<remain, until, today, charged, pc, kind, who, day, snap>>
    BY <1>4 DEF CronRead, CronStore, Expire, vars, redis, clock, ghost, ident
  <2> QED
    BY <2>1, QuotaAside DEF Quota, QuotaStored
<1>5. ~Crash
  BY Faults = FALSE DEF Crash
<1> QED
  BY <1>1, <1>2, <1>3, <1>4, <1>5, QuotaExpiry, QuotaMidnight DEF Next, Starts

(* No day's quota pays a client that waits for each answer for more than the *)
(* daily maximum, across any number of midnights and however long yesterday's *)
(* key stays, as long as no call fails.                                     *)
THEOREM QuotaAlwaysRespected ==
    ASSUME OneAtATime, Faults = FALSE PROVE Spec => []QuotaRespected
<1>1. Init => Quota
  <2>1. ASSUME Init, NEW p \in Players PROVE Room(p)
    <3>1. /\ \A d \in Days : charged[p][d] = 0
          /\ Left(p) = MaxAdNum /\ today = 0 /\ until[p] = 0 /\ 0 \in Days
      BY <2>1, MoneyAssumption DEF Init, Zero, Left, Days
    <3> QED
      BY <3>1, MoneyAssumption DEF Room, Overdue
  <2>2. ASSUME Init, NEW r \in Reqs PROVE QuotaStored(r)
    BY <2>2 DEF Init, QuotaStored
  <2> QED
    BY <2>1, <2>2 DEF Quota
<1>2. TypeOK /\ Waiting /\ Quota /\ [Next]_vars => Quota'
  BY OneAtATime, Faults = FALSE, QuotaStep
<1>3. Quota => QuotaRespected
  BY DEF Quota, Room, QuotaRespected
<1> QED
  BY <1>1, <1>2, <1>3, WaitingAlways, OneAtATime, Faults = FALSE, PTL DEF Spec

-----------------------------------------------------------------------------
(* What a handler has read is still true when it writes.                   *)

Fresh(r) ==
    LET p == who[r] v == snap[r]
    IN /\ pc[r] = "store" /\ kind[r] = "see" =>
             /\ v.money = money[p] + Reward(v.pays)
             /\ v.total = total[p] + Reward(v.pays)
       /\ pc[r] \in {"read", "insert", "store"} /\ kind[r] = "getout" => v.amount \in Amounts
       /\ pc[r] \in {"insert", "store"} /\ kind[r] = "getout" => v.money + v.amount = money[p]
AllFresh == \A r \in Reqs : Fresh(r)

\* A request that is left alone stays fresh while its player's wallet does.
LEMMA FreshStays ==
    ASSUME NEW q \in Reqs, Fresh(q), pc'[q] = pc[q], kind'[q] = kind[q], who'[q] = who[q],
           snap'[q] = snap[q],
           InFlight(q) => money'[who[q]] = money[who[q]] /\ total'[who[q]] = total[who[q]]
    PROVE  Fresh(q)'
BY DEF Fresh, Reward, InFlight, Busy, Holding

LEMMA FreshStart ==
    ASSUME OneAtATime, Faults = FALSE, TypeOK, Waiting, AllFresh,
           NEW r \in Reqs, NEW p \in Players, Starts(r, p)
    PROVE  AllFresh'
<1> USE DEF SeeStart, ClickStart, GetoutStart, EntranceRead
<1>1. UNCHANGED <<money, total>>
  BY DEF Starts, redis
<1>2. ASSUME NEW q \in Reqs, q # r PROVE Fresh(q)'
  BY <1>1, <1>2, StartMoves, FreshStays DEF AllFresh
<1>3. CASE GetoutStart(r, p)
  <2>1. PICK a \in Amounts : snap' = [snap EXCEPT ![r] = [snap[r] EXCEPT !.amount = a]]
    BY <1>3
  <2>2. snap[r] \in Snaps /\ snap'[r] = [snap[r] EXCEPT !.amount = a]
    BY <2>1 DEF TypeOK
  <2>3. snap'[r].amount = a
    BY <2>2 DEF Snaps
  <2>4. kind'[r] = "getout" /\ pc'[r] \notin {"insert", "store"}
    BY <1>3 DEF Arrive, TakeLock, Goto, TypeOK
  <2> QED
    BY <1>2, <2>3, <2>4 DEF AllFresh, Fresh
<1>4. CASE ~GetoutStart(r, p)
  <2>1. kind'[r] # "getout" /\ (pc'[r] = "store" => kind'[r] # "see")
    BY <1>4 DEF Starts, Arrive, TakeLock, Goto, TypeOK
  <2> QED
    BY <1>2, <2>1 DEF AllFresh, Fresh
<1> QED
  BY <1>3, <1>4

LEMMA FreshProceed ==
    ASSUME Faults = FALSE, TypeOK, Waiting, AllFresh, NEW r \in Reqs, Proceed(r)
    PROVE  AllFresh'
<1> DEFINE p == who[r]
<1>0. UNCHANGED <<kind, who>> /\ \A q \in Reqs : q # r => pc'[q] = pc[q] /\ snap'[q] = snap[q]
  BY Faults = FALSE, ProceedMoves
<1>1. ASSUME UNCHANGED <<money, total>>, NEW q \in Reqs, q # r PROVE Fresh(q)'
  BY <1>0, <1>1, FreshStays DEF AllFresh
<1>2. CASE SeeRead(r)
  <2>1. UNCHANGED <<money, total>> /\ kind[r] = "see" /\ snap'[r] = SeeValues(p, day[r])
    BY <1>2 DEF SeeRead, redis, TypeOK
  <2>2. /\ snap'[r].money = money[p] + Reward(snap'[r].pays)
        /\ snap'[r].total = total[p] + Reward(snap'[r].pays)
    BY <2>1 DEF SeeValues, SeeSnap
  <2>3. Fresh(r)'
    BY <1>0, <2>1, <2>2 DEF Fresh, Reward
  <2> QED
    BY <1>1, <2>1, <2>3 DEF AllFresh
<1>3. CASE GetoutRead(r)
  <2>1. UNCHANGED <<money, total>> /\ kind[r] = "getout" /\ pc[r] = "read"
    BY <1>3 DEF GetoutRead, redis
  <2>2. p \in Players /\ snap[r] \in Snaps /\ snap[r].amount \in Amounts
    BY <2>1, Arrived DEF AllFresh, Fresh, TypeOK
  <2>3. money[p] \in Nat /\ snap[r].amount \in Nat
    BY <2>2, MoneyAssumption DEF TypeOK
  <2>4. CASE pc'[r] = "insert" /\ snap' = [snap EXCEPT ![r].money = money[p] - snap[r].amount]
    <3>1. snap'[r].amount = snap[r].amount /\ snap'[r].money = money[p] - snap[r].amount
      BY <2>2, <2>4 DEF TypeOK, Snaps
    <3>2. Fresh(r)'
      BY <1>0, <2>1, <2>2, <2>3, <2>4, <3>1 DEF Fresh
    <3> QED
      BY <1>1, <2>1, <3>2 DEF AllFresh
  <2>5. CASE pc'[r] = "finish"
    BY <1>1, <2>1, <2>5 DEF AllFresh, Fresh
  <2> QED
    BY <1>3, <2>4, <2>5 DEF GetoutRead, Goto, TypeOK
<1>4. CASE GetoutInsert(r)
  <2>1. UNCHANGED <<money, total, snap>> /\ pc[r] = "insert" /\ kind[r] = "getout"
    BY <1>4 DEF GetoutInsert, redis
  <2>2. Fresh(r)'
    BY <1>0, <2>1 DEF AllFresh, Fresh
  <2> QED
    BY <1>1, <2>1, <2>2 DEF AllFresh
<1>5. CASE SeeStore(r) \/ GetoutStore(r)
  <2>1. pc[r] = "store" /\ pc'[r] = "finish"
    BY <1>5 DEF SeeStore, GetoutStore, Goto, TypeOK
  <2>2. \A x \in Players : x # p => money'[x] = money[x] /\ total'[x] = total[x]
    BY <1>5, Faults = FALSE DEF SeeStore, SeeWrites, GetoutStore, GetoutWrites, TypeOK
  <2>3. ASSUME NEW q \in Reqs, q # r PROVE Fresh(q)'
    <3>1. InFlight(q) => who[q] \in Players /\ who[q] # p
      BY <2>1, <2>3, Arrived DEF Waiting, OneRequest, InFlight, Busy, Holding
    <3> QED
      BY <1>0, <2>2, <2>3, <3>1, FreshStays DEF AllFresh
  <2> QED
    BY <2>1, <2>3 DEF AllFresh, Fresh
<1>6. CASE Finish(r) \/ ClickStore(r) \/ EntranceFill(r) \/ ReadFails(r) \/ Insert(r)
  <2>1. UNCHANGED <<money, total>>
    BY <1>6 DEF Finish, ClickStore, ClickCounts, EntranceFill, ReadFails, Insert, redis
  <2>2. \/ pc'[r] \in {"finish", "done"}
        \/ pc'[r] = pc[r] /\ snap'[r] = snap[r]
    BY <1>6 DEF Finish, ClickStore, EntranceFill, ReadFails, Insert, Goto, TypeOK
  <2>3. Fresh(r)'
    BY <1>0, <2>1, <2>2, FreshStays DEF AllFresh, Fresh
  <2> QED
    BY <1>1, <2>1, <2>3 DEF AllFresh
<1> QED
  BY <1>2, <1>3, <1>4, <1>5, <1>6 DEF Proceed

LEMMA FreshStep ==
    ASSUME OneAtATime, Faults = FALSE, TypeOK, Waiting, AllFresh, [Next]_vars
    PROVE  AllFresh'
<1>1. CASE \/ CronRead \/ CronStore \/ NextDay \/ UNCHANGED vars
           \/ \E p \in Players : QuotaExpires(p)
           \/ \E k \in AllKinds, p \in Players : Expire(k, p)
  <2>1. UNCHANGED <<money, total, pc, kind, who, snap>>
    BY <1>1 DEF CronRead, CronStore, NextDay, QuotaExpires, Expire, vars, redis, ident
  <2> QED
    BY <2>1, FreshStays DEF AllFresh
<1>2. ~Crash
  BY Faults = FALSE DEF Crash
<1> QED
  BY <1>1, <1>2, OneAtATime, Faults = FALSE, FreshStart, FreshProceed DEF Next, Starts

LEMMA FreshAlways ==
    ASSUME OneAtATime, Faults = FALSE PROVE Spec => [](TypeOK /\ Waiting /\ AllFresh)
<1>1. Init => AllFresh
  BY DEF Init, AllFresh, Fresh
<1>2. TypeOK /\ Waiting /\ AllFresh /\ [Next]_vars => AllFresh'
  BY OneAtATime, Faults = FALSE, FreshStep
<1> QED
  BY <1>1, <1>2, WaitingAlways, OneAtATime, Faults = FALSE, PTL DEF Spec

-----------------------------------------------------------------------------
(* The wallet a client sees.                                               *)

\* The balance, in a state and after a step: a withdrawal whose record is made
\* counts although the money is still to be written.
LEMMA BalanceNow ==
    ASSUME Waiting, NEW p \in Players
    PROVE  /\ \A r \in Reqs : Withdrawing(r, p) => Balance[p] = snap[r].money
           /\ (\A r \in Reqs : ~Withdrawing(r, p)) => Balance[p] = money[p]
<1>1. \A r, q \in Reqs : Withdrawing(r, p) /\ Withdrawing(q, p) => r = q
  BY DEF Waiting, OneRequest, Withdrawing, InFlight, Busy, Holding
<1> QED
  BY <1>1 DEF Balance

LEMMA BalanceNext ==
    ASSUME Waiting', NEW p \in Players
    PROVE  /\ \A r \in Reqs : Withdrawing(r, p)' => Balance'[p] = snap'[r].money
           /\ (\A r \in Reqs : ~Withdrawing(r, p)') => Balance'[p] = money'[p]
<1>1. \A r, q \in Reqs : Withdrawing(r, p)' /\ Withdrawing(q, p)' => r = q
  BY DEF Waiting, OneRequest, Withdrawing, InFlight, Busy, Holding
<1> QED
  BY <1>1 DEF Balance

\* A player whose wallet and whose withdrawal a step leaves alone.
LEMMA BalanceStays ==
    ASSUME Waiting, Waiting', NEW p \in Players, money'[p] = money[p],
           \A r \in Reqs : Withdrawing(r, p)' <=> Withdrawing(r, p),
           \A r \in Reqs : Withdrawing(r, p) => snap'[r] = snap[r]
    PROVE  Balance'[p] = Balance[p]
<1>1. CASE \E r \in Reqs : Withdrawing(r, p)
  BY <1>1, BalanceNow, BalanceNext
<1>2. CASE \A r \in Reqs : ~Withdrawing(r, p)
  BY <1>2, BalanceNow, BalanceNext
<1> QED
  BY <1>1, <1>2

ClientInv == TypeOK /\ Waiting /\ AllFresh

\* A balance is changed for one player at a time.
LEMMA BalanceSet ==
    ASSUME NEW p \in Players, NEW b,
           Balance'[p] = b, \A x \in Players : x # p => Balance'[x] = Balance[x]
    PROVE  Balance' = [Balance EXCEPT ![p] = b]
BY DEF Balance

LEMMA WalletEarn ==
    ASSUME Faults = FALSE, ClientInv, Waiting', NEW r \in Reqs, SeeStore(r)
    PROVE  [W!Next]_<<Balance, total, withdrawn>>
<1> DEFINE p == who[r]
           e == Reward(snap[r].pays)
<1>1. /\ pc[r] = "store" /\ kind[r] = "see" /\ SeeWrites(r)
      /\ UNCHANGED <<kind, who, snap, withdrawn>>
      /\ pc'[r] = "finish" /\ \A q \in Reqs : q # r => pc'[q] = pc[q]
  BY Faults = FALSE DEF SeeStore, Goto, dbs, ident, ClientInv, TypeOK
<1>2. p \in Players
  BY <1>1, Arrived DEF ClientInv
<1>3. /\ money' = [money EXCEPT ![p] = money[p] + e]
      /\ total' = [total EXCEPT ![p] = total[p] + e]
  BY <1>1, <1>2 DEF SeeWrites, ClientInv, AllFresh, Fresh
<1>4. \A q \in Reqs : ~Withdrawing(q, p) /\ ~Withdrawing(q, p)'
  BY <1>1 DEF ClientInv, Waiting, OneRequest, Withdrawing, InFlight, Busy, Holding
<1>5. Balance[p] = money[p] /\ Balance'[p] = money[p] + e
  <2>1. money'[p] = money[p] + e
    BY <1>2, <1>3 DEF ClientInv, TypeOK
  <2> QED
    BY <1>1, <1>2, <1>4, <2>1, BalanceNow, BalanceNext DEF ClientInv, Withdrawing
<1>6. ASSUME NEW x \in Players, x # p PROVE Balance'[x] = Balance[x]
  <2>1. money'[x] = money[x]
    BY <1>3, <1>6
  <2>2. \A q \in Reqs : Withdrawing(q, x)' <=> Withdrawing(q, x)
    BY <1>1 DEF Withdrawing
  <2> QED
    BY <1>1, <2>1, <2>2, BalanceStays DEF ClientInv
<1>7. Balance' = [Balance EXCEPT ![p] = Balance[p] + e]
  BY <1>2, <1>5, <1>6, BalanceSet
<1>8. CASE snap[r].pays
  <2>1. e = SeeEarnings
    BY <1>8 DEF Reward
  <2>2. W!Earn(p)
    BY <1>1, <1>3, <1>7, <2>1 DEF W!Earn
  <2> QED
    BY <1>2, <2>2 DEF W!Next
<1>9. CASE ~snap[r].pays
  <2>1. e = 0 /\ money[p] \in Nat /\ total[p] \in Nat
    BY <1>2, <1>9 DEF Reward, ClientInv, TypeOK
  <2>2. total' = total
    BY <1>3, <2>1 DEF ClientInv, TypeOK
  <2>3. Balance' = Balance
    <3>1. Balance[p] + e = Balance[p]
      BY <1>5, <2>1
    <3> QED
      BY <1>7, <3>1 DEF Balance
  <2> QED
    BY <1>1, <2>2, <2>3
<1> QED
  BY <1>8, <1>9

LEMMA WalletWithdraw ==
    ASSUME Faults = FALSE, ClientInv, Waiting', NEW r \in Reqs, GetoutInsert(r)
    PROVE  [W!Next]_<<Balance, total, withdrawn>>
<1> DEFINE p == who[r]
           a == snap[r].amount
<1>1. /\ pc[r] = "insert" /\ kind[r] = "getout" /\ withdrawn' = [withdrawn EXCEPT ![p] = @ + a]
      /\ UNCHANGED <<kind, who, snap, money, total>>
      /\ pc'[r] = "store" /\ \A q \in Reqs : q # r => pc'[q] = pc[q]
  BY Faults = FALSE DEF GetoutInsert, Goto, redis, ident, ClientInv, TypeOK
<1>2. p \in Players /\ snap[r] \in Snaps
  BY <1>1, Arrived DEF ClientInv, TypeOK
<1>3. a \in Amounts /\ snap[r].money + a = money[p]
  BY <1>1 DEF ClientInv, AllFresh, Fresh
<1>4. a \in Nat /\ snap[r].money \in Nat /\ money[p] \in Nat
  BY <1>2, SnapTyped DEF ClientInv, TypeOK
<1>5. \A q \in Reqs : ~Withdrawing(q, p)
  BY <1>1 DEF ClientInv, Waiting, OneRequest, Withdrawing, InFlight, Busy, Holding
<1>6. Withdrawing(r, p)'
  BY <1>1 DEF Withdrawing
<1>7. Balance[p] = money[p] /\ Balance'[p] = snap[r].money
  BY <1>1, <1>2, <1>5, <1>6, BalanceNow, BalanceNext DEF ClientInv
<1>8. ASSUME NEW x \in Players, x # p PROVE Balance'[x] = Balance[x]
  <2>1. \A q \in Reqs : Withdrawing(q, x)' <=> Withdrawing(q, x)
    BY <1>1, <1>8 DEF Withdrawing
  <2> QED
    BY <1>1, <2>1, BalanceStays DEF ClientInv
<1>9. Balance[p] >= a /\ Balance'[p] = Balance[p] - a
  BY <1>3, <1>4, <1>7
<1>10. Balance' = [Balance EXCEPT ![p] = Balance[p] - a]
  BY <1>2, <1>8, <1>9, BalanceSet
<1>11. W!Withdraw(p, a)
  BY <1>1, <1>9, <1>10 DEF W!Withdraw
<1> QED
  BY <1>2, <1>3, <1>11 DEF W!Next

\* The money that was already withdrawn is written: the client sees nothing.
LEMMA WalletWrite ==
    ASSUME Faults = FALSE, ClientInv, Waiting', NEW r \in Reqs, GetoutStore(r)
    PROVE  UNCHANGED <<Balance, total, withdrawn>>
<1> DEFINE p == who[r]
<1>1. /\ pc[r] = "store" /\ kind[r] = "getout" /\ money' = [money EXCEPT ![p] = snap[r].money]
      /\ UNCHANGED <<kind, who, snap, total, withdrawn>>
      /\ pc'[r] = "finish" /\ \A q \in Reqs : q # r => pc'[q] = pc[q]
  BY Faults = FALSE DEF GetoutStore, GetoutWrites, Goto, dbs, ident, ClientInv, TypeOK
<1>2. p \in Players
  BY <1>1, Arrived DEF ClientInv
<1>3. Withdrawing(r, p) /\ \A q \in Reqs : ~Withdrawing(q, p)'
  BY <1>1 DEF ClientInv, Waiting, OneRequest, Withdrawing, InFlight, Busy, Holding
<1>4. Balance[p] = snap[r].money /\ Balance'[p] = money'[p]
  BY <1>1, <1>2, <1>3, BalanceNow, BalanceNext DEF ClientInv, Withdrawing
<1>5. Balance'[p] = Balance[p]
  BY <1>1, <1>2, <1>4 DEF ClientInv, TypeOK
<1>6. ASSUME NEW x \in Players, x # p PROVE Balance'[x] = Balance[x]
  <2>1. \A q \in Reqs : Withdrawing(q, x)' <=> Withdrawing(q, x)
    BY <1>1, <1>6 DEF Withdrawing
  <2> QED
    BY <1>1, <1>6, <2>1, BalanceStays DEF ClientInv
<1>7. Balance' = Balance
  BY <1>5, <1>6 DEF Balance
<1> QED
  BY <1>1, <1>7

\* What every other step leaves alone.
LEMMA WalletAside ==
    ASSUME ClientInv, Waiting', UNCHANGED <<money, total, withdrawn>>,
           \A q \in Reqs, p \in Players : Withdrawing(q, p)' <=> Withdrawing(q, p),
           \A q \in Reqs, p \in Players : Withdrawing(q, p) => snap'[q] = snap[q]
    PROVE  UNCHANGED <<Balance, total, withdrawn>>
<1>1. \A p \in Players : Balance'[p] = Balance[p]
  BY BalanceStays DEF ClientInv
<1> QED
  BY <1>1 DEF Balance

LEMMA WalletStep ==
    ASSUME OneAtATime, Faults = FALSE, ClientInv, Waiting', [Next]_vars
    PROVE  [W!Next]_<<Balance, total, withdrawn>>
<1>0. TypeOK /\ Waiting
  BY DEF ClientInv
<1>1. ASSUME NEW r \in Reqs, NEW p \in Players, Starts(r, p)
      PROVE  UNCHANGED <<Balance, total, withdrawn>>
  <2>1. UNCHANGED <<money, total, withdrawn>>
    BY <1>1 DEF Starts, SeeStart, ClickStart, GetoutStart, EntranceRead, redis, dbs
  <2>2. pc[r] = "new" /\ (pc'[r] = "store" => kind'[r] = "click")
    BY <1>0, <1>1, OneAtATime, Faults = FALSE, StartMoves
  <2>3. \A q \in Reqs : q # r => /\ pc'[q] = pc[q] /\ kind'[q] = kind[q]
                                /\ who'[q] = who[q] /\ snap'[q] = snap[q]
    BY <1>0, <1>1, OneAtATime, Faults = FALSE, StartMoves
  <2>4. \A q \in Reqs, x \in Players : /\ Withdrawing(q, x)' <=> Withdrawing(q, x)
                                       /\ Withdrawing(q, x) => snap'[q] = snap[q]
    BY <2>2, <2>3 DEF Withdrawing
  <2> QED
    BY <2>1, <2>4, WalletAside
<1>2. ASSUME NEW r \in Reqs, Proceed(r), ~SeeStore(r), ~GetoutInsert(r), ~GetoutStore(r)
      PROVE  UNCHANGED <<Balance, total, withdrawn>>
  <2>1. UNCHANGED <<money, total, withdrawn, kind, who>>
    BY <1>2 DEF Proceed, ReadFails, Finish, SeeRead, Insert, ClickStore, ClickCounts, GetoutRead,
                EntranceFill, redis, dbs, ident
  <2>2. \A q \in Reqs : q # r => pc'[q] = pc[q] /\ snap'[q] = snap[q]
    BY <1>0, <1>2, Faults = FALSE, ProceedMoves
  <2>3. \/ UNCHANGED <<pc, snap>>
        \/ kind[r] # "getout"
        \/ pc[r] # "store" /\ pc'[r] # "store"
    BY <1>0, <1>2, Faults = FALSE
       DEF Proceed, ReadFails, Finish, SeeRead, Insert, ClickStore, GetoutRead, EntranceFill, Goto, TypeOK
  <2>4. \A q \in Reqs, x \in Players : /\ Withdrawing(q, x)' <=> Withdrawing(q, x)
                                       /\ Withdrawing(q, x) => snap'[q] = snap[q]
    BY <2>1, <2>2, <2>3 DEF Withdrawing
  <2> QED
    BY <2>1, <2>4, WalletAside
<1>3. CASE \/ CronRead \/ CronStore \/ NextDay \/ UNCHANGED vars
           \/ \E p \in Players : QuotaExpires(p)
           \/ \E k \in AllKinds, p \in Players : Expire(k, p)
  <2>1. UNCHANGED <<money, total, withdrawn, pc, kind, who, snap>>
    BY <1>3 DEF CronRead, CronStore, NextDay, QuotaExpires, Expire, vars, redis, dbs, ident
  <2> QED
    BY <2>1, WalletAside DEF Withdrawing
<1>4. ~Crash
  BY Faults = FALSE DEF Crash
<1> QED
  BY <1>1, <1>2, <1>3, <1>4, Faults = FALSE, WalletEarn, WalletWithdraw, WalletWrite DEF Next, Starts

(* A client that waits for each answer has a wallet, as long as no call      *)
(* fails: every step of the handlers, the locks, the job and the clock is    *)
(* one advertisement paid, one offered amount withdrawn from a balance that  *)
(* has it, or nothing the client can see.                                   *)
THEOREM MoneyImplementsWallet ==
    ASSUME OneAtATime, Faults = FALSE PROVE Spec => ImplementsWallet
<1>1. Init => W!Init
  <2> SUFFICES ASSUME Init PROVE W!Init
    OBVIOUS
  <2>1. \A r \in Reqs, p \in Players : ~Withdrawing(r, p)
    BY DEF Init, Withdrawing
  <2>2. Balance = [p \in Players |-> 0]
    BY <2>1 DEF Init, Zero, Balance
  <2> QED
    BY <2>2 DEF Init, Zero, W!Init
<1>2. ClientInv /\ ClientInv' /\ [Next]_vars => [W!Next]_<<Balance, total, withdrawn>>
  BY OneAtATime, Faults = FALSE, WalletStep DEF ClientInv
<1>3. Spec => []ClientInv
  BY OneAtATime, Faults = FALSE, FreshAlways DEF ClientInv
<1> QED
  BY <1>1, <1>2, <1>3, PTL DEF Spec, ImplementsWallet, W!Spec

-----------------------------------------------------------------------------
(* The Adrecords.                                                          *)

\* The goroutines of p that are still to insert, and a paying advertisement of
\* p that is recorded or to be recorded but not in the total yet.
Pending(p) == {r \in Reqs : ins[r] /\ who[r] = p}
Paying(r, p) == pc[r] = "store" /\ kind[r] = "see" /\ who[r] = p /\ snap[r].pays
Ahead(p) == IF \E r \in Reqs : Paying(r, p) THEN SeeEarnings ELSE 0

\* A goroutine is started once, after the reading.
Started == \A r \in Reqs : ins[r] => pc[r] \in {"store", "finish", "done"}

\* What is recorded and what the goroutines will record is the total, and the
\* advertisement that is about to enter it.
Recorded == \A p \in Players :
    /\ IsFiniteSet(Pending(p))
    /\ adrecorded[p] + SeeEarnings * Cardinality(Pending(p)) = total[p] + Ahead(p)

RecordInv == ClientInv /\ Started /\ Recorded

\* A player whose goroutines, records, total and advertisement stay.
LEMMA RecordedStays ==
    ASSUME Recorded, NEW p \in Players, adrecorded'[p] = adrecorded[p], total'[p] = total[p],
           \A r \in Reqs : ins'[r] /\ who'[r] = p <=> ins[r] /\ who[r] = p,
           \A r \in Reqs : Paying(r, p)' <=> Paying(r, p)
    PROVE  /\ IsFiniteSet(Pending(p)')
           /\ adrecorded'[p] + SeeEarnings * Cardinality(Pending(p)') = total'[p] + Ahead(p)'
<1>1. Pending(p)' = Pending(p)
  BY DEF Pending
<1>2. Ahead(p)' = Ahead(p)
  BY DEF Ahead
<1> QED
  BY <1>1, <1>2 DEF Recorded

\* One goroutine more, one less.
LEMMA Times ==
    ASSUME NEW n \in Nat, NEW e \in Nat
    PROVE  e * n \in Nat /\ e * (n + 1) = e * n + e
OBVIOUS

\* One request's paying advertisement is the only one of its player.
LEMMA OnlyOne ==
    ASSUME Waiting, NEW r \in Reqs, InFlight(r), NEW q \in Reqs, InFlight(q), who[q] = who[r]
    PROVE  q = r
BY DEF Waiting, OneRequest

LEMMA RecordRead ==
    ASSUME RecordInv, Waiting', NEW r \in Reqs, SeeRead(r)
    PROVE  Started' /\ Recorded'
<1> DEFINE p == who[r]
<1>0. TypeOK /\ Waiting
  BY DEF RecordInv, ClientInv
<1>1. /\ pc[r] = "read" /\ pc'[r] = "store" /\ kind[r] = "see"
      /\ ins' = [ins EXCEPT ![r] = snap'[r].pays]
      /\ UNCHANGED <<kind, who, adrecorded, total>>
      /\ \A q \in Reqs : q # r => pc'[q] = pc[q] /\ snap'[q] = snap[q]
  BY <1>0 DEF SeeRead, Goto, redis, dbs, ident, TypeOK
<1>2. snap'[r].pays \in BOOLEAN /\ ~ins[r]
  <2>1. snap'[r] = SeeValues(p, day[r])
    BY <1>0 DEF SeeRead, TypeOK
  <2> QED
    BY <1>1, <2>1 DEF SeeValues, SeeSnap, RecordInv, Started
<1>3. p \in Players
  BY <1>0, <1>1, Arrived
<1>4. \A q \in Reqs : q # r => ins'[q] = ins[q]
  BY <1>0, <1>1 DEF TypeOK
<1>5. ins'[r] = snap'[r].pays
  BY <1>0, <1>1 DEF TypeOK
<1>6. Started'
  BY <1>1, <1>4 DEF RecordInv, Started
<1>7. ASSUME NEW x \in Players, x # p
      PROVE  /\ IsFiniteSet(Pending(x)')
             /\ adrecorded'[x] + SeeEarnings * Cardinality(Pending(x)') = total'[x] + Ahead(x)'
  <2>1. \A q \in Reqs : ins'[q] /\ who'[q] = x <=> ins[q] /\ who[q] = x
    BY <1>1, <1>4, <1>7
  <2>2. \A q \in Reqs : Paying(q, x)' <=> Paying(q, x)
    BY <1>1, <1>7 DEF Paying
  <2> QED
    BY <1>1, <2>1, <2>2, RecordedStays DEF RecordInv
<1>8. \A q \in Reqs : ~Paying(q, p)
  <2>1. \A q \in Reqs : InFlight(q) /\ who[q] = p => q = r
    BY <1>0, <1>1, OnlyOne DEF InFlight, Busy, Holding
  <2> QED
    BY <1>1, <2>1 DEF Paying, InFlight, Busy, Holding
<1>9. /\ IsFiniteSet(Pending(p)) /\ Cardinality(Pending(p)) \in Nat
      /\ adrecorded[p] + SeeEarnings * Cardinality(Pending(p)) = total[p]
  <2>1. Ahead(p) = 0 /\ total[p] \in Nat
    BY <1>0, <1>3, <1>8 DEF Ahead, TypeOK
  <2> QED
    BY <1>3, <2>1, FS_CardinalityType DEF RecordInv, Recorded
<1>10. ASSUME NEW S, S = {q \in Reqs : ins'[q] /\ who[q] = p}
       PROVE  /\ IsFiniteSet(S)
              /\ adrecorded[p] + SeeEarnings * Cardinality(S)
                     = total[p] + IF snap'[r].pays THEN SeeEarnings ELSE 0
  <2>1. CASE snap'[r].pays
    <3>1. S = Pending(p) \cup {r} /\ r \notin Pending(p)
      BY <1>2, <1>4, <1>5, <1>10, <2>1 DEF Pending
    <3>2. IsFiniteSet(S) /\ Cardinality(S) = Cardinality(Pending(p)) + 1
      BY <1>9, <3>1, FS_AddElement
    <3>3. adrecorded[p] \in Nat /\ total[p] \in Nat /\ SeeEarnings \in Nat
      BY <1>0, <1>3, MoneyAssumption DEF TypeOK
    <3>4. SeeEarnings * Cardinality(S) = SeeEarnings * Cardinality(Pending(p)) + SeeEarnings
      BY <1>9, <3>2, <3>3, Times
    <3>5. SeeEarnings * Cardinality(Pending(p)) \in Nat
      BY <1>9, <3>3, Times
    <3> QED
      BY <1>9, <2>1, <3>2, <3>3, <3>4, <3>5
  <2>2. CASE ~snap'[r].pays
    <3>1. S = Pending(p)
      BY <1>2, <1>4, <1>5, <1>10, <2>2 DEF Pending
    <3>2. total[p] + 0 = total[p]
      BY <1>0, <1>3 DEF TypeOK
    <3> QED
      BY <1>9, <2>2, <3>1, <3>2
  <2> QED
    BY <1>2, <2>1, <2>2
<1>11. \A q \in Reqs : q # r => ~Paying(q, p)'
  BY <1>1, <1>8 DEF Paying
<1>12. Paying(r, p)' <=> snap'[r].pays
  BY <1>1 DEF Paying
<1>13. Ahead(p)' = IF snap'[r].pays THEN SeeEarnings ELSE 0
  BY <1>1, <1>11, <1>12 DEF Ahead
<1>14. Pending(p)' = {q \in Reqs : ins'[q] /\ who[q] = p}
  BY <1>1 DEF Pending
<1>15. /\ IsFiniteSet(Pending(p)')
       /\ adrecorded'[p] + SeeEarnings * Cardinality(Pending(p)') = total'[p] + Ahead(p)'
  BY <1>1, <1>10, <1>13, <1>14
<1>16. Recorded'
  BY <1>1, <1>7, <1>15 DEF Recorded
<1> QED
  BY <1>6, <1>16

LEMMA RecordStore ==
    ASSUME Faults = FALSE, RecordInv, Waiting', NEW r \in Reqs, SeeStore(r)
    PROVE  Started' /\ Recorded'
<1> DEFINE p == who[r]
           e == Reward(snap[r].pays)
<1>0. TypeOK /\ Waiting
  BY DEF RecordInv, ClientInv
<1>1. /\ pc[r] = "store" /\ kind[r] = "see" /\ SeeWrites(r) /\ pc'[r] = "finish"
      /\ UNCHANGED <<kind, who, snap, ins, adrecorded>>
      /\ \A q \in Reqs : q # r => pc'[q] = pc[q]
  BY <1>0, Faults = FALSE DEF SeeStore, Goto, dbs, ident, TypeOK
<1>2. p \in Players
  BY <1>0, <1>1, Arrived
<1>3. total' = [total EXCEPT ![p] = total[p] + e]
  BY <1>1 DEF SeeWrites, RecordInv, ClientInv, AllFresh, Fresh
<1>4. Started'
  BY <1>1 DEF RecordInv, Started
<1>5. ASSUME NEW x \in Players, x # p
      PROVE  /\ IsFiniteSet(Pending(x)')
             /\ adrecorded'[x] + SeeEarnings * Cardinality(Pending(x)') = total'[x] + Ahead(x)'
  <2>1. \A q \in Reqs : Paying(q, x)' <=> Paying(q, x)
    BY <1>1, <1>5 DEF Paying
  <2>2. total'[x] = total[x]
    BY <1>3, <1>5
  <2> QED
    BY <1>1, <2>1, <2>2, RecordedStays DEF RecordInv
<1>6. \A q \in Reqs : InFlight(q) /\ who[q] = p => q = r
  BY <1>0, <1>1, OnlyOne DEF InFlight, Busy, Holding
<1>7. Ahead(p) = e
  <2>1. Paying(r, p) <=> snap[r].pays
    BY <1>1 DEF Paying
  <2>2. \A q \in Reqs : q # r => ~Paying(q, p)
    BY <1>6 DEF Paying, InFlight, Busy, Holding
  <2> QED
    BY <2>1, <2>2 DEF Ahead, Reward
<1>8. Ahead(p)' = 0
  <2>1. \A q \in Reqs : ~Paying(q, p)'
    BY <1>1, <1>6 DEF Paying, InFlight, Busy, Holding
  <2> QED
    BY <1>1, <2>1 DEF Ahead
<1>9. Pending(p)' = Pending(p)
  BY <1>1 DEF Pending
<1>10. total'[p] = total[p] + e /\ total[p] + e + 0 = total[p] + e
  <2>1. total[p] \in Nat /\ e \in Nat
    BY <1>0, <1>2, MoneyAssumption DEF TypeOK, Reward
  <2> QED
    BY <1>0, <1>2, <1>3, <2>1 DEF TypeOK
<1>11. /\ IsFiniteSet(Pending(p)')
       /\ adrecorded'[p] + SeeEarnings * Cardinality(Pending(p)') = total'[p] + Ahead(p)'
  BY <1>1, <1>2, <1>7, <1>8, <1>9, <1>10 DEF RecordInv, Recorded
<1>12. Recorded'
  BY <1>1, <1>5, <1>11 DEF Recorded
<1> QED
  BY <1>4, <1>12

LEMMA RecordInsert ==
    ASSUME Faults = FALSE, RecordInv, NEW r \in Reqs, Insert(r)
    PROVE  Started' /\ Recorded'
<1> DEFINE p == who[r]
<1>0. TypeOK /\ Waiting
  BY DEF RecordInv, ClientInv
<1>1. /\ ins[r] /\ adrecorded' = [adrecorded EXCEPT ![p] = @ + SeeEarnings]
      /\ ins' = [ins EXCEPT ![r] = FALSE]
      /\ UNCHANGED <<pc, kind, who, snap, total>>
  BY Faults = FALSE DEF Insert, redis, ident
<1>2. p \in Players
  BY <1>0, <1>1, Arrived DEF RecordInv, Started
<1>3. ~ins'[r] /\ \A q \in Reqs : q # r => ins'[q] = ins[q]
  BY <1>0, <1>1 DEF TypeOK
<1>4. Started'
  BY <1>1, <1>3 DEF RecordInv, Started
<1>5. \A x \in Players : Ahead(x)' = Ahead(x)
  BY <1>1 DEF Ahead, Paying
<1>6. ASSUME NEW x \in Players, x # p
      PROVE  /\ IsFiniteSet(Pending(x)')
             /\ adrecorded'[x] + SeeEarnings * Cardinality(Pending(x)') = total'[x] + Ahead(x)'
  <2>1. \A q \in Reqs : ins'[q] /\ who'[q] = x <=> ins[q] /\ who[q] = x
    BY <1>1, <1>3, <1>6
  <2>2. \A q \in Reqs : Paying(q, x)' <=> Paying(q, x)
    BY <1>1 DEF Paying
  <2>3. adrecorded'[x] = adrecorded[x]
    BY <1>1, <1>6
  <2> QED
    BY <1>1, <2>1, <2>2, <2>3, RecordedStays DEF RecordInv
<1>7. Pending(p)' = Pending(p) \ {r} /\ r \in Pending(p)
  BY <1>1, <1>3 DEF Pending
<1>8. /\ IsFiniteSet(Pending(p)) /\ Cardinality(Pending(p)) \in Nat
      /\ adrecorded[p] + SeeEarnings * Cardinality(Pending(p)) = total[p] + Ahead(p)
  BY <1>2, FS_CardinalityType DEF RecordInv, Recorded
<1> DEFINE n == Cardinality(Pending(p)')
<1>9. IsFiniteSet(Pending(p)') /\ n \in Nat /\ Cardinality(Pending(p)) = n + 1
  <2>1. IsFiniteSet(Pending(p) \ {r}) /\ Cardinality(Pending(p) \ {r}) = Cardinality(Pending(p)) - 1
    BY <1>7, <1>8, FS_RemoveElement
  <2>2. Cardinality(Pending(p) \ {r}) \in Nat
    BY <2>1, FS_CardinalityType
  <2> QED
    BY <1>7, <1>8, <2>1, <2>2
<1> HIDE DEF n
<1>10. adrecorded'[p] + SeeEarnings * n = total[p] + Ahead(p)
  <2>1. adrecorded[p] \in Nat /\ adrecorded'[p] = adrecorded[p] + SeeEarnings /\ SeeEarnings \in Nat
    BY <1>0, <1>1, <1>2, MoneyAssumption DEF TypeOK
  <2>2. SeeEarnings * n \in Nat /\ SeeEarnings * (n + 1) = SeeEarnings * n + SeeEarnings
    BY <1>9, <2>1, Times
  <2>3. adrecorded[p] + (SeeEarnings * n + SeeEarnings) = total[p] + Ahead(p)
    BY <1>8, <1>9, <2>2
  <2> QED
    BY <2>1, <2>2, <2>3
<1>11. Recorded'
  BY <1>1, <1>2, <1>5, <1>6, <1>9, <1>10 DEF Recorded, n
<1> QED
  BY <1>4, <1>11

LEMMA RecordStep ==
    ASSUME OneAtATime, Faults = FALSE, RecordInv, Waiting', [Next]_vars
    PROVE  Started' /\ Recorded'
<1>0. TypeOK /\ Waiting
  BY DEF RecordInv, ClientInv
<1>1. ASSUME UNCHANGED <<adrecorded, total, ins>>,
             \A q \in Reqs : ins[q] => who'[q] = who[q] /\ pc'[q] \in {"store", "finish", "done"},
             \A q \in Reqs, p \in Players : Paying(q, p)' <=> Paying(q, p)
      PROVE  Started' /\ Recorded'
  <2>1. Started'
    BY <1>1 DEF Started
  <2>2. \A p \in Players : \A q \in Reqs : ins'[q] /\ who'[q] = p <=> ins[q] /\ who[q] = p
    BY <1>1
  <2>3. Recorded'
    BY <1>1, <2>2, RecordedStays DEF RecordInv, Recorded
  <2> QED
    BY <2>1, <2>3
<1>2. ASSUME NEW r \in Reqs, NEW p \in Players, Starts(r, p) PROVE Started' /\ Recorded'
  <2>1. UNCHANGED <<adrecorded, total, ins>>
    BY <1>2 DEF Starts, SeeStart, ClickStart, GetoutStart, EntranceRead, redis, dbs
  <2>2. pc[r] = "new" /\ (pc'[r] = "store" => kind'[r] = "click")
    BY <1>0, <1>2, OneAtATime, Faults = FALSE, StartMoves
  <2>3. \A q \in Reqs : q # r => /\ pc'[q] = pc[q] /\ kind'[q] = kind[q]
                                /\ who'[q] = who[q] /\ snap'[q] = snap[q]
    BY <1>0, <1>2, OneAtATime, Faults = FALSE, StartMoves
  <2>4. ~ins[r]
    BY <2>2 DEF RecordInv, Started
  <2>5. \A q \in Reqs, x \in Players : Paying(q, x)' <=> Paying(q, x)
    BY <2>2, <2>3 DEF Paying
  <2> QED
    BY <1>1, <2>1, <2>3, <2>4, <2>5 DEF RecordInv, Started
<1>3. ASSUME NEW r \in Reqs, Proceed(r), ~SeeRead(r), ~SeeStore(r), ~Insert(r)
      PROVE  Started' /\ Recorded'
  <2>1. UNCHANGED <<adrecorded, total, ins, kind, who>>
    BY <1>3 DEF Proceed, ReadFails, Finish, ClickStore, ClickCounts, GetoutRead, GetoutInsert,
                GetoutStore, GetoutWrites, EntranceFill, redis, dbs, ident
  <2>2. \A q \in Reqs : q # r => pc'[q] = pc[q] /\ snap'[q] = snap[q]
    BY <1>0, <1>3, Faults = FALSE, ProceedMoves
  <2>3. \/ kind[r] # "see"
        \/ pc[r] # "store" /\ pc'[r] # "store"
    BY <1>0, <1>3, Faults = FALSE
       DEF Proceed, ReadFails, Finish, ClickStore, GetoutRead, GetoutInsert, GetoutStore,
           EntranceFill, Goto, TypeOK
  <2>4. pc[r] \in {"store", "finish", "done"} => pc'[r] \in {"store", "finish", "done"}
    BY <1>0, <1>3, Faults = FALSE
       DEF Proceed, ReadFails, Finish, ClickStore, GetoutRead, GetoutInsert, GetoutStore,
           EntranceFill, Goto, TypeOK
  <2>5. \A q \in Reqs, x \in Players : Paying(q, x)' <=> Paying(q, x)
    BY <2>1, <2>2, <2>3 DEF Paying
  <2> QED
    BY <1>1, <2>1, <2>2, <2>4, <2>5 DEF RecordInv, Started
<1>4. ASSUME NEW r \in Reqs, SeeRead(r) \/ SeeStore(r) \/ Insert(r) PROVE Started' /\ Recorded'
  BY <1>4, Faults = FALSE, RecordRead, RecordStore, RecordInsert
<1>5. CASE \/ CronRead \/ CronStore \/ NextDay \/ UNCHANGED vars
           \/ \E p \in Players : QuotaExpires(p)
           \/ \E k \in AllKinds, p \in Players : Expire(k, p)
  <2>1. UNCHANGED <<adrecorded, total, ins, pc, kind, who, snap>>
    BY <1>5 DEF CronRead, CronStore, NextDay, QuotaExpires, Expire, vars, redis, dbs, ident
  <2> QED
    BY <1>1, <2>1 DEF Paying, RecordInv, Started
<1>6. ~Crash
  BY Faults = FALSE DEF Crash
<1> QED
  BY <1>2, <1>3, <1>4, <1>5, <1>6 DEF Next, Starts

(* When nothing is running, the Adrecords of a player add up to the lifetime *)
(* total, although they are inserted by goroutines that outlive their        *)
(* handlers, as long as clients wait and no call fails.                     *)
THEOREM RecordsAlwaysAgree ==
    ASSUME OneAtATime, Faults = FALSE PROVE Spec => []RecordsAgree
<1>1. Init => Started /\ Recorded
  <2> SUFFICES ASSUME Init PROVE Started /\ Recorded
    OBVIOUS
  <2>1. Started
    BY DEF Init, Started
  <2>2. ASSUME NEW p \in Players
        PROVE  /\ IsFiniteSet(Pending(p))
               /\ adrecorded[p] + SeeEarnings * Cardinality(Pending(p)) = total[p] + Ahead(p)
    <3>1. Pending(p) = {}
      BY DEF Init, Pending
    <3>2. IsFiniteSet(Pending(p)) /\ Cardinality(Pending(p)) = 0
      BY <3>1, FS_EmptySet
    <3>3. adrecorded[p] = 0 /\ total[p] = 0 /\ Ahead(p) = 0
      BY DEF Init, Zero, Ahead, Paying
    <3>4. SeeEarnings * 0 = 0
      BY MoneyAssumption
    <3> QED
      BY <3>2, <3>3, <3>4
  <2> QED
    BY <2>1, <2>2 DEF Recorded
<1>2. RecordInv /\ ClientInv' /\ [Next]_vars => Started' /\ Recorded'
  BY OneAtATime, Faults = FALSE, RecordStep DEF ClientInv
<1>3. RecordInv => RecordsAgree
  <2> SUFFICES ASSUME RecordInv, Quiet, NEW p \in Players PROVE adrecorded[p] = total[p]
    BY DEF RecordsAgree, RecordInv, ClientInv, TypeOK
  <2>1. Pending(p) = {} /\ Ahead(p) = 0
    BY DEF Quiet, Pending, Ahead, Paying, InFlight, Busy, Holding
  <2>2. Cardinality(Pending(p)) = 0
    BY <2>1, FS_EmptySet
  <2>3. adrecorded[p] \in Nat /\ total[p] \in Nat /\ SeeEarnings * 0 = 0
    BY MoneyAssumption DEF RecordInv, ClientInv, TypeOK
  <2> QED
    BY <2>1, <2>2, <2>3 DEF RecordInv, Recorded
<1>4. Spec => []ClientInv
  BY OneAtATime, Faults = FALSE, FreshAlways DEF ClientInv
<1> QED
  BY <1>1, <1>2, <1>3, <1>4, PTL DEF Spec, RecordInv
=============================================================================
