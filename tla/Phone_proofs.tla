---------------------------- MODULE Phone_proofs ----------------------------
(* Theorems about Phone, for every number of requests, players, numbers and  *)
(* codes.                                                                   *)
EXTENDS Phone, TLAPS

CodeKeys == [phone : Phones \cup {NoPhone}, code : Codes \cup {NoCode}]
Requests == [who : Players \cup {Nobody}, phone : Phones \cup {NoPhone}, old : Phones \cup {NoPhone}]

\* The steps of Next that are not a request's.
Elsewhere == Crash \/ \E p \in Players : ExpireTag(p) \/ ExpireCode(p)

-----------------------------------------------------------------------------
LEMMA InitTyped == Init => TypeOK
BY DEF Init, TypeOK, None, NoReq, InFlight

\* A request that has passed its checks is a player's, about a number.
LEMMA ArriveTyped ==
    ASSUME TypeOK, NEW r \in Reqs, NEW p \in Players, NEW x \in Phones,
           NEW old \in Phones \cup {NoPhone}, NEW l \in {"issue", "store"}, Arrive(r, p, x, old, l)
    PROVE  TypeOK'
<1>1. raced' \subseteq Phones
  <2>1. Clashes(p, x, old) \subseteq Phones
    BY DEF Clashes
  <2> QED
    BY <2>1 DEF Arrive, TypeOK
<1> QED
  BY <1>1 DEF Arrive, TypeOK, InFlight

LEMMA ReturnTyped ==
    ASSUME TypeOK, NEW r \in Reqs, Return(r)
    PROVE  /\ pc' \in [Reqs -> {"idle", "issue", "store"}] /\ req' \in [Reqs -> Requests]
           /\ \A q \in Reqs : InFlight(q)' => req'[q].who \in Players /\ req'[q].phone \in Phones
BY DEF Return, NoReq, TypeOK, InFlight, Requests

LEMMA IssueTyped ==
    ASSUME TypeOK, NEW r \in Reqs, Issue(r)
    PROVE  TypeOK'
<1>1. req[r].who \in Players /\ req[r].phone \in Phones
  BY DEF Issue, TypeOK, InFlight
<1>2. CASE IssueWrites(req[r].who, req[r].phone)
  <2>1. PICK c \in Codes :
           /\ codetag' = codetag \cup {req[r].who}
           /\ code' = [code EXCEPT ![req[r].who] = [phone |-> req[r].phone, code |-> c]]
           /\ issued' = issued \cup {<<req[r].who, req[r].phone>>}
    BY <1>2 DEF IssueWrites
  <2>2. code' \in [Players -> CodeKeys]
    BY <1>1, <2>1 DEF TypeOK, CodeKeys
  <2> QED
    BY <1>1, <2>1, <2>2, ReturnTyped DEF Issue, TypeOK, CodeKeys, Requests
<1>3. CASE UNCHANGED <<codetag, code, issued>>
  BY <1>3, ReturnTyped DEF Issue, TypeOK, Requests
<1> QED
  BY <1>2, <1>3 DEF Issue

LEMMA StoreTyped ==
    ASSUME TypeOK, NEW r \in Reqs, Store(r)
    PROVE  TypeOK'
<1>1. req[r].who \in Players /\ req[r].phone \in Phones
  BY DEF Store, TypeOK, InFlight
<1>2. CASE StoreWrites(req[r].who, req[r].phone, req[r].old)
  <2>1. code' \in [Players -> CodeKeys]
    BY <1>2 DEF StoreWrites, TypeOK, CodeKeys, None
  <2>2. /\ accphone' \in [Players -> Phones \cup {NoPhone}]
        /\ openphone' \in [Players -> Phones \cup {NoPhone}]
        /\ hasbinded' \subseteq Phones
    BY <1>1, <1>2 DEF StoreWrites, TypeOK
  <2> QED
    BY <2>1, <2>2, ReturnTyped DEF Store, TypeOK, CodeKeys, Requests
<1>3. CASE UNCHANGED <<accphone, openphone, hasbinded, code>>
  BY <1>3, ReturnTyped DEF Store, TypeOK, Requests
<1> QED
  BY <1>2, <1>3 DEF Store

LEMMA NextTyped == TypeOK /\ [Next]_vars => TypeOK'
<1> SUFFICES ASSUME TypeOK, [Next]_vars PROVE TypeOK'
  OBVIOUS
<1>1. ASSUME NEW r \in Reqs, NEW p \in Players, NEW x \in Phones, GetCode(r, p, x) PROVE TypeOK'
  BY <1>1, ArriveTyped DEF GetCode
<1>2. ASSUME NEW r \in Reqs, NEW p \in Players, NEW x \in Phones, NEW c \in Codes, Bind(r, p, x, c)
      PROVE  TypeOK'
  BY <1>2, ArriveTyped DEF Bind
<1>3. ASSUME NEW r \in Reqs, NEW p \in Players, NEW x \in Phones, NEW c \in Codes,
             NEW old \in Phones, ModifyBind(r, p, old, x, c)
      PROVE  TypeOK'
  BY <1>3, ArriveTyped DEF ModifyBind
<1>4. ASSUME NEW r \in Reqs, Issue(r) \/ Store(r) PROVE TypeOK'
  BY <1>4, IssueTyped, StoreTyped
<1>5. ASSUME NEW p \in Players, ExpireTag(p) PROVE TypeOK'
  BY <1>5 DEF ExpireTag, TypeOK, InFlight
<1>6. ASSUME NEW p \in Players, ExpireCode(p) PROVE TypeOK'
  <2>1. code' \in [Players -> CodeKeys]
    BY <1>6 DEF ExpireCode, TypeOK, CodeKeys, None
  <2> QED
    BY <1>6, <2>1 DEF ExpireCode, TypeOK, CodeKeys, InFlight
<1>7. CASE Crash
  BY <1>7 DEF Crash, TypeOK, NoReq, InFlight
<1>8. CASE UNCHANGED vars
  BY <1>8 DEF vars, TypeOK, InFlight
<1> QED
  BY <1>1, <1>2, <1>3, <1>4, <1>5, <1>6, <1>7, <1>8 DEF Next

\* Keys, requests and bound numbers have their types.
THEOREM TypeCorrect == Spec => []TypeOK
BY InitTyped, NextTyped, PTL DEF Spec

-----------------------------------------------------------------------------
(* Numbers are bound with codes that were made for them.                    *)

\* What a code key holds, and what a request is about to store, was asked for by
\* the player.
CodeMade(p) == code[p] = None \/ <<p, code[p].phone>> \in issued
StoreMade(r) == pc[r] = "store" => <<req[r].who, req[r].phone>> \in issued
Made == /\ \A p \in Players : CodeMade(p)
        /\ \A r \in Reqs : StoreMade(r)
        /\ Verified

LEMMA MadeInit == Init => Made
BY DEF Init, Made, CodeMade, StoreMade, Verified, entrance

\* A request arrives to store only what the player's code key holds.
LEMMA MadeArrive ==
    ASSUME TypeOK, Made, NEW r \in Reqs, NEW p \in Players, NEW x \in Phones, NEW old, NEW l,
           Arrive(r, p, x, old, l), l = "store" => <<p, x>> \in issued
    PROVE  Made'
<1>1. UNCHANGED <<code, accphone, issued>>
  BY DEF Arrive
<1>2. ASSUME NEW q \in Reqs PROVE StoreMade(q)'
  <2>1. CASE q = r
    BY <2>1 DEF Arrive, StoreMade, TypeOK
  <2>2. CASE q # r
    BY <2>2 DEF Arrive, StoreMade, Made, TypeOK
  <2> QED
    BY <2>1, <2>2
<1> QED
  BY <1>1, <1>2 DEF Made, CodeMade, Verified, entrance

LEMMA CodeMatched ==
    ASSUME Made, NEW p \in Players, NEW x \in Phones, NEW c \in Codes, Matches(p, x, c)
    PROVE  <<p, x>> \in issued
<1>1. code[p] = [phone |-> x, code |-> c]
  BY DEF Matches
<1>2. code[p].phone = x /\ code[p] # None
  BY <1>1, PhoneAssumption DEF None
<1> QED
  BY <1>2 DEF Made, CodeMade

LEMMA MadeIssue ==
    ASSUME TypeOK, Made, NEW r \in Reqs, Issue(r)
    PROVE  Made'
<1> DEFINE p == req[r].who
           x == req[r].phone
<1>1. p \in Players
  BY DEF Issue, TypeOK, InFlight
<1>2. issued \subseteq issued' /\ UNCHANGED accphone
  BY DEF Issue, IssueWrites
<1>3. \A q \in Reqs : pc'[q] = "store" => pc[q] = "store" /\ req'[q] = req[q]
  BY DEF Issue, Return, TypeOK
<1>4. \A q \in Players : code'[q] = code[q] \/ (q = p /\ code'[q].phone = x /\ <<p, x>> \in issued')
  <2>1. CASE UNCHANGED code
    BY <2>1
  <2>2. ASSUME NEW c \in Codes, code' = [code EXCEPT ![p] = [phone |-> x, code |-> c]],
               issued' = issued \cup {<<p, x>>}
        PROVE  \A q \in Players :
                  code'[q] = code[q] \/ (q = p /\ code'[q].phone = x /\ <<p, x>> \in issued')
    BY <1>1, <2>2 DEF TypeOK
  <2> QED
    BY <2>1, <2>2 DEF Issue, IssueWrites
<1>5. ASSUME NEW q \in Players PROVE CodeMade(q)'
  <2>1. CASE code'[q] = code[q]
    BY <1>2, <2>1 DEF Made, CodeMade, None
  <2>2. CASE q = p /\ code'[q].phone = x /\ <<p, x>> \in issued'
    BY <2>2 DEF CodeMade
  <2> QED
    BY <1>4, <2>1, <2>2
<1> QED
  BY <1>2, <1>3, <1>5 DEF Made, StoreMade, Verified, entrance

LEMMA MadeStore ==
    ASSUME TypeOK, Made, NEW r \in Reqs, Store(r)
    PROVE  Made'
<1> DEFINE p == req[r].who
           x == req[r].phone
<1>1. p \in Players /\ <<p, x>> \in issued /\ UNCHANGED issued
  BY DEF Store, Made, StoreMade, TypeOK, InFlight
<1>2. \A q \in Reqs : pc'[q] = "store" => pc[q] = "store" /\ req'[q] = req[q]
  BY DEF Store, Return, TypeOK
<1>3. \A q \in Players : code'[q] \in {code[q], None}
  BY DEF Store, StoreWrites, TypeOK
<1>4. \A q \in Players : accphone'[q] = accphone[q] \/ (q = p /\ accphone'[q] = x)
  BY DEF Store, StoreWrites, TypeOK
<1>5. \A q \in Players : CodeMade(q)'
  BY <1>1, <1>3 DEF Made, CodeMade, None
<1> QED
  BY <1>1, <1>2, <1>4, <1>5 DEF Made, StoreMade, Verified, entrance

LEMMA MadeElsewhere ==
    ASSUME TypeOK, Made, Elsewhere \/ UNCHANGED vars
    PROVE  Made'
<1>1. UNCHANGED <<accphone, issued>>
  BY DEF Elsewhere, ExpireTag, ExpireCode, Crash, vars
<1>2. \A q \in Reqs : pc'[q] = "store" => pc[q] = "store" /\ req'[q] = req[q]
  BY DEF Elsewhere, ExpireTag, ExpireCode, Crash, vars
<1>3. \A q \in Players : code'[q] \in {code[q], None}
  BY DEF Elsewhere, ExpireTag, ExpireCode, Crash, vars, TypeOK
<1>4. \A q \in Players : CodeMade(q)'
  BY <1>1, <1>3 DEF Made, CodeMade, None
<1> QED
  BY <1>1, <1>2, <1>4 DEF Made, StoreMade, Verified, entrance

LEMMA MadeStep == TypeOK /\ Made /\ [Next]_vars => Made'
<1> SUFFICES ASSUME TypeOK, Made, [Next]_vars PROVE Made'
  OBVIOUS
<1>1. ASSUME NEW r \in Reqs, NEW p \in Players, NEW x \in Phones, GetCode(r, p, x) PROVE Made'
  BY <1>1, MadeArrive DEF GetCode
<1>2. ASSUME NEW r \in Reqs, NEW p \in Players, NEW x \in Phones, NEW c \in Codes, Bind(r, p, x, c)
      PROVE  Made'
  BY <1>2, MadeArrive, CodeMatched DEF Bind
<1>3. ASSUME NEW r \in Reqs, NEW p \in Players, NEW x \in Phones, NEW c \in Codes,
             NEW old \in Phones, ModifyBind(r, p, old, x, c)
      PROVE  Made'
  BY <1>3, MadeArrive, CodeMatched DEF ModifyBind
<1>4. ASSUME NEW r \in Reqs, Issue(r) \/ Store(r) PROVE Made'
  BY <1>4, MadeIssue, MadeStore
<1>5. CASE Elsewhere \/ UNCHANGED vars
  BY <1>5, MadeElsewhere
<1> QED
  BY <1>1, <1>2, <1>3, <1>4, <1>5 DEF Next, Elsewhere

(* No player is ever shown a number that no code was made for at that        *)
(* player's request, even if requests of one player overlap.                 *)
THEOREM AlwaysVerified == Spec => []Verified
<1>1. Made => Verified
  BY DEF Made
<1> QED
  BY <1>1, InitTyped, MadeInit, NextTyped, MadeStep, PTL DEF Spec

-----------------------------------------------------------------------------
(* Numbers that nobody raced for.                                           *)

Spoiled == raced \cup {NoPhone}

\* Two handlers about to store have raced for their common number, or, being one
\* player's, for all their numbers.
Apart == \A r, q \in Reqs : pc[r] = "store" /\ pc[q] = "store" /\ r # q =>
    /\ req[r].phone = req[q].phone => req[r].phone \in raced
    /\ req[r].who = req[q].who => {req[r].phone, req[r].old} \subseteq Spoiled

\* The number a handler is about to store is free, and the one it replaces is the
\* player's, unless they were raced for.
StillSo(r) == pc[r] = "store" =>
    /\ req[r].phone \in hasbinded => req[r].phone \in raced
    /\ req[r].old = accphone[req[r].who]
          \/ {req[r].old, accphone[req[r].who]} \subseteq Spoiled

Book == /\ Apart /\ HasBindedExact /\ OneOwner
        /\ \A r \in Reqs : StillSo(r)

LEMMA BookInit == Init => Book
BY DEF Init, Book, Apart, HasBindedExact, OneOwner, StillSo

\* A step that leaves what is bound alone and lets no handler reach its store.
LEMMA BookAside ==
    ASSUME Book, UNCHANGED <<accphone, hasbinded, raced>>,
           \A q \in Reqs : pc'[q] = "store" => pc[q] = "store" /\ req'[q] = req[q]
    PROVE  Book'
<1>1. Apart'
  BY DEF Book, Apart, Spoiled
<1>2. \A q \in Reqs : StillSo(q)'
  BY DEF Book, StillSo, Spoiled
<1> QED
  BY <1>1, <1>2 DEF Book, HasBindedExact, OneOwner

\* Arriving, a handler spoils the numbers it races for.
LEMMA BookArrive ==
    ASSUME TypeOK, Book, NEW r \in Reqs, NEW p \in Players, NEW x \in Phones,
           NEW old \in Phones \cup {NoPhone},
           Arrive(r, p, x, old, "store"), x \notin hasbinded, accphone[p] = old
    PROVE  Book'
<1>1. /\ \A q \in Reqs : q # r => pc'[q] = pc[q] /\ req'[q] = req[q]
      /\ req'[r] = [who |-> p, phone |-> x, old |-> old]
      /\ UNCHANGED <<accphone, hasbinded>>
      /\ pc[r] = "idle" /\ raced' = raced \cup Clashes(p, x, old)
  BY DEF Arrive, TypeOK
<1>2. ASSUME NEW q \in Reqs, pc[q] = "store"
      PROVE  /\ req[q].phone = x => x \in raced'
             /\ req[q].who = p => {x, old, req[q].phone, req[q].old} \subseteq Spoiled'
  <2>1. \A y \in Phones : req[q].who = p /\ y \in {x, old, req[q].phone, req[q].old}
          => y \in Clashes(p, x, old)
    BY <1>2 DEF Clashes
  <2>2. req[q].phone = x => x \in Clashes(p, x, old)
    BY <1>2 DEF Clashes
  <2>3. {x, old, req[q].phone, req[q].old} \subseteq Phones \cup {NoPhone}
    BY DEF TypeOK
  <2> QED
    BY <1>1, <2>1, <2>2, <2>3 DEF Spoiled
<1>3. Apart'
  <2> SUFFICES ASSUME NEW q \in Reqs, NEW t \in Reqs, q # t, pc'[q] = "store", pc'[t] = "store"
               PROVE  /\ req'[q].phone = req'[t].phone => req'[q].phone \in raced'
                      /\ req'[q].who = req'[t].who
                            => {req'[q].phone, req'[q].old} \subseteq Spoiled'
    BY DEF Apart
  <2>1. CASE q # r /\ t # r
    BY <1>1, <2>1 DEF Book, Apart, Spoiled
  <2>2. CASE q = r
    BY <1>1, <1>2, <2>2
  <2>3. CASE t = r
    BY <1>1, <1>2, <2>3
  <2> QED
    BY <2>1, <2>2, <2>3
<1>4. ASSUME NEW q \in Reqs PROVE StillSo(q)'
  <2>1. CASE q = r
    BY <1>1, <2>1 DEF StillSo
  <2>2. CASE q # r
    BY <1>1, <2>2 DEF Book, StillSo, Spoiled
  <2> QED
    BY <2>1, <2>2
<1>5. HasBindedExact'
  <2>1. \A y \in Phones : y \notin raced => (y \in hasbinded <=> \E q \in Players : accphone[q] = y)
    BY PhoneAssumption DEF Book, HasBindedExact
  <2>2. /\ raced \subseteq raced' /\ hasbinded \subseteq Phones
        /\ \A q \in Players : accphone[q] \in Phones \cup {NoPhone}
    BY <1>1 DEF TypeOK
  <2> QED
    BY <1>1, <2>1, <2>2, PhoneAssumption DEF HasBindedExact
<1> QED
  BY <1>1, <1>3, <1>4, <1>5 DEF Book, OneOwner

\* Storing a number in place of another keeps the book of all unspoiled numbers.
LEMMA BookStore ==
    ASSUME TypeOK, Book, NEW r \in Reqs, pc[r] = "store", Return(r), UNCHANGED raced,
           StoreWrites(req[r].who, req[r].phone, req[r].old)
    PROVE  Book'
<1> DEFINE p == req[r].who
           x == req[r].phone
           old == req[r].old
           now == accphone[p]
<1>1. /\ p \in Players /\ x \in Phones /\ x # NoPhone
      /\ old \in Phones \cup {NoPhone} /\ now \in Phones \cup {NoPhone}
  BY PhoneAssumption DEF TypeOK, InFlight
<1>2. /\ x \in hasbinded => x \in raced
      /\ old = now \/ {old, now} \subseteq Spoiled
  BY DEF Book, StillSo
<1>3. hasbinded' = (hasbinded \cup {x}) \ {old}
  BY DEF StoreWrites
<1>4. accphone'[p] = x /\ \A q \in Players : q # p => accphone'[q] = accphone[q]
  BY <1>1 DEF StoreWrites, TypeOK
<1>5. \A q \in Players : accphone[q] = x => x \in raced
  BY <1>1, <1>2 DEF Book, HasBindedExact
<1>6. OneOwner'
  BY <1>4, <1>5 DEF Book, OneOwner
<1>7. \A q \in Players : q # p /\ accphone[q] = old => old \in Spoiled
  BY <1>1, <1>2 DEF Book, OneOwner, Spoiled
<1>8. HasBindedExact'
  <2>1. ASSUME NEW y \in hasbinded', y \notin raced
        PROVE  y # NoPhone /\ \E q \in Players : accphone'[q] = y
    <3>1. CASE y = x
      BY <1>1, <1>4, <3>1
    <3>2. CASE y # x
      <4>1. y \in hasbinded /\ y # old
        BY <1>3, <2>1, <3>2
      <4>2. PICK q \in Players : accphone[q] = y /\ y # NoPhone
        BY <2>1, <4>1 DEF Book, HasBindedExact
      <4>3. q # p
        BY <1>2, <2>1, <4>1, <4>2 DEF Spoiled
      <4> QED
        BY <1>4, <4>2, <4>3
    <3> QED
      BY <3>1, <3>2
  <2>2. ASSUME NEW q \in Players, accphone'[q] \notin Spoiled PROVE accphone'[q] \in hasbinded'
    <3>1. CASE q = p
      <4>1. x \notin raced /\ x # old
        BY <1>1, <1>2, <1>4, <1>5, <2>2, <3>1 DEF Spoiled
      <4> QED
        BY <1>3, <1>4, <3>1, <4>1
    <3>2. CASE q # p
      <4>1. accphone'[q] = accphone[q] /\ accphone[q] \in hasbinded
        BY <1>4, <2>2, <3>2 DEF Book, HasBindedExact, Spoiled
      <4> QED
        BY <1>3, <1>7, <2>2, <3>2, <4>1
    <3> QED
      BY <3>1, <3>2
  <2> QED
    BY <2>1, <2>2 DEF HasBindedExact, Spoiled
<1>9. \A q \in Reqs : pc'[q] = "store" => q # r /\ pc[q] = "store" /\ req'[q] = req[q]
  BY DEF Return, TypeOK
<1>10. Apart'
  BY <1>9 DEF Book, Apart, Spoiled
<1>11. ASSUME NEW q \in Reqs, pc'[q] = "store" PROVE StillSo(q)'
  <2> DEFINE w == req[q].who
  <2>1. q # r /\ pc[q] = "store" /\ req'[q] = req[q] /\ w \in Players
    BY <1>9, <1>11 DEF TypeOK, InFlight
  <2>2. /\ req[q].phone \in hasbinded => req[q].phone \in raced
        /\ req[q].old = accphone[w] \/ {req[q].old, accphone[w]} \subseteq Spoiled
        /\ req[q].phone = x => x \in raced
        /\ w = p => {x, req[q].old} \subseteq Spoiled
    BY <2>1 DEF Book, StillSo, Apart
  <2>3. req[q].phone \in hasbinded' => req[q].phone \in raced
    BY <1>3, <2>2
  <2>4. req[q].old = accphone'[w] \/ {req[q].old, accphone'[w]} \subseteq Spoiled
    BY <1>4, <2>1, <2>2
  <2> QED
    BY <2>1, <2>3, <2>4 DEF StillSo, Spoiled
<1>12. \A q \in Reqs : StillSo(q)'
  BY <1>11 DEF StillSo
<1> QED
  BY <1>6, <1>8, <1>10, <1>12 DEF Book

LEMMA BookStep == TypeOK /\ Book /\ [Next]_vars => Book'
<1> SUFFICES ASSUME TypeOK, Book, [Next]_vars PROVE Book'
  OBVIOUS
<1>1. ASSUME NEW r \in Reqs, NEW p \in Players, NEW x \in Phones, GetCode(r, p, x) PROVE Book'
  <2>1. UNCHANGED <<accphone, hasbinded, raced>>
    BY <1>1 DEF GetCode, Arrive
  <2>2. \A q \in Reqs : pc'[q] = "store" => pc[q] = "store" /\ req'[q] = req[q]
    BY <1>1 DEF GetCode, Arrive, TypeOK
  <2> QED
    BY <2>1, <2>2, BookAside
<1>2. ASSUME NEW r \in Reqs, NEW p \in Players, NEW x \in Phones, NEW c \in Codes, Bind(r, p, x, c)
      PROVE  Book'
  BY <1>2, BookArrive DEF Bind, Matches
<1>3. ASSUME NEW r \in Reqs, NEW p \in Players, NEW x \in Phones, NEW c \in Codes,
             NEW old \in Phones, ModifyBind(r, p, old, x, c)
      PROVE  Book'
  BY <1>3, BookArrive DEF ModifyBind, Matches
<1>4. ASSUME NEW r \in Reqs, Issue(r) PROVE Book'
  BY <1>4, BookAside DEF Issue, Return, TypeOK
<1>5. ASSUME NEW r \in Reqs, Store(r) PROVE Book'
  <2>1. CASE StoreWrites(req[r].who, req[r].phone, req[r].old)
    BY <1>5, <2>1, BookStore DEF Store
  <2>2. CASE UNCHANGED <<accphone, openphone, hasbinded, code>>
    BY <1>5, <2>2, BookAside DEF Store, Return, TypeOK
  <2> QED
    BY <1>5, <2>1, <2>2 DEF Store
<1>6. CASE Elsewhere \/ UNCHANGED vars
  BY <1>6, BookAside DEF Elsewhere, ExpireTag, ExpireCode, Crash, vars
<1> QED
  BY <1>1, <1>2, <1>3, <1>4, <1>5, <1>6 DEF Next, Elsewhere

LEMMA BookAlways == Spec => [](TypeOK /\ Book)
<1>1. TypeOK /\ Book /\ [Next]_vars => TypeOK' /\ Book'
  BY NextTyped, BookStep
<1> QED
  BY <1>1, InitTyped, BookInit, PTL DEF Spec

(* Of the numbers no two handlers raced for, exactly those that players have *)
(* are in the set of bound numbers, whatever overlaps, fails or expires.     *)
THEOREM BoundNumbersExact == Spec => []HasBindedExact
<1>1. Book => HasBindedExact
  BY DEF Book
<1> QED
  BY <1>1, BookAlways, PTL

(* A number belongs to two players only if two handlers raced for it.        *)
THEOREM NumberHasOneOwner == Spec => []OneOwner
<1>1. Book => OneOwner
  BY DEF Book
<1> QED
  BY <1>1, BookAlways, PTL

=============================================================================
