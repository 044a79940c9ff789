--------------------------- MODULE RealName_proofs ---------------------------
(***************************************************************************)
(* What setup_real_modify.go guarantees for every set of players, requests, *)
(* numbers and names.  The lock is what makes a registration permanent; it *)
(* is a player's lock, so that a number gets no second owner is proved of   *)
(* the texts that no two requests carried at once.                         *)
(***************************************************************************)
EXTENDS RealName, SequenceTheorems, TLAPS

LEMMA ValidCardsAreCards == ValidCards \subseteq Cards /\ NoCard \notin ValidCards
BY RealNameAssumption DEF ValidCards

LEMMA ValidNamesAreNames == ValidNames \subseteq Names
BY DEF ValidNames

LEMMA TypeInit == Init => TypeOK
BY DEF Init, TypeOK, NoReq, InFlight

LEMMA TypeStart ==
    ASSUME TypeOK, NEW r \in Reqs, NEW p \in Players, NEW c \in Cards, NEW n \in Names,
           Start(r, p, c, n)
    PROVE  TypeOK'
<1>1. locks' \subseteq Players
  BY DEF TypeOK, Start, TakeLock
<1>2. CASE Checked(r, p, c, n)
  <2> DEFINE ok == c \in ValidCards /\ n \in ValidNames
  <2>1. /\ pc' = [pc EXCEPT ![r] = IF ok THEN "read" ELSE "finish"]
        /\ req' = [req EXCEPT ![r] = [who |-> p, card |-> IF ok THEN c ELSE NoCard,
                                      name |-> IF ok THEN n ELSE NoName]]
    BY <1>2 DEF Checked, Goto
  <2>2. UNCHANGED <<cards, realnick, cardcode>> /\ raced' \subseteq Cards
    BY DEF Start, TypeOK
  <2>3. QED
    BY <1>1, <2>1, <2>2 DEF TypeOK, InFlight
<1>3. CASE UNCHANGED <<pc, req>>
  <2>1. UNCHANGED <<cards, realnick, cardcode>> /\ raced' \subseteq Cards
    BY DEF Start, TypeOK
  <2>2. QED
    BY <1>1, <1>3, <2>1 DEF TypeOK, InFlight
<1>4. QED
  BY <1>2, <1>3 DEF Start, TakeLock

LEMMA TypeStep == TypeOK /\ [Next]_vars => TypeOK'
<1> SUFFICES ASSUME TypeOK, [Next]_vars PROVE TypeOK'
  OBVIOUS
<1>1. ASSUME NEW r \in Reqs, NEW p \in Players, NEW c \in Cards, NEW n \in Names,
             Start(r, p, c, n) PROVE TypeOK'
  BY <1>1, TypeStart
<1>2. ASSUME NEW r \in Reqs, Read(r) PROVE TypeOK'
  BY <1>2 DEF TypeOK, Read, Goto, InFlight
<1>3. ASSUME NEW r \in Reqs, Store(r) PROVE TypeOK'
  BY <1>3, ValidCardsAreCards, ValidNamesAreNames
     DEF TypeOK, Store, StoreWrites, Goto, InFlight
<1>4. ASSUME NEW r \in Reqs, Finish(r) PROVE TypeOK'
  BY <1>4 DEF TypeOK, Finish, Goto, NoReq, InFlight
<1>5. ASSUME NEW p \in Players, Expire(p) PROVE TypeOK'
  BY <1>5 DEF TypeOK, Expire, InFlight
<1>6. CASE Crash
  BY <1>6 DEF TypeOK, Crash, NoReq, InFlight
<1>7. CASE UNCHANGED vars
  BY <1>7 DEF TypeOK, vars, InFlight
<1>8. QED
  BY <1>1, <1>2, <1>3, <1>4, <1>5, <1>6, <1>7 DEF Next

(* Only numbers and names that pass the checks are ever on their way to     *)
(* Redis, and what Redis holds are numbers and names that were sent.        *)
THEOREM TypeCorrect == Spec => []TypeOK
BY TypeInit, TypeStep, PTL DEF Spec

-----------------------------------------------------------------------------
(* While no handler outlives its key, a player has one request at a time.   *)

LEMMA ExclusiveStep ==
    ASSUME Timely, TypeOK, LocksExclusive, [Next]_vars PROVE LocksExclusive'
<1> USE DEF LocksExclusive, InFlight
<1>1. ASSUME NEW r \in Reqs, NEW p \in Players, NEW c \in Cards, NEW n \in Names,
             Start(r, p, c, n) PROVE LocksExclusive'
  <2>1. CASE p \notin locks /\ locks' = locks \cup {p} /\ Checked(r, p, c, n)
    <3>1. \A q \in Reqs : InFlight(q) => req[q].who # p
      BY <2>1
    <3>2. /\ \A q \in Reqs \ {r} : pc'[q] = pc[q] /\ req'[q] = req[q]
          /\ req'[r].who = p /\ locks' = locks \cup {p}
      BY <2>1 DEF Checked, Goto, TypeOK
    <3>3. QED
      BY <3>1, <3>2
  <2>2. CASE locks' = locks \cup {p} /\ UNCHANGED <<pc, req>>
    BY <2>2
  <2>3. QED
    BY <1>1, <2>1, <2>2 DEF Start, TakeLock
<1>2. ASSUME NEW r \in Reqs, Read(r) PROVE LocksExclusive'
  BY <1>2 DEF Read, Goto, TypeOK
<1>3. ASSUME NEW r \in Reqs, Store(r) PROVE LocksExclusive'
  BY <1>3 DEF Store, Goto, TypeOK
<1>4. ASSUME NEW r \in Reqs, Finish(r) PROVE LocksExclusive'
  <2>1. \A q \in Reqs : q # r => pc'[q] = pc[q] /\ req'[q] = req[q]
    BY <1>4 DEF Finish, Goto, TypeOK
  <2>2. pc[r] = "finish" /\ pc'[r] = "idle" /\ locks \ {req[r].who} \subseteq locks'
    BY <1>4 DEF Finish, Goto, TypeOK
  <2>3. QED
    BY <2>1, <2>2
<1>5. ASSUME NEW p \in Players, Expire(p) PROVE LocksExclusive'
  BY <1>5 DEF Expire
<1>6. CASE Crash
  BY <1>6 DEF Crash
<1>7. CASE UNCHANGED vars
  BY <1>7 DEF vars
<1>8. QED
  BY <1>1, <1>2, <1>3, <1>4, <1>5, <1>6, <1>7 DEF Next

(* So a request that has seen that its player is not registered is right    *)
(* until it has registered the player itself.                               *)
LEMMA FirstStep ==
    ASSUME TypeOK, LocksExclusive, StoresFirst, [Next]_vars PROVE StoresFirst'
<1> USE DEF StoresFirst
<1>1. ASSUME NEW r \in Reqs, NEW p \in Players, NEW c \in Cards, NEW n \in Names,
             Start(r, p, c, n) PROVE StoresFirst'
  <2>1. CASE Checked(r, p, c, n)
    <3>1. \A q \in Reqs \ {r} : pc'[q] = pc[q] /\ req'[q] = req[q]
      BY <2>1 DEF Checked, Goto, TypeOK
    <3>2. pc'[r] # "store" /\ cardcode' = cardcode
      BY <1>1, <2>1 DEF Start, Checked, Goto, TypeOK
    <3>3. QED
      BY <3>1, <3>2
  <2>2. CASE UNCHANGED <<pc, req>>
    BY <1>1, <2>2 DEF Start
  <2>3. QED
    BY <1>1, <2>1, <2>2 DEF Start, TakeLock
<1>2. ASSUME NEW r \in Reqs, Read(r) PROVE StoresFirst'
  BY <1>2 DEF Read, MayRegister, Goto, TypeOK
<1>3. ASSUME NEW r \in Reqs, Store(r) PROVE StoresFirst'
  <2>1. \A q \in Reqs : q # r /\ pc[q] = "store" => req[q].who # req[r].who
    BY <1>3 DEF Store, LocksExclusive, InFlight
  <2>2. \A q \in Reqs : q # r => pc'[q] = pc[q]
    BY <1>3 DEF Store, Goto, TypeOK
  <2>3. pc'[r] # "store" /\ req' = req
    BY <1>3 DEF Store, Goto, TypeOK
  <2>4. \A p \in Players : p # req[r].who => cardcode'[p] = cardcode[p]
    BY <1>3 DEF Store, StoreWrites, TypeOK
  <2>5. QED
    BY <2>1, <2>2, <2>3, <2>4 DEF TypeOK, InFlight
<1>4. ASSUME NEW r \in Reqs, Finish(r) PROVE StoresFirst'
  BY <1>4 DEF Finish, Goto, TypeOK
<1>5. ASSUME NEW p \in Players, Expire(p) PROVE StoresFirst'
  BY <1>5 DEF Expire
<1>6. CASE Crash
  BY <1>6 DEF Crash
<1>7. CASE UNCHANGED vars
  BY <1>7 DEF vars
<1>8. QED
  BY <1>1, <1>2, <1>3, <1>4, <1>5, <1>6, <1>7 DEF Next

LEMMA LockedInv == ASSUME Timely PROVE Spec => [](TypeOK /\ LocksExclusive /\ StoresFirst)
<1>1. Init => LocksExclusive /\ StoresFirst
  BY DEF Init, LocksExclusive, StoresFirst, InFlight
<1>2. TypeOK /\ LocksExclusive /\ StoresFirst /\ [Next]_vars
        => (LocksExclusive /\ StoresFirst)'
  BY ExclusiveStep, FirstStep
<1>3. QED
  BY <1>1, <1>2, TypeCorrect, PTL DEF Spec

-----------------------------------------------------------------------------
(* While no handler outlives its key, a registration never changes.         *)
THEOREM RegistrationPermanent == ASSUME Timely PROVE Spec => Permanent
<1>1. ASSUME TypeOK, StoresFirst, [Next]_vars, NEW p \in Players, cardcode[p] # NoCard
      PROVE  cardcode'[p] = cardcode[p] /\ realnick'[p] = realnick[p]
  <2>1. ASSUME NEW r \in Reqs, Store(r)
        PROVE  cardcode'[p] = cardcode[p] /\ realnick'[p] = realnick[p]
    <3>1. req[r].who # p
      BY <1>1, <2>1 DEF Store, StoresFirst
    <3>2. QED
      BY <1>1, <2>1, <3>1 DEF Store, StoreWrites, TypeOK
  <2>2. QED
    BY <1>1, <2>1 DEF Next, Start, Read, Finish, Expire, Crash, vars
<1>2. TypeOK /\ StoresFirst /\ [Next]_vars
        => [\A p \in Players : cardcode[p] # NoCard => realGet(p)' = realGet(p)]_vars
  BY <1>1 DEF realGet
<1>3. QED
  BY <1>2, LockedInv, PTL DEF Spec, Permanent

(* While no handler outlives its key, the set of numbers in use is exactly  *)
(* the numbers players have.                                                *)
THEOREM NumbersInUse == ASSUME Timely PROVE Spec => []CardsExact
<1>1. Init => CardsExact
  BY DEF Init, CardsExact
<1>2. ASSUME TypeOK, StoresFirst, CardsExact, [Next]_vars PROVE CardsExact'
  <2>1. ASSUME NEW r \in Reqs, StoreWrites(r), pc[r] = "store" PROVE CardsExact'
    <3> DEFINE w == req[r].who c == req[r].card
    <3>1. w \in Players /\ c # NoCard /\ cardcode[w] = NoCard
      BY <1>2, <2>1, ValidCardsAreCards DEF TypeOK, StoresFirst, InFlight
    <3>2. {cardcode'[p] : p \in Players} \ {NoCard}
            = ({cardcode[p] : p \in Players} \ {NoCard}) \cup {c}
      BY <1>2, <2>1, <3>1 DEF StoreWrites, TypeOK
    <3>3. QED
      BY <1>2, <2>1, <3>2 DEF StoreWrites, CardsExact
  <2>2. CASE UNCHANGED <<cards, cardcode>>
    BY <1>2, <2>2 DEF CardsExact
  <2>3. QED
    BY <1>2, <2>1, <2>2 DEF Next, Start, Read, Store, Finish, Expire, Crash, vars
<1>3. QED
  BY <1>1, <1>2, LockedInv, PTL DEF Spec

-----------------------------------------------------------------------------
(* Of a text that no two requests have carried at once, what a request has  *)
(* read is still so when it registers it.                                   *)

CardsOfPlayers == \A p \in Players : cardcode[p] # NoCard => cardcode[p] \in cards

StoresFree == \A r \in Reqs :
    pc[r] = "store" /\ req[r].card \notin raced => req[r].card \notin cards

OneRequestPerCard == \A r, q \in Reqs :
    /\ pc[r] \in {"read", "store"} /\ pc[q] \in {"read", "store"}
    /\ req[r].card = req[q].card /\ req[r].card \notin raced
    => r = q

CleanInv == CardsOfPlayers /\ StoresFree /\ OneRequestPerCard /\ OneOwner

LEMMA CleanStep ==
    ASSUME TypeOK, CleanInv, [Next]_vars PROVE CleanInv'
<1> USE DEF CleanInv, CardsOfPlayers, StoresFree, OneRequestPerCard, OneOwner
<1>1. ASSUME NEW r \in Reqs, NEW p \in Players, NEW c \in Cards, NEW n \in Names,
             Start(r, p, c, n) PROVE CleanInv'
  <2>1. UNCHANGED <<cards, cardcode>> /\ raced \subseteq raced'
    BY <1>1 DEF Start
  <2>2. CASE Checked(r, p, c, n)
    <3>1. \A q \in Reqs : q # r => pc'[q] = pc[q] /\ req'[q] = req[q]
      BY <2>2 DEF Checked, Goto, TypeOK
    <3>2. pc'[r] # "store" /\ (pc'[r] = "read" => req'[r].card = c)
      BY <1>1, <2>2 DEF Start, Checked, Goto, TypeOK
    <3>3. \A q \in Reqs : pc[q] \in {"read", "store"} /\ req[q].card = c => c \in raced'
      BY <1>1 DEF Start, InFlight
    <3>4. QED
      BY <2>1, <3>1, <3>2, <3>3
  <2>3. CASE UNCHANGED <<pc, req>>
    BY <2>1, <2>3
  <2>4. QED
    BY <1>1, <2>2, <2>3 DEF Start, TakeLock
<1>2. ASSUME NEW r \in Reqs, Read(r) PROVE CleanInv'
  BY <1>2 DEF Read, MayRegister, Goto, TypeOK
<1>3. ASSUME NEW r \in Reqs, Store(r) PROVE CleanInv'
  <2> DEFINE w == req[r].who c == req[r].card
  <2>1. pc[r] = "store" /\ pc' = [pc EXCEPT ![r] = "finish"] /\ UNCHANGED <<req, raced>>
    BY <1>3 DEF Store, Goto
  <2>2. CASE StoreWrites(r)
    <3>1. cards' = cards \cup {c} /\ cardcode' = [cardcode EXCEPT ![w] = c]
      BY <2>2 DEF StoreWrites
    <3>2. (c \in raced \/ c \notin cards) /\ w \in Players
      BY <2>1 DEF TypeOK, InFlight
    <3>3. CardsOfPlayers'
      BY <3>1 DEF TypeOK
    <3>4. StoresFree'
      BY <2>1, <3>1 DEF TypeOK
    <3>5. OneRequestPerCard'
      BY <2>1 DEF TypeOK
    <3>6. OneOwner'
      BY <2>1, <3>1, <3>2 DEF TypeOK
    <3>7. QED
      BY <3>3, <3>4, <3>5, <3>6
  <2>3. CASE UNCHANGED <<cards, realnick, cardcode>>
    BY <2>1, <2>3 DEF TypeOK
  <2>4. QED
    BY <1>3, <2>2, <2>3 DEF Store
<1>4. ASSUME NEW r \in Reqs, Finish(r) PROVE CleanInv'
  BY <1>4 DEF Finish, Goto, TypeOK
<1>5. ASSUME NEW p \in Players, Expire(p) PROVE CleanInv'
  BY <1>5 DEF Expire
<1>6. CASE Crash
  BY <1>6 DEF Crash
<1>7. CASE UNCHANGED vars
  BY <1>7 DEF vars
<1>8. QED
  BY <1>1, <1>2, <1>3, <1>4, <1>5, <1>6, <1>7 DEF Next

(* No text is registered for two players unless two requests carried it at  *)
(* once, even if handlers outlive their locks, calls fail and servers die.  *)
THEOREM NumberHasOneOwner == Spec => []OneOwner
<1>1. Init => CleanInv
  BY DEF Init, CleanInv, CardsOfPlayers, StoresFree, OneRequestPerCard, OneOwner
<1>2. TypeOK /\ CleanInv /\ [Next]_vars => CleanInv'
  BY CleanStep
<1>3. CleanInv => OneOwner
  BY DEF CleanInv
<1>4. QED
  BY <1>1, <1>2, <1>3, TypeCorrect, PTL DEF Spec

-----------------------------------------------------------------------------
(* The check of an identity number.                                        *)

LEMMA DigitOfDigit == \A b \in Digits : ToUpper(b) = b /\ Digit(b) = b - 48 /\ Digit(b) \in 0..9
BY DEF Digits, ToUpper, Digit

\* A number of the right length.
Full == [1..18 -> 0..255]

LEMMA FullCards == \A c \in Cards : Len(c) = 18 => c \in Full
<1> SUFFICES ASSUME NEW c \in Cards, Len(c) = 18 PROVE c \in Full
  OBVIOUS
<1>1. c \in Seq(0..255)
  BY RealNameAssumption
<1>2. c \in [1..Len(c) -> 0..255]
  BY <1>1, LenProperties, ZenonT(60)
<1>3. [1..Len(c) -> 0..255] = Full
  BY Len(c) = 18 DEF Full
<1> QED
  BY <1>2, <1>3, Zenon

LEMMA DigitOfByte == \A b \in 0..255 : Digit(b) \in 0..255
BY DEF ToUpper, Digit

LEMMA Coefficients ==
    /\ \A i \in 1..17 : coefficient[i] \in 1..10
    /\ \A i \in 1..16 : coefficient[i] # coefficient[i + 1]
BY DEF coefficient

\* Eleven divides no product of what a digit can change by and a weight.
LEMMA NotDivisible ==
    ASSUME NEW s \in Nat, NEW t \in Nat, NEW k \in (-9)..9, NEW w \in (-10)..10,
           k # 0, w # 0, t = s + k * w
    PROVE  s % 11 # t % 11
<1>1. \A v \in 1..10 : t = s + k * v => s % 11 # t % 11
  OBVIOUS
<1>2. \A v \in 1..10 : t = s - k * v => s % 11 # t % 11
  OBVIOUS
<1> QED
  BY <1>1, <1>2

\* The terms of a sum, and its three parts.
Terms(c) == [i \in 1..17 |-> Digit(c[i]) * coefficient[i]]
Part1(t) == t[1] + t[2] + t[3] + t[4] + t[5] + t[6]
Part2(t) == t[7] + t[8] + t[9] + t[10] + t[11] + t[12]
Part3(t) == t[13] + t[14] + t[15] + t[16] + t[17]

LEMMA PartsTyped ==
    ASSUME NEW t \in [1..17 -> Nat] PROVE Part1(t) \in Nat /\ Part2(t) \in Nat /\ Part3(t) \in Nat
<1>1. Part1(t) \in Nat
  BY DEF Part1
<1>2. Part2(t) \in Nat
  BY DEF Part2
<1>3. Part3(t) \in Nat
  BY DEF Part3
<1> QED
  BY <1>1, <1>2, <1>3

LEMMA TermsTyped ==
    ASSUME NEW c \in Full
    PROVE  /\ Terms(c) \in [1..17 -> Nat]
           /\ Sum(c, coefficient) = Part1(Terms(c)) + Part2(Terms(c)) + Part3(Terms(c))
           /\ Sum(c, coefficient) \in Nat
<1>1. \A i \in 1..17 : Digit(c[i]) * coefficient[i] \in Nat
  <2> TAKE i \in 1..17
  <2>1. c[i] \in 0..255 /\ coefficient[i] \in Nat
    BY Coefficients DEF Full
  <2>2. Digit(c[i]) \in 0..255
    BY <2>1, DigitOfByte, Zenon
  <2> QED
    BY <2>1, <2>2
<1>2. Terms(c) \in [1..17 -> Nat]
  BY <1>1 DEF Terms
<1>3. Sum(c, coefficient) = Part1(Terms(c)) + Part2(Terms(c)) + Part3(Terms(c))
  BY DEF Sum, Terms, Part1, Part2, Part3
<1> QED
  BY <1>2, <1>3, PartsTyped

LEMMA TermsChanged ==
    ASSUME NEW t \in [1..17 -> Nat], NEW u \in [1..17 -> Nat], NEW j \in 1..17,
           \A i \in 1..17 : i # j => u[i] = t[i]
    PROVE  Part1(u) + Part2(u) + Part3(u) = Part1(t) + Part2(t) + Part3(t) + (u[j] - t[j])
<1>1. IF j \in 1..6 THEN Part1(u) = Part1(t) + (u[j] - t[j]) ELSE Part1(u) = Part1(t)
  BY DEF Part1
<1>2. IF j \in 7..12 THEN Part2(u) = Part2(t) + (u[j] - t[j]) ELSE Part2(u) = Part2(t)
  BY DEF Part2
<1>3. IF j \in 13..17 THEN Part3(u) = Part3(t) + (u[j] - t[j]) ELSE Part3(u) = Part3(t)
  BY DEF Part3
<1>4. j \in 1..6 \/ j \in 7..12 \/ j \in 13..17
  OBVIOUS
<1>5. u[j] \in Nat /\ t[j] \in Nat
  OBVIOUS
<1> QED
  BY <1>1, <1>2, <1>3, <1>4, <1>5, PartsTyped

\* When one digit changes, the sum changes by a multiple of its weight.
LEMMA SumChanged ==
    ASSUME NEW c \in Full, NEW d \in Full, NEW j \in 1..17,
           \A i \in 1..17 : i # j => d[i] = c[i]
    PROVE  Sum(d, coefficient)
             = Sum(c, coefficient) + (Digit(d[j]) - Digit(c[j])) * coefficient[j]
<1> DEFINE t == Terms(c)
           u == Terms(d)
<1>1. t \in [1..17 -> Nat] /\ u \in [1..17 -> Nat]
  BY TermsTyped
<1>2. \A i \in 1..17 : i # j => u[i] = t[i]
  BY DEF Terms
<1>3. u[j] - t[j] = (Digit(d[j]) - Digit(c[j])) * coefficient[j]
  <2>1. d[j] \in 0..255 /\ c[j] \in 0..255 /\ coefficient[j] \in Int
    BY Coefficients DEF Full
  <2>2. Digit(d[j]) \in 0..255 /\ Digit(c[j]) \in 0..255
    BY <2>1, DigitOfByte, Zenon
  <2>3. u[j] = Digit(d[j]) * coefficient[j] /\ t[j] = Digit(c[j]) * coefficient[j]
    BY DEF Terms
  <2>4. \A v, w, k \in Int : v * k - w * k = (v - w) * k
    OBVIOUS
  <2>5. Digit(d[j]) \in Int /\ Digit(c[j]) \in Int
    BY <2>2
  <2>6. Digit(d[j]) * coefficient[j] - Digit(c[j]) * coefficient[j]
          = (Digit(d[j]) - Digit(c[j])) * coefficient[j]
    BY <2>1, <2>4, <2>5, Zenon
  <2> QED
    BY <2>3, <2>6, Zenon
<1>4. Sum(d, coefficient) = Sum(c, coefficient) + (u[j] - t[j])
  BY <1>1, <1>2, TermsChanged, TermsTyped
<1> QED
  BY <1>3, <1>4

\* The check character is the one that makes a number legal, and the remainder
\* is known from it.
LEMMA CheckCharacter ==
    /\ \A m, k \in 0..10 : (m + k) % 11 = 1 => code[m + 1] = IF k = 10 THEN X ELSE k + 48
    /\ \A m, k \in 0..10 : code[m + 1] = code[k + 1] => m = k
BY DEF code, X

(* A legal number is not refused.                                           *)
LEMMA LegalPasses ==
    ASSUME NEW c \in Cards, Legal(c)
    PROVE  c \in Full /\ checkCardCodeValid(c) /\ CheckDigit(c, coefficient) = ToUpper(c[18])
<1> DEFINE s == Sum(c, coefficient)
           u == ToUpper(c[18])
           k == IF u = X THEN 10 ELSE Digit(c[18])
<1>1. Len(c) = 18 /\ u \in Digits \cup {X} /\ (s + k) % 11 = 1
  BY DEF Legal
<1>2. c \in Full
  BY <1>1, FullCards
<1>3. s \in Nat
  BY <1>2, TermsTyped
<1>4. Digit(c[18]) = (u - 48) % 256
  BY DEF Digit
<1>5. k \in 0..10 /\ u = IF k = 10 THEN X ELSE k + 48
  BY <1>1, <1>4 DEF Digits, X
<1> HIDE DEF s, u, k
<1>6. s % 11 \in 0..10 /\ ((s % 11) + k) % 11 = 1
  BY <1>1, <1>3, <1>5
<1>7. code[(s % 11) + 1] = u
  BY <1>5, <1>6, CheckCharacter
<1> QED
  BY <1>1, <1>2, <1>7 DEF CheckDigit, checkCardCodeValid, s, u

\* Two numbers that pass and end alike have sums that are alike.
LEMMA SameRemainder ==
    ASSUME NEW c \in Full, NEW d \in Full, c[18] = d[18],
           CheckDigit(c, coefficient) = ToUpper(c[18]), CheckDigit(d, coefficient) = ToUpper(d[18])
    PROVE  Sum(c, coefficient) % 11 = Sum(d, coefficient) % 11
<1>1. code[(Sum(c, coefficient) % 11) + 1] = code[(Sum(d, coefficient) % 11) + 1]
  BY DEF CheckDigit
<1>2. Sum(c, coefficient) \in Nat /\ Sum(d, coefficient) \in Nat
  BY TermsTyped
<1>3. Sum(c, coefficient) % 11 \in 0..10 /\ Sum(d, coefficient) % 11 \in 0..10
  BY <1>2
<1> QED
  BY <1>1, <1>3, CheckCharacter

LEMMA MistypedFails ==
    ASSUME NEW c \in Cards, NEW d \in ValidCards, Legal(c), Mistyped(c, d) PROVE FALSE
<1>1. /\ c \in Full /\ d \in Full
      /\ CheckDigit(c, coefficient) = ToUpper(c[18]) /\ CheckDigit(d, coefficient) = ToUpper(d[18])
  BY LegalPasses, ValidCardsAreCards, FullCards DEF ValidCards, checkCardCodeValid
<1>2. PICK i \in 1..18 : /\ d = [c EXCEPT ![i] = d[i]]
                          /\ IF i = 18 THEN ToUpper(d[i]) # ToUpper(c[i])
                                       ELSE d[i] \in Digits \ {c[i]}
  BY DEF Mistyped
<1>3. \A k \in 1..18 : k # i => d[k] = c[k]
  BY <1>1, <1>2 DEF Full
<1>4. CASE i = 18
  <2>1. Sum(c, coefficient) = Sum(d, coefficient)
    BY <1>3, <1>4 DEF Sum
  <2> QED
    BY <1>1, <1>2, <1>4, <2>1 DEF CheckDigit
<1>5. CASE i \in 1..17
  <2> DEFINE k == Digit(d[i]) - Digit(c[i])
  <2>1. c[i] \in Digits /\ d[i] \in Digits /\ c[i] # d[i]
    BY <1>2, <1>5 DEF Legal
  <2>2. k \in (-9)..9 /\ k # 0
    BY <2>1, DigitOfDigit DEF Digits
  <2>3. Sum(d, coefficient) = Sum(c, coefficient) + k * coefficient[i]
    BY <1>1, <1>3, <1>5, SumChanged
  <2>4. Sum(d, coefficient) % 11 = Sum(c, coefficient) % 11
    BY <1>1, <1>3, <1>5, SameRemainder
  <2>5. coefficient[i] \in (-10)..10 /\ coefficient[i] # 0
    BY <1>5, Coefficients
  <2> HIDE DEF k
  <2> QED
    BY <1>1, <2>2, <2>3, <2>4, <2>5, TermsTyped, NotDivisible
<1> QED
  BY <1>4, <1>5

LEMMA SwappedFails ==
    ASSUME NEW c \in Cards, NEW d \in ValidCards, Legal(c), Swapped(c, d) PROVE FALSE
<1>1. /\ c \in Full /\ d \in Full
      /\ CheckDigit(c, coefficient) = ToUpper(c[18]) /\ CheckDigit(d, coefficient) = ToUpper(d[18])
  BY LegalPasses, ValidCardsAreCards, FullCards DEF ValidCards, checkCardCodeValid
<1>2. PICK i \in 1..16 : /\ c[i] # c[i + 1]
                          /\ d = [c EXCEPT ![i] = c[i + 1], ![i + 1] = c[i]]
  BY DEF Swapped
<1> DEFINE e == [c EXCEPT ![i] = c[i + 1]]
           k == Digit(c[i + 1]) - Digit(c[i])
           w == coefficient[i] - coefficient[i + 1]
<1>3. i \in 1..18 /\ i + 1 \in 1..18 /\ i \in 1..17 /\ i + 1 \in 1..17
  OBVIOUS
<1>4. /\ e \in Full /\ e[i] = c[i + 1] /\ e[i + 1] = c[i + 1]
      /\ d[i] = c[i + 1] /\ d[i + 1] = c[i]
      /\ \A n \in 1..18 : n # i => e[n] = c[n]
      /\ \A n \in 1..18 : n # i + 1 => d[n] = e[n]
  BY <1>1, <1>2, <1>3 DEF Full
<1> HIDE DEF e
<1>5. Sum(e, coefficient) = Sum(c, coefficient) + k * coefficient[i]
  <2>1. \A n \in 1..17 : n # i => e[n] = c[n]
    BY <1>4
  <2>2. Sum(e, coefficient)
          = Sum(c, coefficient) + (Digit(e[i]) - Digit(c[i])) * coefficient[i]
    BY <1>1, <1>3, <1>4, <2>1, SumChanged, Zenon
  <2> QED
    BY <1>4, <2>2
<1>6. Sum(d, coefficient)
        = Sum(e, coefficient) + (Digit(c[i]) - Digit(c[i + 1])) * coefficient[i + 1]
  <2>1. \A n \in 1..17 : n # i + 1 => d[n] = e[n]
    BY <1>4
  <2>2. Sum(d, coefficient)
          = Sum(e, coefficient) + (Digit(d[i + 1]) - Digit(e[i + 1])) * coefficient[i + 1]
    BY <1>1, <1>3, <1>4, <2>1, SumChanged, Zenon
  <2> QED
    BY <1>4, <2>2
<1>7. c[i] \in Digits /\ c[i + 1] \in Digits
  BY <1>3 DEF Legal
<1>8. k \in (-9)..9 /\ k # 0 /\ Digit(c[i]) - Digit(c[i + 1]) = -k
  BY <1>2, <1>7, DigitOfDigit DEF Digits
<1>9. w \in (-10)..10 /\ w # 0 /\ coefficient[i] \in Int /\ coefficient[i + 1] \in Int
  <2>1. coefficient[i] \in 1..10 /\ coefficient[i + 1] \in 1..10
    BY <1>3, Coefficients, Zenon
  <2>2. coefficient[i] # coefficient[i + 1]
    BY Coefficients
  <2> QED
    BY <2>1, <2>2
<1>10. Sum(c, coefficient) \in Nat /\ Sum(d, coefficient) \in Nat /\ Sum(e, coefficient) \in Nat
  BY <1>1, <1>4, TermsTyped
<1>11. Sum(d, coefficient) = Sum(c, coefficient) + k * w
  <2>1. \A s, v, x, y \in Int : (s + v * x) + (-v) * y = s + v * (x - y)
    OBVIOUS
  <2>2. k \in Int /\ Sum(c, coefficient) \in Int
    BY <1>8, <1>10
  <2>3. Sum(d, coefficient) = (Sum(c, coefficient) + k * coefficient[i]) + (-k) * coefficient[i + 1]
    BY <1>5, <1>6, <1>8, Zenon
  <2> QED
    BY <1>9, <2>1, <2>2, <2>3, ZenonT(60)
<1>12. Sum(d, coefficient) % 11 = Sum(c, coefficient) % 11
  BY <1>1, <1>3, <1>4, SameRemainder
<1> HIDE DEF k, w, e
<1>13. Sum(c, coefficient) % 11 # Sum(d, coefficient) % 11
  BY <1>8, <1>9, <1>10, <1>11, NotDivisible, Zenon
<1> QED
  BY <1>12, <1>13, Zenon

(* No legal number with a character mistyped or two neighbours swapped is    *)
(* ever registered: a digit's change times a weight, or times the difference *)
(* of two neighbouring weights, is no multiple of eleven.                   *)
THEOREM OnlyGenuine == Spec => []GenuineOnly
<1> DEFINE Passed == \A p \in Players : cardcode[p] # NoCard => cardcode[p] \in ValidCards
<1>2. Init => Passed
  BY DEF Init
<1>3. TypeOK /\ Passed /\ [Next]_vars => Passed'
  BY DEF TypeOK, Next, vars, Start, Read, Store, StoreWrites, Finish, Expire, Crash
<1>4. Passed => GenuineOnly
  BY MistypedFails, SwappedFails DEF GenuineOnly
<1> QED
  BY <1>2, <1>3, <1>4, TypeCorrect, PTL DEF Spec
=============================================================================
