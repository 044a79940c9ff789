-------------------------- MODULE Divination_proofs --------------------------
(* Theorems about Divination, for every number of requests, players, days    *)
(* and places of the ranking.                                               *)
EXTENDS Divination, FiniteSetTheorems, SequenceTheorems, TLAPS

Pages == Seq([player : Players \cup {Nobody}, num : Nat])

\* The ranking that is shown is a list of players and numbers of posts.
LEMMA PagesAreLists ==
    ASSUME rank \in [Players -> Nat], NEW s \in ZRange(RankLen),
           NEW first \in BOOLEAN, NEW bonus \in Bonus
    PROVE  RankPage(s, first, bonus) \in Pages
<1> DEFINE S == {p \in Players : rank[p] > 0}
           k == IF Cardinality(S) < RankLen THEN Cardinality(S) ELSE RankLen
           Item == [player : Players \cup {Nobody}, num : Nat]
           places == [i \in DOMAIN s |-> Place(s[i])]
           faker == [player |-> Nobody, num |-> IF s = <<>> THEN 0 ELSE rank[s[1]] + bonus]
           all == IF first THEN <<faker>> \o places ELSE places
<1>1. Cardinality(S) \in Nat
  BY FS_Subset, FS_CardinalityType, DivinationAssumption
<1>2. k \in Nat /\ s \in [1..k -> S]
  BY <1>1, DivinationAssumption DEF ZRange
<1> HIDE DEF k
<1>3. places \in Seq(Item)
  <2>1. \A i \in 1..k : Place(s[i]) \in Item
    BY <1>2 DEF Place
  <2>2. places \in [1..k -> Item]
    BY <1>2, <2>1
  <2> QED
    BY <1>2, <2>2, SeqDef
<1>4. faker \in Item
  <2>1. CASE s = <<>>
    BY <2>1
  <2>2. CASE s # <<>>
    <3>1. k # 0
      <4>1. s \in Seq(S) /\ Len(s) = k
        <5>1. s \in Seq(S)
          BY <1>2, SeqDef
        <5>2. DOMAIN s = 1..k /\ DOMAIN s = 1..Len(s) /\ Len(s) \in Nat
          BY <5>1, <1>2, LenProperties
        <5> QED
          BY <5>1, <5>2, <1>2
      <4> QED
        BY <2>2, <4>1, EmptySeq
    <3>2. rank[s[1]] \in Nat
      BY <1>2, <3>1
    <3> QED
      BY <3>2, DivinationAssumption
  <2> QED
    BY <2>1, <2>2
<1> HIDE DEF places, faker
<1>5. all \in Seq(Item)
  <2>1. <<faker>> \in Seq(Item)
    BY <1>4
  <2>2. <<faker>> \o places \in Seq(Item)
    BY <1>3, <2>1, ConcatProperties
  <2> QED
    BY <1>3, <2>2
<1>6. Len(all) \in Nat /\ \A i \in 1..Len(all) : all[i] \in Item
  BY <1>5, LenProperties, ElementOfSeq
<1> DEFINE m == IF Len(all) < RankLen THEN Len(all) ELSE RankLen
<1>7. m \in 0..Len(all)
  BY <1>6, DivinationAssumption
<1>8. SubSeq(all, 1, m) \in Seq(Item)
  BY <1>5, <1>6, <1>7, SubSeqProperties
<1> QED
  BY <1>8 DEF RankPage, Pages, places, faker

-----------------------------------------------------------------------------
\* A post that is about to be stored has an id.
HasID == \A r \in Reqs : pc[r] = "store" => pick[r] # 0

\* TypeOK in three parts.
KeysOK ==
    /\ id \in Nat /\ rank \in [Players -> Nat] /\ mixed \in BOOLEAN
    /\ idUntil \in Days \cup {NoTTL} /\ rankUntil \in Days \cup {NoTTL}

PostsOK ==
    /\ DOMAIN posts = Days /\ \A d \in Days : posts[d] \in [DOMAIN posts[d] -> Reqs]
    /\ record \in [Days -> SUBSET (Nat \ {0})]
    /\ stored \subseteq Reqs

ReqsOK ==
    /\ pc \in [Reqs -> {"new", "read", "store", "draw", "done", "notfound"}]
    /\ who \in [Reqs -> Players \cup {Nobody}]
    /\ day \in [Reqs -> Days] /\ pick \in [Reqs -> Nat] /\ today \in Days
    /\ raced \subseteq Reqs /\ straddled \subseteq Days

PagesOK == page \in [Reqs -> Pages]

TypeInv == KeysOK /\ PostsOK /\ ReqsOK /\ PagesOK /\ HasID

\* Counting a post of a player, or of nobody.
LEMMA Counted ==
    ASSUME NEW f \in [Players -> Nat], NEW p \in Players \cup {Nobody}
    PROVE  /\ [f EXCEPT ![p] = @ + 1] \in [Players -> Nat]
           /\ \A q \in Players : [f EXCEPT ![p] = @ + 1][q] = IF q = p THEN f[q] + 1 ELSE f[q]
<1> DEFINE g == [f EXCEPT ![p] = @ + 1]
<1>1. DOMAIN g = Players
  OBVIOUS
<1>2. \A q \in Players : g[q] = IF q = p THEN f[q] + 1 ELSE f[q]
  OBVIOUS
<1>3. \A q \in Players : g[q] \in Nat
  BY <1>2
<1>4. g = [q \in Players |-> g[q]]
  BY <1>1
<1> QED
  BY <1>2, <1>3, <1>4

THEOREM TypeInit == Init => TypeInv
<1> SUFFICES ASSUME Init PROVE TypeInv
  OBVIOUS
<1> USE DivinationAssumption DEF Init
<1>1. KeysOK
  BY DEF KeysOK, Zero
<1>2. PostsOK
  BY DEF PostsOK, Days
<1>3. ReqsOK
  BY DEF ReqsOK, Days, Zero
<1>4. PagesOK
  <2>1. <<>> \in Pages
    BY EmptySeq DEF Pages
  <2> QED
    BY <2>1 DEF PagesOK
<1> QED
  BY <1>1, <1>2, <1>3, <1>4 DEF TypeInv, HasID

THEOREM TypeStep == TypeInv /\ [Next]_vars => TypeInv'
<1> SUFFICES ASSUME TypeInv, [Next]_vars PROVE TypeInv'
  OBVIOUS
<1> USE DivinationAssumption DEF TypeInv
<1>1. ASSUME NEW r \in Reqs, NEW p \in Players, PublicStart(r, p) PROVE TypeInv'
  BY <1>1 DEF PublicStart, Arrive, Goto, Publishing, keys, KeysOK, PostsOK, ReqsOK, PagesOK, HasID
<1>2. ASSUME NEW r \in Reqs, NEW p \in Players, GetStart(r, p) PROVE TypeInv'
  <2>1. record[today] \subseteq Nat
    BY DEF PostsOK, ReqsOK
  <2> QED
    BY <1>2, <2>1 DEF GetStart, Arrive, Goto, keys, KeysOK, PostsOK, ReqsOK, PagesOK, HasID
<1>3. ASSUME NEW r \in Reqs, PublicRead(r) PROVE TypeInv'
  <2>1. KeysOK' /\ PostsOK' /\ PagesOK'
    BY <1>3 DEF PublicRead, keys, ghost, KeysOK, PostsOK, PagesOK
  <2>2. NextID \in Nat \ {0}
    BY DEF NextID, KeysOK
  <2>3. ReqsOK' /\ HasID'
    BY <1>3, <2>2 DEF PublicRead, Goto, ghost, ReqsOK, HasID
  <2> QED
    BY <2>1, <2>3
<1>4. ASSUME NEW r \in Reqs, PublicStore(r) PROVE TypeInv'
  <2>1. pick[r] \in Nat \ {0} /\ day[r] \in Days
    BY <1>4 DEF PublicStore, ReqsOK, HasID
  <2>2. ReqsOK' /\ PagesOK' /\ HasID'
    BY <1>4 DEF PublicStore, Goto, ReqsOK, PagesOK, HasID
  <2>3. CASE PublicWrites(r)
    <3>1. id' \in Nat /\ idUntil' \in Days /\ rankUntil' \in Days
      <4>1. Until(r) \subseteq Days
        BY <2>1 DEF Until, Days, ReqsOK
      <4> QED
        BY <2>1, <2>3, <4>1 DEF PublicWrites, SetID, SetRank
    <3>2. rank' \in [Players -> Nat]
      BY <2>3, Counted DEF PublicWrites, SetRank, KeysOK, ReqsOK
    <3>3. mixed' \in BOOLEAN
      BY <2>3 DEF PublicWrites
    <3>4. record' \in [Days -> SUBSET (Nat \ {0})]
      BY <2>1, <2>3 DEF PublicWrites, Record, PostsOK
    <3>5. DOMAIN posts' = Days /\ \A d \in Days : posts'[d] \in [DOMAIN posts'[d] -> Reqs]
      BY <2>1, <2>3 DEF PublicWrites, Put, PostsOK
    <3>6. stored' \subseteq Reqs
      BY <2>3 DEF PublicWrites, PostsOK
    <3> QED
      BY <2>2, <3>1, <3>2, <3>3, <3>4, <3>5, <3>6 DEF KeysOK, PostsOK
  <2>4. CASE UNCHANGED <<keys, stored, mixed>>
    BY <2>2, <2>4 DEF keys, KeysOK, PostsOK
  <2> QED
    BY <1>4, <2>3, <2>4 DEF PublicStore
<1>5. ASSUME NEW r \in Reqs, GetRead(r) PROVE TypeInv'
  BY <1>5 DEF GetRead, Goto, keys, ghost, KeysOK, PostsOK, ReqsOK, PagesOK, HasID
<1>6. ASSUME NEW r \in Reqs, RankStart(r) PROVE TypeInv'
  <2>1. PagesOK'
    <3>1. \A s \in ZRange(RankLen), first \in BOOLEAN, bonus \in Bonus :
            RankPage(s, first, bonus) \in Pages
      BY PagesAreLists DEF KeysOK
    <3> QED
      BY <1>6, <3>1 DEF RankStart, PagesOK
  <2> QED
    BY <1>6, <2>1 DEF RankStart, Goto, keys, ghost, KeysOK, PostsOK, ReqsOK, HasID
<1>7. CASE NextDay
  <2>1. ReqsOK'
    <3>1. today' \in Days
      BY <1>7 DEF NextDay, Days, ReqsOK
    <3>2. straddled' \subseteq Days
      BY <1>7 DEF NextDay, ReqsOK
    <3> QED
      BY <1>7, <3>1, <3>2 DEF NextDay, reqs, ReqsOK
  <2> QED
    BY <1>7, <2>1 DEF NextDay, keys, reqs, KeysOK, PostsOK, PagesOK, HasID
<1>8. CASE Crash
  BY <1>8 DEF Crash, keys, ghost, KeysOK, PostsOK, ReqsOK, PagesOK, HasID
<1>9. CASE UNCHANGED vars
  BY <1>9 DEF vars, keys, reqs, ghost, KeysOK, PostsOK, ReqsOK, PagesOK, HasID
<1>10. CASE IDExpires
  BY <1>10 DEF IDExpires, reqs, ghost, KeysOK, PostsOK, ReqsOK, PagesOK, HasID
<1>11. CASE RankExpires
  BY <1>11 DEF RankExpires, Zero, reqs, KeysOK, PostsOK, ReqsOK, PagesOK, HasID
<1> QED
  BY <1>1, <1>2, <1>3, <1>4, <1>5, <1>6, <1>7, <1>8, <1>9, <1>10, <1>11 DEF Next

(* The state of Divination has the types its comments give it.              *)
THEOREM TypeCorrect == Spec => []TypeOK
<1>1. TypeInv => TypeOK
  BY DEF TypeInv, TypeOK, KeysOK, PostsOK, ReqsOK, PagesOK, Pages
<1> QED
  BY <1>1, TypeInit, TypeStep, PTL DEF Spec

-----------------------------------------------------------------------------
\* There is a post at every id of a day's record, and the id that was drawn
\* is still in the record it was drawn from: nothing is ever taken out.
Posted == \A d \in Days : record[d] \subseteq DOMAIN posts[d]
Drawn == \A r \in Reqs : pc[r] = "draw" => pick[r] \in record[day[r]]

DrawInv == TypeInv /\ Posted /\ Drawn /\ DrawnIsFound

\* A step that leaves the posts and the records alone.
LEMMA PostsStay ==
    ASSUME DrawInv, UNCHANGED <<posts, record>>,
           \A r \in Reqs : \/ pc'[r] \notin {"draw", "notfound"}
                           \/ pc'[r] = pc[r] /\ pick'[r] = pick[r] /\ day'[r] = day[r]
    PROVE  Posted' /\ Drawn' /\ DrawnIsFound'
BY DEF DrawInv, Posted, Drawn, DrawnIsFound

THEOREM DrawStep == DrawInv /\ [Next]_vars => DrawInv'
<1> SUFFICES ASSUME DrawInv, [Next]_vars PROVE Posted' /\ Drawn' /\ DrawnIsFound'
  BY TypeStep DEF DrawInv
<1> USE DEF Goto
<1>0. KeysOK /\ PostsOK /\ ReqsOK
  BY DEF DrawInv, TypeInv
<1>1. ASSUME NEW r \in Reqs, NEW p \in Players, PublicStart(r, p)
      PROVE  Posted' /\ Drawn' /\ DrawnIsFound'
  <2>1. \A q \in Reqs : \/ pc'[q] \notin {"draw", "notfound"}
                        \/ pc'[q] = pc[q] /\ pick'[q] = pick[q] /\ day'[q] = day[q]
    <3>1. pc'[r] = "read"
      BY <1>0, <1>1 DEF PublicStart, Arrive, ReqsOK
    <3>2. \A q \in Reqs \ {r} : pc'[q] = pc[q] /\ pick'[q] = pick[q] /\ day'[q] = day[q]
      BY <1>0, <1>1 DEF PublicStart, Arrive, ReqsOK
    <3> QED
      BY <3>1, <3>2
  <2> QED
    BY <1>1, <2>1, PostsStay DEF PublicStart, Arrive, keys
<1>2. ASSUME NEW r \in Reqs, NEW p \in Players, GetStart(r, p)
      PROVE  Posted' /\ Drawn' /\ DrawnIsFound'
  <2>1. UNCHANGED <<posts, record>>
    BY <1>2 DEF GetStart, Arrive, keys
  <2>2. \A q \in Reqs \ {r} : pc'[q] = pc[q] /\ pick'[q] = pick[q] /\ day'[q] = day[q]
    BY <1>0, <1>2 DEF GetStart, Arrive, ReqsOK
  <2>3. pc'[r] # "notfound" /\ (pc'[r] = "draw" => pick'[r] \in record[day'[r]])
    <3>1. day'[r] = today
      BY <1>0, <1>2 DEF GetStart, Arrive, ReqsOK
    <3>2. CASE record[today] = {}
      BY <1>0, <1>2, <3>2 DEF GetStart, Arrive, ReqsOK
    <3>3. CASE record[today] # {}
      <4>1. pc'[r] = "draw" /\ pick'[r] \in record[today]
        BY <1>0, <1>2, <3>3 DEF GetStart, Arrive, ReqsOK
      <4> QED
        BY <3>1, <4>1
    <3> QED
      BY <3>2, <3>3
  <2>4. \A q \in Reqs : pc'[q] # "notfound" /\ (pc'[q] = "draw" => pick'[q] \in record[day'[q]])
    BY <2>2, <2>3 DEF DrawInv, Drawn, DrawnIsFound
  <2> QED
    BY <2>1, <2>4 DEF DrawInv, Posted, Drawn, DrawnIsFound
<1>3. ASSUME NEW r \in Reqs, PublicRead(r) PROVE Posted' /\ Drawn' /\ DrawnIsFound'
  <2>1. \A q \in Reqs : \/ pc'[q] \notin {"draw", "notfound"}
                        \/ pc'[q] = pc[q] /\ pick'[q] = pick[q] /\ day'[q] = day[q]
    <3>1. pc'[r] \in {"store", "done"}
      BY <1>0, <1>3 DEF PublicRead, ReqsOK
    <3>2. \A q \in Reqs \ {r} : pc'[q] = pc[q] /\ pick'[q] = pick[q] /\ day'[q] = day[q]
      BY <1>0, <1>3 DEF PublicRead, ReqsOK
    <3> QED
      BY <3>1, <3>2
  <2> QED
    BY <1>3, <2>1, PostsStay DEF PublicRead, keys
<1>4. ASSUME NEW r \in Reqs, PublicStore(r) PROVE Posted' /\ Drawn' /\ DrawnIsFound'
  <2>1. pc'[r] = "done" /\ UNCHANGED <<pick, day>> /\ \A q \in Reqs \ {r} : pc'[q] = pc[q]
    BY <1>0, <1>4 DEF PublicStore, ReqsOK
  <2>2. CASE PublicWrites(r)
    <3>1. day[r] \in Days
      BY <1>0 DEF ReqsOK
    <3>2. /\ record' = [record EXCEPT ![day[r]] = @ \cup {pick[r]}]
          /\ posts' = [posts EXCEPT ![day[r]] = Put(@, pick[r], r)]
      BY <2>2 DEF PublicWrites, Record
    <3>3. \A d \in Days : record[d] \subseteq record'[d]
      BY <1>0, <3>1, <3>2 DEF PostsOK
    <3>4. DOMAIN Put(posts[day[r]], pick[r], r) = DOMAIN posts[day[r]] \cup {pick[r]}
      BY DEF Put
    <3>5. \A d \in Days : record'[d] \subseteq DOMAIN posts'[d]
      BY <1>0, <3>1, <3>2, <3>4 DEF PostsOK, DrawInv, Posted
    <3>6. \A q \in Reqs : pc'[q] # "notfound" /\ (pc'[q] = "draw" => pick'[q] \in record'[day'[q]])
      BY <1>0, <2>1, <3>3 DEF DrawInv, Drawn, DrawnIsFound, ReqsOK
    <3> QED
      BY <3>5, <3>6 DEF Posted, Drawn, DrawnIsFound
  <2>3. CASE UNCHANGED <<keys, stored, mixed>>
    BY <2>1, <2>3, PostsStay DEF keys
  <2> QED
    BY <1>4, <2>2, <2>3 DEF PublicStore
<1>5. ASSUME NEW r \in Reqs, GetRead(r) PROVE Posted' /\ Drawn' /\ DrawnIsFound'
  <2>1. pick[r] \in DOMAIN posts[day[r]]
    BY <1>0, <1>5 DEF GetRead, DrawInv, Posted, Drawn, ReqsOK
  <2>2. \A q \in Reqs : \/ pc'[q] \notin {"draw", "notfound"}
                        \/ pc'[q] = pc[q] /\ pick'[q] = pick[q] /\ day'[q] = day[q]
    BY <1>0, <1>5, <2>1 DEF GetRead, ReqsOK
  <2> QED
    BY <1>5, <2>2, PostsStay DEF GetRead, keys
<1>6. ASSUME NEW r \in Reqs, RankStart(r) PROVE Posted' /\ Drawn' /\ DrawnIsFound'
  <2>1. \A q \in Reqs : \/ pc'[q] \notin {"draw", "notfound"}
                        \/ pc'[q] = pc[q] /\ pick'[q] = pick[q] /\ day'[q] = day[q]
    BY <1>0, <1>6 DEF RankStart, ReqsOK
  <2> QED
    BY <1>6, <2>1, PostsStay DEF RankStart, keys
<1>7. CASE NextDay \/ IDExpires \/ RankExpires
  BY <1>7, PostsStay DEF NextDay, IDExpires, RankExpires, keys, reqs
<1>8. CASE Crash
  <2>1. \A q \in Reqs : \/ pc'[q] \notin {"draw", "notfound"}
                        \/ pc'[q] = pc[q] /\ pick'[q] = pick[q] /\ day'[q] = day[q]
    BY <1>0, <1>8 DEF Crash, ReqsOK
  <2> QED
    BY <1>8, <2>1, PostsStay DEF Crash, keys
<1>9. CASE UNCHANGED vars
  BY <1>9, PostsStay DEF vars, keys, reqs
<1> QED
  BY <1>1, <1>2, <1>3, <1>4, <1>5, <1>6, <1>7, <1>8, <1>9 DEF Next

(* A drawn post is found: publishing stores a post and its id in the record   *)
(* at once and under one date, and divinationGetHandle reads the post of the *)
(* date it drew from.                                                       *)
THEOREM DrawsAreFound == Spec => []DrawnIsFound
<1>1. Init => DrawInv
  BY TypeInit DEF Init, DrawInv, Posted, Drawn, DrawnIsFound
<1>2. DrawInv => DrawnIsFound
  BY DEF DrawInv
<1> QED
  BY <1>1, <1>2, DrawStep, PTL DEF Spec

-----------------------------------------------------------------------------
\* The ranking is empty while its key has no time to live, and no key outlives
\* the end of a day to come.
Timed ==
    /\ rankUntil = NoTTL => \A p \in Players : rank[p] = 0
    /\ rankUntil <= today

\* A post is stored once, and there are finitely many.
Finite == IsFiniteSet(stored) /\ \A r \in stored : pc[r] = "done"

RankInv == TypeInv /\ Timed /\ Finite /\ RankIsTodays

LEMMA PostsCounted ==
    ASSUME Finite, NEW p PROVE IsFiniteSet(TodaysPosts(p)) /\ Cardinality(TodaysPosts(p)) \in Nat
BY FS_Subset, FS_CardinalityType DEF Finite, TodaysPosts

\* A step that leaves the ranking and the posts alone.
LEMMA RankAside ==
    ASSUME RankInv, UNCHANGED <<rank, rankUntil, today, stored, mixed>>,
           \A r \in Reqs : pc[r] = "done" =>
               pc'[r] = "done" /\ who'[r] = who[r] /\ day'[r] = day[r]
    PROVE  Timed' /\ Finite' /\ RankIsTodays'
<1>1. \A r \in stored : r \in Reqs /\ pc[r] = "done"
  BY DEF RankInv, TypeInv, PostsOK, Finite
<1>2. \A p : TodaysPosts(p)' = TodaysPosts(p)
  BY <1>1 DEF TodaysPosts
<1>3. RankIsTodays'
  BY <1>2 DEF RankInv, RankIsTodays, Overdue
<1>4. Timed' /\ Finite'
  BY <1>1 DEF RankInv, Timed, Finite
<1> QED
  BY <1>3, <1>4

\* A post is counted into the ranking of its day, or the ranking is mixed.
LEMMA RankStore ==
    ASSUME RankInv, NEW r \in Reqs, PublicStore(r), PublicWrites(r)
    PROVE  Timed' /\ Finite' /\ RankIsTodays'
<1>0. KeysOK /\ ReqsOK /\ PostsOK
  BY DEF RankInv, TypeInv
<1>1. /\ pc[r] = "store" /\ pc'[r] = "done" /\ \A q \in Reqs : q # r => pc'[q] = pc[q]
      /\ UNCHANGED <<who, day, today>>
  BY <1>0 DEF PublicStore, Goto, ReqsOK
<1>2. stored' = stored \cup {r} /\ r \notin stored /\ stored \subseteq Reqs
  BY <1>0, <1>1 DEF PublicWrites, RankInv, Finite, PostsOK
<1>3. Finite'
  BY <1>1, <1>2, FS_AddElement DEF RankInv, Finite
<1>4. day[r] \in Nat /\ today \in Nat /\ rankUntil' \in day[r]..today
  BY <1>0 DEF PublicWrites, SetRank, Until, ReqsOK, Days
<1>5. Timed'
  BY <1>1, <1>4 DEF Timed, NoTTL
<1>6. ASSUME ~Overdue(rankUntil)', ~mixed', NEW p \in Players
      PROVE  rank'[p] <= Cardinality(TodaysPosts(p)')
  <2>1. ~mixed /\ ~(day[r] < today) /\ ~Overdue(rankUntil)
    BY <1>6 DEF PublicWrites
  <2>2. day[r] = today
    <3>1. day[r] <= today
      BY <1>4
    <3> QED
      BY <1>4, <2>1, <3>1
  <2>3. rank[p] <= Cardinality(TodaysPosts(p)) /\ rank[p] \in Nat
    BY <1>0, <2>1 DEF RankInv, RankIsTodays, KeysOK
  <2>4. rank'[p] = IF p = who[r] THEN rank[p] + 1 ELSE rank[p]
    BY <1>0, Counted DEF PublicWrites, SetRank, KeysOK, ReqsOK
  <2>5. TodaysPosts(p)' = IF p = who[r] THEN TodaysPosts(p) \cup {r} ELSE TodaysPosts(p)
    BY <1>1, <1>2, <2>2 DEF TodaysPosts
  <2>6. IsFiniteSet(TodaysPosts(p)) /\ Cardinality(TodaysPosts(p)) \in Nat /\ r \notin TodaysPosts(p)
    BY <1>2, PostsCounted DEF RankInv, TodaysPosts
  <2>7. Cardinality(TodaysPosts(p) \cup {r}) = Cardinality(TodaysPosts(p)) + 1
    BY <2>6, FS_AddElement
  <2>8. CASE p = who[r]
    BY <2>3, <2>4, <2>5, <2>6, <2>7, <2>8
  <2>9. CASE p # who[r]
    BY <2>3, <2>4, <2>5, <2>9
  <2> QED
    BY <2>8, <2>9
<1>7. RankIsTodays'
  BY <1>6 DEF RankIsTodays
<1> QED
  BY <1>3, <1>5, <1>7

THEOREM RankStep == RankInv /\ [Next]_vars => RankInv'
<1> SUFFICES ASSUME RankInv, [Next]_vars PROVE Timed' /\ Finite' /\ RankIsTodays'
  BY TypeStep DEF RankInv
<1>0. KeysOK /\ ReqsOK /\ PostsOK
  BY DEF RankInv, TypeInv
<1>1. ASSUME NEW r \in Reqs, NEW p \in Players, PublicStart(r, p) \/ GetStart(r, p)
      PROVE  Timed' /\ Finite' /\ RankIsTodays'
  BY <1>0, <1>1, RankAside DEF PublicStart, GetStart, Arrive, Goto, keys, ReqsOK
<1>2. ASSUME NEW r \in Reqs, PublicRead(r) \/ GetRead(r) \/ RankStart(r)
      PROVE  Timed' /\ Finite' /\ RankIsTodays'
  BY <1>0, <1>2, RankAside DEF PublicRead, GetRead, RankStart, Goto, keys, ghost, ReqsOK
<1>3. ASSUME NEW r \in Reqs, PublicStore(r) PROVE Timed' /\ Finite' /\ RankIsTodays'
  <2>1. CASE UNCHANGED <<keys, stored, mixed>>
    BY <1>0, <1>3, <2>1, RankAside DEF PublicStore, Goto, keys, ReqsOK
  <2> QED
    BY <1>3, <2>1, RankStore DEF PublicStore
<1>4. CASE NextDay
  <2>1. /\ today' = today + 1 /\ today \in Nat /\ ~Overdue(rankUntil)
        /\ UNCHANGED <<rank, rankUntil, stored, pc, mixed>>
    BY <1>0, <1>4 DEF NextDay, keys, reqs, ReqsOK, Days
  <2>2. Timed' /\ Finite'
    <3>1. rankUntil \in Int
      BY <1>0, DivinationAssumption DEF KeysOK, Days, NoTTL
    <3> QED
      BY <2>1, <3>1 DEF RankInv, Timed, Finite
  <2>3. ASSUME ~Overdue(rankUntil)' PROVE \A p \in Players : rank'[p] = 0
    <3>1. rankUntil \in Int /\ rankUntil <= today
      BY <1>0, DivinationAssumption DEF RankInv, Timed, KeysOK, Days, NoTTL
    <3>2. rankUntil = NoTTL
      BY <2>1, <2>3, <3>1 DEF Overdue
    <3> QED
      BY <2>1, <3>2 DEF RankInv, Timed
  <2>4. \A p : Cardinality(TodaysPosts(p)') \in Nat
    BY <2>1, FS_Subset, FS_CardinalityType DEF RankInv, Finite, TodaysPosts
  <2> QED
    BY <2>2, <2>3, <2>4 DEF RankIsTodays
<1>5. CASE RankExpires
  <2>1. /\ \A p \in Players : rank'[p] = 0
        /\ rankUntil' = NoTTL /\ UNCHANGED <<today, stored, pc, who, day>> /\ today \in Nat
    BY <1>0, <1>5 DEF RankExpires, Zero, reqs, ReqsOK, Days
  <2>2. Timed' /\ Finite'
    BY <2>1 DEF RankInv, Timed, Finite, NoTTL
  <2>3. \A p : TodaysPosts(p)' = TodaysPosts(p)
    BY <2>1 DEF TodaysPosts
  <2>4. \A p \in Players : rank'[p] <= Cardinality(TodaysPosts(p)')
    BY <2>1, <2>3, PostsCounted DEF RankInv
  <2> QED
    BY <2>2, <2>4 DEF RankIsTodays
<1>6. CASE IDExpires
  BY <1>6, RankAside DEF IDExpires, reqs, ghost
<1>7. CASE Crash
  BY <1>0, <1>7, RankAside DEF Crash, keys, ghost, InFlight, Publishing
<1>8. CASE UNCHANGED vars
  BY <1>8, RankAside DEF vars, keys, reqs, ghost
<1> QED
  BY <1>1, <1>2, <1>3, <1>4, <1>5, <1>6, <1>7, <1>8 DEF Next

(* Once yesterday's ranking has expired, today's counts posts of today, each *)
(* at most once, for any number of requests and days and whatever fails: its *)
(* key always has a time to live when it is not empty.  Excepted is a ranking *)
(* into which a post was counted that came before midnight or found           *)
(* yesterday's key.                                                         *)
THEOREM RankingIsTodays == Spec => []RankIsTodays
<1>1. Init => RankInv
  <2> SUFFICES ASSUME Init PROVE Timed /\ Finite /\ RankIsTodays
    BY TypeInit DEF RankInv
  <2>1. Timed
    BY DEF Init, Timed, Zero, NoTTL
  <2>2. Finite
    BY FS_EmptySet DEF Init, Finite
  <2>3. RankIsTodays
    BY <2>2, PostsCounted DEF Init, RankIsTodays, Zero
  <2> QED
    BY <2>1, <2>2, <2>3
<1>2. RankInv => RankIsTodays
  BY DEF RankInv
<1> QED
  BY <1>1, <1>2, RankStep, PTL DEF Spec
-----------------------------------------------------------------------------
\* A request whose post is stored is over, and none begins in the future.
Begun == \A r \in Reqs : day[r] <= today /\ (r \in stored => pc[r] = "done")

\* Of two requests that publish at once, both are marked.
Alone == \A q, t \in Reqs : Publishing(q) /\ Publishing(t) /\ q # t => q \in raced

\* A day that a request straddled the end of is over, and the day of a request
\* that still publishes on a later day is one of these.
Over ==
    /\ \A d \in straddled : d < today
    /\ \A r \in Reqs : Publishing(r) /\ day[r] < today => day[r] \in straddled

\* Whoever publishes after a post that was not raced began no earlier, ...
Sole == stored \ raced
Later == \A r \in Sole, q \in Reqs : Publishing(q) => day[r] <= day[q]

\* ... and has, or will read, a higher id if it is the same day: the counter does
\* not expire before the day ends.
Above == \A r \in Sole : day[r] = today =>
    /\ pick[r] <= id /\ idUntil = today
    /\ \A q \in Reqs : pc[q] = "store" => pick[r] < pick[q]

\* So the post stays where it was put.
Held(r) ==
    /\ pick[r] \in record[day[r]] /\ pick[r] \in DOMAIN posts[day[r]]
    /\ posts[day[r]][pick[r]] = r
AllHeld == \A r \in Sole : day[r] \notin straddled => Held(r)

KeepInv == TypeInv /\ Begun /\ Alone /\ Over /\ Later /\ Above /\ AllHeld

\* A step after which no request publishes that did not, no request has another
\* id to store than before, and nothing is stored, keeps all of it.
LEMMA KeepStay ==
    ASSUME KeepInv, UNCHANGED <<id, idUntil, posts, record, today, stored, raced, straddled>>,
           \A r \in Reqs : pc[r] # "new" => pick'[r] = pick[r] /\ day'[r] = day[r],
           \A r \in Reqs : day'[r] <= today,
           \A r \in Reqs : pc'[r] \in {"read", "store"} => pc'[r] = pc[r],
           \A r \in Reqs : pc[r] = "done" => pc'[r] = "done"
    PROVE  Begun' /\ Alone' /\ Over' /\ Later' /\ Above' /\ AllHeld'
<1>0. ReqsOK /\ PostsOK
  BY DEF KeepInv, TypeInv
<1>1. Begun' /\ Alone' /\ Over'
  BY DEF KeepInv, Begun, Alone, Over, Publishing
<1>2. Sole' = Sole /\ \A r \in Sole : r \in Reqs /\ pick'[r] = pick[r] /\ day'[r] = day[r]
  BY <1>0 DEF KeepInv, Begun, Sole, PostsOK
<1>3. \A q \in Reqs : Publishing(q)' => Publishing(q) /\ pick'[q] = pick[q] /\ day'[q] = day[q]
  BY DEF Publishing
<1>4. Later'
  BY <1>2, <1>3 DEF KeepInv, Later
<1>5. Above'
  BY <1>2, <1>3 DEF KeepInv, Above, Publishing
<1>6. AllHeld'
  BY <1>2 DEF KeepInv, AllHeld, Held
<1> QED
  BY <1>1, <1>4, <1>5, <1>6

THEOREM KeepStep == KeepInv /\ [Next]_vars => KeepInv'
<1> SUFFICES ASSUME KeepInv, [Next]_vars
             PROVE  Begun' /\ Alone' /\ Over' /\ Later' /\ Above' /\ AllHeld'
  BY TypeStep DEF KeepInv
<1> USE DEF Goto
<1>0. KeysOK /\ PostsOK /\ ReqsOK
  BY DEF KeepInv, TypeInv
<1>1. ASSUME NEW r \in Reqs, NEW p \in Players, PublicStart(r, p)
      PROVE  Begun' /\ Alone' /\ Over' /\ Later' /\ Above' /\ AllHeld'
  <2>1. /\ pc[r] = "new" /\ pc'[r] = "read" /\ day'[r] = today
        /\ UNCHANGED <<id, idUntil, posts, record, pick, today, stored, straddled>>
    BY <1>0, <1>1 DEF PublicStart, Arrive, keys, ReqsOK
  <2>2. \A q \in Reqs \ {r} : pc'[q] = pc[q] /\ day'[q] = day[q]
    BY <1>0, <1>1 DEF PublicStart, Arrive, ReqsOK
  <2>3. today \in Nat
    BY <1>0 DEF ReqsOK, Days
  <2>4. raced \subseteq raced' /\ \A q \in Reqs : Publishing(q) => q \in raced' /\ r \in raced'
    BY <1>1 DEF PublicStart
  <2>5. Begun'
    BY <2>1, <2>2, <2>3 DEF KeepInv, Begun
  <2>6. Alone'
    BY <2>1, <2>2, <2>4 DEF KeepInv, Alone, Publishing
  <2>7. Over'
    BY <2>1, <2>2, <2>3 DEF KeepInv, Over, Publishing
  <2>8. Sole' \subseteq Sole /\ \A q \in Sole : q \in Reqs /\ q # r /\ day[q] <= today
    BY <1>0, <2>1, <2>4 DEF KeepInv, Begun, Sole, PostsOK
  <2>9. Later'
    BY <2>1, <2>2, <2>8 DEF KeepInv, Later, Publishing
  <2>10. Above'
    BY <2>1, <2>2, <2>8 DEF KeepInv, Above
  <2>11. AllHeld'
    BY <2>1, <2>2, <2>8 DEF KeepInv, AllHeld, Held
  <2> QED
    BY <2>5, <2>6, <2>7, <2>9, <2>10, <2>11
<1>2. ASSUME NEW r \in Reqs, NEW p \in Players, GetStart(r, p)
      PROVE  Begun' /\ Alone' /\ Over' /\ Later' /\ Above' /\ AllHeld'
  <2>1. pc[r] = "new" /\ pc'[r] \in {"done", "draw"} /\ day'[r] = today
    BY <1>0, <1>2 DEF GetStart, Arrive, ReqsOK
  <2>2. \A q \in Reqs \ {r} : pc'[q] = pc[q] /\ day'[q] = day[q] /\ pick'[q] = pick[q]
    BY <1>0, <1>2 DEF GetStart, Arrive, ReqsOK
  <2>3. today \in Nat
    BY <1>0 DEF ReqsOK, Days
  <2>4. UNCHANGED <<id, idUntil, posts, record, today, stored, raced, straddled>>
    BY <1>2 DEF GetStart, Arrive, keys
  <2>5. \A q \in Reqs : day'[q] <= today
    BY <2>1, <2>2, <2>3 DEF KeepInv, Begun
  <2> QED
    BY <2>1, <2>2, <2>4, <2>5, KeepStay
<1>3. ASSUME NEW r \in Reqs, PublicRead(r)
      PROVE  Begun' /\ Alone' /\ Over' /\ Later' /\ Above' /\ AllHeld'
  <2>1. UNCHANGED <<id, idUntil, posts, record, day, today, stored, raced, straddled>> /\ pc[r] = "read"
    BY <1>3 DEF PublicRead, keys, ghost
  <2>2. \A q \in Reqs \ {r} : pc'[q] = pc[q] /\ pick'[q] = pick[q]
    BY <1>0, <1>3 DEF PublicRead, ReqsOK
  <2>3. CASE pc'[r] = "done" /\ pick'[r] = pick[r]
    <3>1. \A q \in Reqs : day'[q] <= today
      BY <2>1 DEF KeepInv, Begun
    <3> QED
      BY <2>1, <2>2, <2>3, <3>1, KeepStay
  <2>4. CASE pc'[r] = "store" /\ pick'[r] = id + 1
    <3>1. Begun' /\ Alone' /\ Over'
      BY <2>1, <2>2, <2>4 DEF KeepInv, Begun, Alone, Over, Publishing
    <3>2. Sole' = Sole /\ \A q \in Sole : q \in Reqs /\ q # r
      BY <1>0, <2>1 DEF KeepInv, Begun, Sole, PostsOK
    <3>3. Later'
      BY <2>1, <2>2, <3>2 DEF KeepInv, Later, Publishing
    <3>4. Above'
      <4> SUFFICES ASSUME NEW t \in Sole, day[t] = today
                   PROVE  pick[t] <= id /\ idUntil = today
                          /\ \A q \in Reqs : pc'[q] = "store" => pick[t] < pick'[q]
        BY <2>1, <2>2, <3>2 DEF Above
      <4>1. pick[t] <= id /\ idUntil = today /\ \A q \in Reqs : pc[q] = "store" => pick[t] < pick[q]
        BY DEF KeepInv, Above
      <4>2. pick[t] \in Nat /\ id \in Nat
        BY <1>0, <3>2 DEF ReqsOK, KeysOK
      <4>3. pick[t] < pick'[r]
        BY <2>4, <4>1, <4>2
      <4> QED
        BY <2>2, <4>1, <4>3
    <3>5. AllHeld'
      BY <2>1, <2>2, <3>2 DEF KeepInv, AllHeld, Held
    <3> QED
      BY <3>1, <3>3, <3>4, <3>5
  <2> QED
    BY <1>0, <1>3, <2>3, <2>4 DEF PublicRead, NextID, ReqsOK
<1>4. ASSUME NEW r \in Reqs, PublicStore(r)
      PROVE  Begun' /\ Alone' /\ Over' /\ Later' /\ Above' /\ AllHeld'
  <2>1. /\ pc[r] = "store" /\ pc'[r] = "done"
        /\ UNCHANGED <<pick, day, today, raced, straddled>>
        /\ \A q \in Reqs \ {r} : pc'[q] = pc[q]
    BY <1>0, <1>4 DEF PublicStore, ReqsOK
  <2>2. CASE UNCHANGED <<keys, stored, mixed>>
    <3>1. \A q \in Reqs : day'[q] <= today
      BY <2>1 DEF KeepInv, Begun
    <3> QED
      BY <2>1, <2>2, <3>1, KeepStay DEF keys
  <2>3. CASE PublicWrites(r)
    <3>1. day[r] \in Days /\ day[r] \in Nat /\ today \in Nat /\ pick[r] \in Nat /\ id \in Nat
      BY <1>0 DEF ReqsOK, KeysOK, Days
    <3>2. /\ stored' = stored \cup {r}
          /\ posts' = [posts EXCEPT ![day[r]] = Put(@, pick[r], r)]
          /\ record' = [record EXCEPT ![day[r]] = @ \cup {pick[r]}]
      BY <2>3 DEF PublicWrites, Record
    <3>3. day[r] = today => id' = pick[r] /\ idUntil' = today
      BY <2>3, <3>1 DEF PublicWrites, SetID, Until
    <3>4. Publishing(r) /\ \A q \in Reqs : Publishing(q)' => q # r /\ Publishing(q) /\ pc'[q] = pc[q]
      BY <2>1 DEF Publishing
    <3>5. Begun' /\ Alone' /\ Over'
      BY <2>1, <3>2, <3>4 DEF KeepInv, Begun, Alone, Over
    <3>6. r \notin raced => \A q \in Reqs : ~ Publishing(q)'
      BY <3>4 DEF KeepInv, Alone
    <3>7. Sole' \subseteq Sole \cup {r} /\ Sole \subseteq Reqs \ {r} /\ (r \in Sole' => r \notin raced)
      BY <1>0, <2>1, <3>2 DEF KeepInv, Begun, Sole, PostsOK
    <3>8. Later'
      BY <2>1, <3>4, <3>6, <3>7 DEF KeepInv, Later
    <3>9. Above'
      <4> SUFFICES ASSUME NEW t \in Sole', day[t] = today
                   PROVE  pick[t] <= id' /\ idUntil' = today
                          /\ \A q \in Reqs : pc'[q] = "store" => pick[t] < pick[q]
        BY <2>1 DEF Above
      <4>1. CASE t = r
        BY <3>1, <3>3, <3>6, <3>7, <4>1 DEF Publishing
      <4>2. CASE t \in Sole
        <5>1. pick[t] \in Nat /\ \A q \in Reqs : pc[q] = "store" => pick[t] < pick[q]
          BY <1>0, <3>7, <4>2 DEF KeepInv, Above, ReqsOK
        <5>2. day[r] = today
          <6>1. today <= day[r] /\ day[r] <= today
            BY <3>4, <4>2 DEF KeepInv, Later, Begun
          <6> QED
            BY <3>1, <6>1
        <5> QED
          BY <2>1, <3>1, <3>3, <5>1, <5>2
      <4> QED
        BY <3>7, <4>1, <4>2
    <3>10. AllHeld'
      <4> SUFFICES ASSUME NEW t \in Sole', day[t] \notin straddled
                   PROVE  /\ pick[t] \in record'[day[t]] /\ pick[t] \in DOMAIN posts'[day[t]]
                          /\ posts'[day[t]][pick[t]] = t
        BY <2>1 DEF AllHeld, Held
      <4>1. /\ record'[day[r]] = record[day[r]] \cup {pick[r]}
            /\ posts'[day[r]] = Put(posts[day[r]], pick[r], r)
            /\ \A d \in Days : d # day[r] => record'[d] = record[d] /\ posts'[d] = posts[d]
        BY <1>0, <3>1, <3>2 DEF PostsOK
      <4>2. CASE t = r
        BY <4>1, <4>2 DEF Put
      <4>3. CASE t \in Sole
        <5>1. Held(t) /\ t \in Reqs /\ day[t] \in Days /\ day[t] \in Nat /\ pick[t] \in Nat
          BY <1>0, <3>7, <4>3 DEF KeepInv, AllHeld, ReqsOK, Days
        <5>2. CASE day[t] # day[r]
          BY <4>1, <5>1, <5>2 DEF Held
        <5>3. CASE day[t] = day[r]
          <6>1. day[r] = today
            BY <2>1, <3>1, <3>4, <5>3 DEF KeepInv, Over, Begun
          <6>2. pick[t] # pick[r]
            BY <2>1, <4>3, <5>1, <5>3, <6>1 DEF KeepInv, Above
          <6> QED
            BY <4>1, <5>1, <5>3, <6>2 DEF Held, Put
        <5> QED
          BY <5>2, <5>3
      <4> QED
        BY <3>7, <4>2, <4>3
    <3> QED
      BY <3>5, <3>8, <3>9, <3>10
  <2> QED
    BY <1>4, <2>2, <2>3 DEF PublicStore
<1>5. ASSUME NEW r \in Reqs, GetRead(r) \/ RankStart(r)
      PROVE  Begun' /\ Alone' /\ Over' /\ Later' /\ Above' /\ AllHeld'
  <2>1. UNCHANGED <<id, idUntil, posts, record, pick, day, today, stored, raced, straddled>>
    BY <1>5 DEF GetRead, RankStart, keys, ghost
  <2>2. pc[r] \in {"draw", "new"} /\ pc'[r] \in {"done", "notfound"} /\ \A q \in Reqs \ {r} : pc'[q] = pc[q]
    BY <1>0, <1>5 DEF GetRead, RankStart, ReqsOK
  <2>3. \A q \in Reqs : day'[q] <= today
    BY <2>1 DEF KeepInv, Begun
  <2> QED
    BY <2>1, <2>2, <2>3, KeepStay
<1>6. CASE NextDay
  <2>1. /\ today' = today + 1 /\ today \in Nat /\ \A r \in Reqs : day[r] \in Nat /\ day[r] <= today
        /\ straddled' = straddled \cup {day[r] : r \in {q \in Reqs : Publishing(q)}}
        /\ UNCHANGED <<posts, record, pc, day, pick, stored, raced>>
    BY <1>0, <1>6 DEF NextDay, keys, reqs, ReqsOK, Days, KeepInv, Begun
  <2>2. Begun' /\ Alone' /\ Later'
    BY <2>1 DEF KeepInv, Begun, Alone, Later, Sole, Publishing
  <2>3. Over'
    <3>1. \A d \in straddled : d \in Nat /\ d < today
      BY <1>0 DEF KeepInv, Over, ReqsOK, Days
    <3>2. \A d \in straddled' : d < today'
      BY <2>1, <3>1
    <3> QED
      BY <2>1, <3>2 DEF Over, Publishing
  <2>4. Above' /\ AllHeld'
    <3>1. Sole' = Sole /\ Sole \subseteq Reqs
      BY <1>0, <2>1 DEF Sole, PostsOK
    <3>2. Above'
      BY <2>1, <3>1 DEF Above
    <3> QED
      BY <2>1, <3>1, <3>2 DEF KeepInv, AllHeld, Held
  <2> QED
    BY <2>2, <2>3, <2>4
<1>7. CASE Crash
  <2>1. /\ UNCHANGED <<id, idUntil, posts, record, pick, day, today, stored, raced, straddled>>
        /\ \A q \in Reqs : pc'[q] = IF InFlight(q) THEN "done" ELSE pc[q]
    BY <1>7 DEF Crash, keys, ghost
  <2>2. \A q \in Reqs : day'[q] <= today
    BY <2>1 DEF KeepInv, Begun
  <2> QED
    BY <2>1, <2>2, KeepStay DEF InFlight, Publishing
<1>8. CASE UNCHANGED vars
  <2>1. \A q \in Reqs : day'[q] <= today
    BY <1>8 DEF KeepInv, Begun, vars, reqs
  <2> QED
    BY <1>8, <2>1, KeepStay DEF vars, keys, reqs, ghost
<1>9. CASE RankExpires
  <2>1. \A q \in Reqs : day'[q] <= today
    BY <1>9 DEF KeepInv, Begun, RankExpires, reqs
  <2> QED
    BY <1>9, <2>1, KeepStay DEF RankExpires, reqs
<1>10. CASE IDExpires
  <2>1. idUntil # today /\ UNCHANGED <<posts, record, pc, pick, day, today, stored, raced, straddled>>
    BY <1>0, <1>10 DEF IDExpires, Overdue, reqs, ghost, ReqsOK, Days
  <2>2. Begun' /\ Alone' /\ Over' /\ Later' /\ AllHeld' /\ Sole' = Sole
    BY <2>1 DEF KeepInv, Begun, Alone, Over, Later, AllHeld, Held, Sole, Publishing
  <2>3. Above'
    BY <2>1, <2>2 DEF KeepInv, Above
  <2> QED
    BY <2>2, <2>3
<1> QED
  BY <1>1, <1>2, <1>3, <1>4, <1>5, <1>6, <1>7, <1>8, <1>9, <1>10 DEF Next

(* A post is only ever lost to a race: the reading of the counter and the    *)
(* storing under its successor are two transactions without a lock, so a     *)
(* post stays if no other request published while its own did, and midnight  *)
(* passed under no request of its day.                                      *)
THEOREM PostsAreKept == Spec => []NoQuietLoss
<1>1. Init => KeepInv
  BY TypeInit DEF Init, KeepInv, Begun, Alone, Over, Later, Above, AllHeld, Sole, Publishing, Zero
<1>2. KeepInv => NoQuietLoss
  BY DEF KeepInv, AllHeld, Held, NoQuietLoss, Kept, Sole
<1> QED
  BY <1>1, <1>2, KeepStep, PTL DEF Spec
-----------------------------------------------------------------------------
\* Only a request that is over has posted.
Authors == \A d \in Days : \A i \in DOMAIN posts[d] : pc[posts[d][i]] = "done"

ExactInv == TypeInv /\ RecordExact /\ Authors

THEOREM ExactStep == ExactInv /\ [Next]_vars => ExactInv'
<1> SUFFICES ASSUME ExactInv, [Next]_vars PROVE RecordExact' /\ Authors'
  BY TypeStep DEF ExactInv
<1>0. ReqsOK /\ PostsOK
  BY DEF ExactInv, TypeInv
<1>1. \A d \in Days : \A i \in DOMAIN posts[d] : posts[d][i] \in Reqs
  BY <1>0 DEF PostsOK
<1>2. ASSUME UNCHANGED <<posts, record>>,
             \A r \in Reqs : pc[r] = "done" => /\ pc'[r] = "done"
                                               /\ day'[r] = day[r] /\ pick'[r] = pick[r]
      PROVE  RecordExact' /\ Authors'
  BY <1>1, <1>2 DEF ExactInv, RecordExact, Authors
<1>3. ASSUME NEW r \in Reqs, NEW p \in Players, PublicStart(r, p) \/ GetStart(r, p)
      PROVE  RecordExact' /\ Authors'
  BY <1>0, <1>2, <1>3 DEF PublicStart, GetStart, Arrive, Goto, keys, ReqsOK
<1>4. ASSUME NEW r \in Reqs, PublicRead(r) \/ GetRead(r) \/ RankStart(r)
      PROVE  RecordExact' /\ Authors'
  BY <1>0, <1>2, <1>4 DEF PublicRead, GetRead, RankStart, Goto, keys, ReqsOK
<1>5. ASSUME NEW r \in Reqs, PublicStore(r) PROVE RecordExact' /\ Authors'
  <2>1. /\ pc'[r] = "done" /\ UNCHANGED <<day, pick>>
        /\ \A q \in Reqs : pc[q] = "done" => pc'[q] = "done"
    BY <1>0, <1>5 DEF PublicStore, Goto, ReqsOK
  <2>2. CASE UNCHANGED <<keys, stored, mixed>>
    BY <1>2, <2>1, <2>2 DEF keys
  <2>3. CASE PublicWrites(r)
    <3>1. day[r] \in Days
      BY <1>0 DEF ReqsOK
    <3>2. /\ posts' = [posts EXCEPT ![day[r]] = Put(@, pick[r], r)]
          /\ record' = [record EXCEPT ![day[r]] = @ \cup {pick[r]}]
      BY <2>3 DEF PublicWrites, Record
    <3>3. /\ record'[day[r]] = record[day[r]] \cup {pick[r]}
          /\ posts'[day[r]] = Put(posts[day[r]], pick[r], r)
          /\ \A d \in Days : d # day[r] => record'[d] = record[d] /\ posts'[d] = posts[d]
      BY <1>0, <3>1, <3>2 DEF PostsOK
    <3>4. ASSUME NEW d \in Days, d # day[r]
          PROVE  /\ record'[d] = DOMAIN posts'[d]
                 /\ \A i \in record'[d] : /\ day[posts'[d][i]] = d /\ pick[posts'[d][i]] = i
                                          /\ pc'[posts'[d][i]] = "done"
      BY <1>1, <2>1, <3>3, <3>4 DEF ExactInv, RecordExact, Authors
    <3>5. record'[day[r]] = DOMAIN posts'[day[r]]
      BY <3>1, <3>3 DEF Put, ExactInv, RecordExact
    <3>6. ASSUME NEW i \in record'[day[r]]
          PROVE  /\ day[posts'[day[r]][i]] = day[r] /\ pick[posts'[day[r]][i]] = i
                 /\ pc'[posts'[day[r]][i]] = "done"
      <4>1. CASE i = pick[r]
        BY <2>1, <3>3, <4>1 DEF Put
      <4>2. CASE i # pick[r] /\ i \in record[day[r]]
        <5>1. i \in DOMAIN posts[day[r]]
          BY <3>1, <4>2 DEF ExactInv, RecordExact
        <5>2. posts'[day[r]][i] = posts[day[r]][i]
          BY <3>3, <4>2, <5>1 DEF Put
        <5> QED
          BY <1>1, <2>1, <3>1, <4>2, <5>1, <5>2 DEF ExactInv, RecordExact, Authors
      <4> QED
        BY <3>3, <4>1, <4>2
    <3> QED
      BY <2>1, <3>1, <3>4, <3>5, <3>6 DEF RecordExact, Authors
  <2> QED
    BY <1>5, <2>2, <2>3 DEF PublicStore
<1>6. CASE NextDay \/ IDExpires \/ RankExpires
  BY <1>2, <1>6 DEF NextDay, IDExpires, RankExpires, keys, reqs
<1>7. CASE Crash
  BY <1>2, <1>7 DEF Crash, keys, InFlight, Publishing
<1>8. CASE UNCHANGED vars
  BY <1>2, <1>8 DEF vars, keys, reqs
<1> QED
  BY <1>3, <1>4, <1>5, <1>6, <1>7, <1>8 DEF Next

(* What a race of two publishers loses is a post, never an id: a day's record *)
(* holds exactly the ids there are posts at, and the post at an id is of the *)
(* request that took that id on that day.                                   *)
THEOREM RecordsStayExact == Spec => []RecordExact
<1>1. Init => ExactInv
  BY TypeInit DEF Init, ExactInv, RecordExact, Authors
<1>2. ExactInv => RecordExact
  BY DEF ExactInv
<1> QED
  BY <1>1, <1>2, ExactStep, PTL DEF Spec
=============================================================================
