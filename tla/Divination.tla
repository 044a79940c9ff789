----------------------------- MODULE Divination -----------------------------
(***************************************************************************)
(* handles/divination: publishing a post, drawing one at random and showing *)
(* the ranking.  No handler takes a lock: publishing reads the counter of   *)
(* ids in one MULTI and stores the post under the next id in another.  The  *)
(* keys that hold posts carry the date the request came on, the counter and *)
(* the ranking do not: they expire some time after midnight.                *)
(*                                                                         *)
(* A request runs once, so the request that made a post stands for it.      *)
(***************************************************************************)
EXTENDS Integers, Sequences, FiniteSets

CONSTANTS Reqs, Players, Nobody,
          RankLen,  \* the places of the ranking that are shown
          Bonus,    \* what the invented first place has more than the first
          LastDay,  \* bound on the days modelled
          Faults    \* calls to Redis may fail, the server may die

ASSUME DivinationAssumption ==
    /\ Nobody \notin Players /\ IsFiniteSet(Players)
    /\ LastDay \in Nat /\ Faults \in BOOLEAN
    /\ RankLen \in Nat \ {0} /\ Bonus \subseteq Nat

VARIABLES
    id,        \* wecalendar:id, 0 when there is none
    posts,     \* per day, wecalendar:divination:<date>: from ids to posts
    record,    \* per day, wecalendar:divinationrecord:<date>: ids
    rank,      \* wecalendar:rank: posts per player
    idUntil, rankUntil, \* the days after whose end the keys of the counter and
               \* of the ranking expire; NoTTL, when they have no time to live
    pc, who, day, pick,   \* the requests; pick is the id of the post
    page,      \* the ranking a request was shown
    today,
    stored,    \* ghost: the posts Redis stored
    raced,     \* ghost: the posts that were published while another was
    straddled, \* ghost: the days some request began on and did not end on
    mixed      \* ghost: was a post counted into a ranking that is not, or not
               \* only, of the post's day?

keys  == <<id, idUntil, posts, record, rank, rankUntil>>
reqs  == <<pc, who, day, pick, page>>
ghost == <<stored, raced, straddled, mixed>>
vars  == <<keys, reqs, today, ghost>>

Days == 0..LastDay
NoTTL == -1

Publishing(r) == pc[r] \in {"read", "store"}
InFlight(r) == Publishing(r) \/ pc[r] = "draw"

Zero(S) == [x \in S |-> 0]

Init ==
    /\ id = 0 /\ rank = Zero(Players) /\ idUntil = NoTTL /\ rankUntil = NoTTL
    /\ posts = [d \in Days |-> [i \in {} |-> i]]
    /\ record = [d \in Days |-> {}]
    /\ pc = [r \in Reqs |-> "new"] /\ who = [r \in Reqs |-> Nobody]
    /\ day = Zero(Reqs) /\ pick = Zero(Reqs) /\ today = 0
    /\ page = [r \in Reqs |-> <<>>]
    /\ stored = {} /\ raced = {} /\ straddled = {} /\ mixed = FALSE

Goto(r, l) == pc' = [pc EXCEPT ![r] = l]

\* A request arrives and reads the clock.
Arrive(r, p, l) ==
    /\ pc[r] = "new"
    /\ Goto(r, l)
    /\ who' = [who EXCEPT ![r] = p] /\ day' = [day EXCEPT ![r] = today]
    /\ UNCHANGED <<keys, page, today, stored, straddled, mixed>>

-----------------------------------------------------------------------------
(* divinationPublicHandle.                                                 *)

PublicStart(r, p) ==
    /\ Arrive(r, p, "read")
    /\ raced' = LET others == {q \in Reqs : Publishing(q)}
                IN IF others = {} THEN raced ELSE raced \cup others \cup {r}
    /\ UNCHANGED pick

\* Mutant: the id is the last one, not the next.
NextIDNotIncremented == id

NextID == id + 1

PublicRead(r) ==
    /\ pc[r] = "read"
    /\ \/ pick' = [pick EXCEPT ![r] = NextID] /\ Goto(r, "store")
       \/ Faults /\ Goto(r, "done") /\ UNCHANGED pick
    /\ UNCHANGED <<keys, who, day, page, today, ghost>>

\* A key of a day that is over, not expired yet.
Overdue(until) == until # NoTTL /\ until < today

\* Both keys are given the seconds that TomorrowZeroRemain counted, some time
\* since the request came, from then to midnight: they expire that long after
\* the store, so they outlive that midnight.
Until(r) == day[r]..today

SetID(r) == id' = pick[r] /\ idUntil' \in Until(r)

\* Mutant: the key of the ranking is not given a TTL.
SetRankNoTTL(r) ==
    rank' = [rank EXCEPT ![who[r]] = @ + 1] /\ UNCHANGED rankUntil

\* ZINCRBY adds to the ranking that is there, today's or yesterday's.
SetRank(r) ==
    rank' = [rank EXCEPT ![who[r]] = @ + 1] /\ rankUntil' \in Until(r)

\* HSET.
Put(f, i, r) == [j \in DOMAIN f \cup {i} |-> IF j = i THEN r ELSE f[j]]

\* Mutant: the record is made for the day the post is stored on.
RecordToday(r) == record' = [record EXCEPT ![today] = @ \cup {pick[r]}]

Record(r) == record' = [record EXCEPT ![day[r]] = @ \cup {pick[r]}]

\* The storing MULTI took effect in Redis.
PublicWrites(r) ==
    /\ posts' = [posts EXCEPT ![day[r]] = Put(@, pick[r], r)]
    /\ Record(r) /\ SetID(r) /\ SetRank(r)
    /\ stored' = stored \cup {r}
    /\ mixed' = (mixed \/ day[r] < today \/ Overdue(rankUntil))

PublicStore(r) ==
    /\ pc[r] = "store"
    /\ PublicWrites(r) \/ (Faults /\ UNCHANGED <<keys, stored, mixed>>)
    /\ Goto(r, "done")
    /\ UNCHANGED <<who, day, pick, page, today, raced, straddled>>

-----------------------------------------------------------------------------
(* divinationGetHandle: it draws one of the day's ids, then reads its post.  *)

GetStart(r, p) ==
    /\ Arrive(r, p, IF record[today] = {} THEN "done" ELSE "draw")
    /\ IF record[today] = {} THEN UNCHANGED pick
       ELSE \E i \in record[today] : pick' = [pick EXCEPT ![r] = i]
    /\ UNCHANGED raced

GetRead(r) ==
    /\ pc[r] = "draw"
    /\ \/ pick[r] \in DOMAIN posts[day[r]] /\ Goto(r, "done")
       \/ pick[r] \notin DOMAIN posts[day[r]] /\ Goto(r, "notfound")
       \/ Faults /\ Goto(r, "done")
    /\ UNCHANGED <<keys, who, day, pick, page, today, ghost>>

-----------------------------------------------------------------------------
(* divinationRankHandle.  The names of the players on the page are read in a *)
(* second MULTI; they are no part of the model.                             *)

Place(p) == [player |-> p, num |-> rank[p]]

\* ZRANGE 0 n-1: the n members with the lowest scores, the lowest first (and
\* members of equal score in some order).
ZRange(n) ==
    LET S == {p \in Players : rank[p] > 0}
        k == IF Cardinality(S) < n THEN Cardinality(S) ELSE n
    IN {s \in [1..k -> S] :
          /\ \A i, j \in 1..k : i < j => s[i] # s[j] /\ rank[s[i]] <= rank[s[j]]
          /\ \A p \in S : (\E i \in 1..k : s[i] = p) \/ \A i \in 1..k : rank[s[i]] <= rank[p]}

\* first is a switch in Redis: an invented player then has the first place, and
\* as many posts as the first of the range, or some more.
RankPage(s, first, bonus) ==
    LET places == [i \in DOMAIN s |-> Place(s[i])]
        faker  == [player |-> Nobody,
                   num |-> IF s = <<>> THEN 0 ELSE rank[s[1]] + bonus]
        all    == IF first THEN <<faker>> \o places ELSE places
    IN SubSeq(all, 1, IF Len(all) < RankLen THEN Len(all) ELSE RankLen)

RankStart(r) ==
    /\ pc[r] = "new" /\ Goto(r, "done")
    /\ \/ \E s \in ZRange(RankLen), first \in BOOLEAN, bonus \in Bonus :
            page' = [page EXCEPT ![r] = RankPage(s, first, bonus)]
       \/ Faults /\ UNCHANGED page
    /\ UNCHANGED <<keys, who, day, pick, today, ghost>>

-----------------------------------------------------------------------------
(* The environment.                                                        *)

IDExpires ==
    /\ Overdue(idUntil) /\ id' = 0 /\ idUntil' = NoTTL
    /\ UNCHANGED <<posts, record, rank, rankUntil, reqs, today, ghost>>

RankExpires ==
    /\ Overdue(rankUntil) /\ rank' = Zero(Players) /\ rankUntil' = NoTTL
    /\ mixed' = FALSE
    /\ UNCHANGED <<id, idUntil, posts, record, reqs, today, stored, raced, straddled>>

\* Midnight.  A key does not outlive the midnight it was to expire at by a day.
NextDay ==
    /\ today < LastDay /\ today' = today + 1
    /\ ~Overdue(idUntil) /\ ~Overdue(rankUntil)
    /\ straddled' = straddled \cup {day[r] : r \in {q \in Reqs : Publishing(q)}}
    /\ UNCHANGED <<keys, reqs, stored, raced, mixed>>

Crash ==
    /\ Faults
    /\ pc' = [r \in Reqs |-> IF InFlight(r) THEN "done" ELSE pc[r]]
    /\ UNCHANGED <<keys, who, day, pick, page, today, ghost>>

Next ==
    \/ \E r \in Reqs, p \in Players : PublicStart(r, p) \/ GetStart(r, p)
    \/ \E r \in Reqs : PublicRead(r) \/ PublicStore(r) \/ GetRead(r)
                       \/ RankStart(r)
    \/ IDExpires \/ RankExpires \/ NextDay \/ Crash

Spec == Init /\ [][Next]_vars

-----------------------------------------------------------------------------
TypeOK ==
    /\ id \in Nat /\ rank \in [Players -> Nat]
    /\ idUntil \in Days \cup {NoTTL} /\ rankUntil \in Days \cup {NoTTL}
    /\ DOMAIN posts = Days /\ \A d \in Days : posts[d] \in [DOMAIN posts[d] -> Reqs]
    /\ record \in [Days -> SUBSET (Nat \ {0})]
    /\ pc \in [Reqs -> {"new", "read", "store", "draw", "done", "notfound"}]
    /\ who \in [Reqs -> Players \cup {Nobody}]
    /\ day \in [Reqs -> Days] /\ pick \in [Reqs -> Nat] /\ today \in Days
    /\ stored \subseteq Reqs /\ raced \subseteq Reqs /\ straddled \subseteq Days
    /\ mixed \in BOOLEAN
    /\ page \in [Reqs -> Seq([player : Players \cup {Nobody}, num : Nat])]

(* A post that is drawn is found, whatever is published and whether or not  *)
(* midnight passes between the draw and the reading.                        *)
DrawnIsFound == \A r \in Reqs : pc[r] # "notfound"

(* What today's ranking counts for a player are posts of today, none twice:  *)
(* as long as yesterday's has expired, and no post was counted into it that *)
(* came before midnight, or before yesterday's ranking had expired.         *)
TodaysPosts(p) == {r \in stored : who[r] = p /\ day[r] = today}
RankIsTodays ==
    ~Overdue(rankUntil) /\ ~mixed => \A p \in Players : rank[p] <= Cardinality(TodaysPosts(p))

(* The ranking lives for "the time that remains to tomorrow's midnight"     *)
(* (gtime.go:5): when no publication is cut by midnight, today's counts only *)
(* posts of today.  It does not: one just after midnight finds yesterday's  *)
(* ranking not expired yet and gives it another day.                        *)
RankEndsAtMidnight ==
    straddled = {} /\ ~Overdue(rankUntil) =>
        \A p \in Players : rank[p] <= Cardinality(TodaysPosts(p))

(* A post is only ever lost to a race: one that no other request overlapped, *)
(* of a day that no request straddled the end of, stays.                    *)
Kept(r) == \E i \in record[day[r]] : i \in DOMAIN posts[day[r]] /\ posts[day[r]][i] = r
NoQuietLoss == \A r \in stored \ raced : day[r] \notin straddled => Kept(r)

(* What is lost is a post, never an id: every post that was stored left its  *)
(* id in its day's record, and there is a post at each.                     *)
RecordExact == \A d \in Days :
    /\ record[d] = DOMAIN posts[d]
    /\ \A i \in record[d] : day[posts[d][i]] = d /\ pick[posts[d][i]] = i

(* The ranking "shows only the first" (divination_rank.go:26): a place is not *)
(* below the one before it.  The code shows the last, from the last on.      *)
FirstPlacesFirst == \A r \in Reqs : \A i, j \in DOMAIN page[r] :
    i < j => page[r][i].num >= page[r][j].num
=============================================================================
