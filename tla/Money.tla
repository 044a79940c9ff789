-------------------------------- MODULE Money --------------------------------
(***************************************************************************)
(* The wallet of handles/money and the nightly job of server/cron_data.    *)
(*                                                                         *)
(* A request is one run of a handler: the process yields at every call to  *)
(* Redis or MySQL, so what a handler does between two calls is one step,   *)
(* and a MULTI..EXEC is atomic.  What a handler read is kept in the        *)
(* request (snap) until it writes it back.  Each request runs once; Reqs   *)
(* may be infinite.  Counters of days start at 0.                          *)
(*                                                                         *)
(* RedisLock is the detailed model of the lock: here a key is present or   *)
(* not, and Timely says that no handler outlives its key (the hypothesis   *)
(* under which RedisLock implements Mutex).                                *)
(***************************************************************************)
EXTENDS Integers

CONSTANTS Reqs, Players, Nobody,
          Kinds,        \* the handlers clients call: a subset of AllKinds
          MaxAdNum,     \* FieldMoneyConfigMaxAdNum: paid advertisements a day
          SeeEarnings,  \* FieldMoneyConfigSeeEarnings: fen for one
          Amounts,      \* the keys of getoutMoneyConfig, in fen
          LastDay,      \* bound on the days modelled
          Timely,       \* no handler outlives its lock key
          Faults,       \* calls to Redis and MySQL may fail, the server may die
          OneAtATime    \* a client waits for its answer before it asks again

AllKinds == {"see", "click", "getout", "entrance"}

ASSUME MoneyAssumption ==
    /\ Kinds \subseteq AllKinds /\ Nobody \notin Players
    /\ MaxAdNum \in Nat /\ SeeEarnings \in Nat /\ LastDay \in Nat
    /\ Amounts \subseteq Nat \ {0}
    /\ Timely \in BOOLEAN /\ Faults \in BOOLEAN /\ OneAtATime \in BOOLEAN

VARIABLES
    \* Redis
    locks,       \* the lock keys that exist: <<kind, player>>
    adseenum, adclicknum, money, total,   \* per player
    remain,      \* per player: NoKey, or what is left of the day's quota
    until,       \* per player: the day after whose end that key expires
    dayearnings, dayadnum,                \* per day, over all players
    earnings,    \* wecalendar:data:earnings
    \* MySQL: the sums of Adrecord.Earnings and of Getoutrecord.GetoutMoney
    adrecorded, withdrawn,
    \* requests
    pc, kind, who, day, snap,
    ins,         \* is the goroutine of a paid see still to insert its Adrecord?
    \* the process
    today, cron, cronsum, fired,
    \* ghosts: the advertisements whose store Redis applied, counted (seen) and
    \* in fen (paid), per player and per day, and the fen of all days
    seen, paid, daySeen, dayPaid, allPaid,
    charged      \* per player and day: the paid ones that were charged to that
                 \* day's quota, counted

redis == <<adseenum, adclicknum, money, total, remain, until, dayearnings, dayadnum>>
dbs   == <<adrecorded, withdrawn>>
ghost == <<seen, paid, daySeen, dayPaid, allPaid, charged>>
ident == <<kind, who, day>>
clock == <<today, cron, cronsum, fired, earnings>>
vars  == <<locks, redis, dbs, pc, ident, snap, ins, clock, ghost>>

Days == 0..LastDay
NoKey == -1

\* The program points of a handler: what it does next.
Holding == {"read", "insert", "store", "finish"}
Busy    == Holding \cup {"fill"}
Idle    == {"new", "done", "refused"}

InFlight(r) == pc[r] \in Busy
Holder(r, k, p) == pc[r] \in Holding /\ kind[r] = k /\ who[r] = p

\* What a handler is about to write.  A see writes every field, a withdrawal
\* the money; pays and amount are what the request stands for, on is the day the
\* values were read.
NoSnap == [seen |-> 0, money |-> 0, total |-> 0, remain |-> 0,
           dayearnings |-> 0, dayadnum |-> 0, pays |-> FALSE, amount |-> 0, on |-> 0]

Zero(S) == [x \in S |-> 0]

Init ==
    /\ locks = {}
    /\ adseenum = Zero(Players) /\ adclicknum = Zero(Players)
    /\ money = Zero(Players) /\ total = Zero(Players)
    /\ remain = [p \in Players |-> NoKey] /\ until = Zero(Players)
    /\ dayearnings = Zero(Days) /\ dayadnum = Zero(Days) /\ earnings = 0
    /\ adrecorded = Zero(Players) /\ withdrawn = Zero(Players)
    /\ pc = [r \in Reqs |-> "new"]
    /\ kind = [r \in Reqs |-> "none"] /\ who = [r \in Reqs |-> Nobody] /\ day = Zero(Reqs)
    /\ snap = [r \in Reqs |-> NoSnap]
    /\ ins = [r \in Reqs |-> FALSE]
    /\ today = 0 /\ cron = "idle" /\ cronsum = 0 /\ fired = TRUE
    /\ seen = Zero(Players) /\ paid = Zero(Players)
    /\ daySeen = Zero(Days) /\ dayPaid = Zero(Days) /\ allPaid = 0
    /\ charged = [p \in Players |-> Zero(Days)]

-----------------------------------------------------------------------------
(* Common steps.                                                           *)

Goto(r, l) == pc' = [pc EXCEPT ![r] = l]

\* A request arrives: the handler reads the clock and the player's id.
Arrive(r, k, p) ==
    /\ pc[r] = "new"
    /\ OneAtATime => \A q \in Reqs : who[q] = p => ~InFlight(q)
    /\ kind' = [kind EXCEPT ![r] = k]
    /\ who' = [who EXCEPT ![r] = p]
    /\ day' = [day EXCEPT ![r] = today]

\* Mutant: the SETNX reply is not looked at.
TakeLockAnyway(r, k, p, l) ==
    locks' = locks \cup {<<k, p>>} /\ Goto(r, l)

\* The SETNX/EXPIRE transaction: l is where the handler goes with the lock.  It
\* is refused ("too fast") when the key is there; without a reply it answers
\* ErrRedis, and the key may or may not have been made.
TakeLock(r, k, p, l) ==
    \/ /\ <<k, p>> \notin locks
       /\ locks' = locks \cup {<<k, p>>} /\ Goto(r, l)
    \/ /\ <<k, p>> \in locks
       /\ Goto(r, "refused") /\ UNCHANGED locks
    \/ /\ Faults
       /\ locks' \in {locks, locks \cup {<<k, p>>}}
       /\ Goto(r, "done")

\* The reading MULTI fails: no effect, ErrRedis.
ReadFails(r) ==
    /\ Faults /\ pc[r] = "read"
    /\ Goto(r, "finish")
    /\ UNCHANGED <<locks, redis, dbs, ident, snap, ins, clock, ghost>>

\* Mutant: a handler that was given the lock returns without the DEL.
FinishKeepsLock(r) ==
    /\ pc[r] = "finish"
    /\ Goto(r, "done") /\ snap' = [snap EXCEPT ![r] = NoSnap]
    /\ UNCHANGED <<locks, redis, dbs, ident, ins, clock, ghost>>

\* The deferred DEL, whoever owns the key now, and then the reply.  The DEL's
\* own failure is ignored.  The handler's variables go with it.
Finish(r) ==
    /\ pc[r] = "finish"
    /\ \/ locks' = locks \ {<<kind[r], who[r]>>}
       \/ Faults /\ UNCHANGED locks
    /\ Goto(r, "done") /\ snap' = [snap EXCEPT ![r] = NoSnap]
    /\ UNCHANGED <<redis, dbs, ident, ins, clock, ghost>>

-----------------------------------------------------------------------------
(* adSeeHandle.                                                            *)

SeeStart(r, p) ==
    /\ "see" \in Kinds
    /\ Arrive(r, "see", p) /\ TakeLock(r, "see", p, "read")
    /\ UNCHANGED <<redis, dbs, snap, ins, clock, ghost>>

\* What is left of the quota, as the handlers read it: all of it when the key
\* has expired.
Left(p) == IF remain[p] = NoKey THEN MaxAdNum ELSE remain[p]

Reward(pays) == IF pays THEN SeeEarnings ELSE 0

\* The quota after an advertisement that pays or not.
Charged(p, pays) == IF pays THEN Left(p) - 1 ELSE Left(p)

\* What is stored for an advertisement that p saw on day d and that adds e.
SeeSnap(p, d, pays, left, e) ==
    [seen |-> adseenum[p] + 1, money |-> money[p] + e, total |-> total[p] + e,
     remain |-> left, dayearnings |-> dayearnings[d] + e, dayadnum |-> dayadnum[d] + 1,
     pays |-> pays, amount |-> 0, on |-> today]

\* Mutants: the sums are made outside the if; the total is left out of it; the
\* quota is not charged.
SeeValuesAlwaysEarn(p, d) ==
    LET pays == Left(p) > 0 IN SeeSnap(p, d, pays, Charged(p, pays), SeeEarnings)
SeeValuesForgetTotal(p, d) ==
    LET pays == Left(p) > 0
    IN [SeeSnap(p, d, pays, Charged(p, pays), Reward(pays)) EXCEPT !.total = total[p]]
SeeValuesUncharged(p, d) ==
    LET pays == Left(p) > 0 IN SeeSnap(p, d, pays, Left(p), Reward(pays))

\* An advertisement pays while some of the quota is left, and uses one of it.
SeeValues(p, d) ==
    LET pays == Left(p) > 0 IN SeeSnap(p, d, pays, Charged(p, pays), Reward(pays))

\* Mutant: the goroutine is started for every advertisement.
SeeReadAlwaysRecords(r) ==
    /\ pc[r] = "read" /\ kind[r] = "see"
    /\ snap' = [snap EXCEPT ![r] = SeeValues(who[r], day[r])]
    /\ ins' = [ins EXCEPT ![r] = TRUE]
    /\ Goto(r, "store")
    /\ UNCHANGED <<locks, redis, dbs, ident, clock, ghost>>

\* One MULTI reads everything; a paying advertisement starts the goroutine.
SeeRead(r) ==
    /\ pc[r] = "read" /\ kind[r] = "see"
    /\ LET v == SeeValues(who[r], day[r]) IN
       /\ snap' = [snap EXCEPT ![r] = v]
       /\ ins' = [ins EXCEPT ![r] = v.pays]
    /\ Goto(r, "store")
    /\ UNCHANGED <<locks, redis, dbs, ident, clock, ghost>>

\* SETEX with the TTL that TomorrowZeroRemain found some time after the day on
\* began: the whole seconds from then to midnight, counted from the moment of the
\* SETEX.  The key thus outlives the midnight of that day, by a second or by as
\* long as the call took.
SetRemain(r, n, on) ==
    /\ remain' = [remain EXCEPT ![who[r]] = n]
    /\ \E d \in on..today : until' = [until EXCEPT ![who[r]] = d]

\* The storing MULTI took effect in Redis.
SeeWrites(r) ==
    LET p == who[r] d == day[r] v == snap[r] e == Reward(v.pays)
    IN /\ adseenum' = [adseenum EXCEPT ![p] = v.seen]
       /\ money' = [money EXCEPT ![p] = v.money]
       /\ total' = [total EXCEPT ![p] = v.total]
       /\ SetRemain(r, v.remain, v.on)
       /\ dayearnings' = [dayearnings EXCEPT ![d] = v.dayearnings]
       /\ dayadnum' = [dayadnum EXCEPT ![d] = v.dayadnum]
       /\ seen' = [seen EXCEPT ![p] = @ + 1]
       /\ paid' = [paid EXCEPT ![p] = @ + e]
       /\ daySeen' = [daySeen EXCEPT ![d] = @ + 1]
       /\ dayPaid' = [dayPaid EXCEPT ![d] = @ + e] /\ allPaid' = allPaid + e
       /\ charged' = [charged EXCEPT ![p][v.on] = IF v.pays THEN @ + 1 ELSE @]
       /\ UNCHANGED adclicknum

\* Without a reply Redis may or may not have applied it; the handler is done
\* either way.
SeeStore(r) ==
    /\ pc[r] = "store" /\ kind[r] = "see"
    /\ \/ SeeWrites(r)
       \/ Faults /\ UNCHANGED <<redis, ghost>>
    /\ Goto(r, "finish")
    /\ UNCHANGED <<locks, dbs, ident, snap, ins, clock>>

\* The goroutine: whatever becomes of the handler, it inserts the Adrecord or
\* fails to.
Insert(r) ==
    /\ ins[r]
    /\ \/ adrecorded' = [adrecorded EXCEPT ![who[r]] = @ + SeeEarnings]
       \/ Faults /\ UNCHANGED adrecorded
    /\ ins' = [ins EXCEPT ![r] = FALSE]
    /\ UNCHANGED <<locks, redis, withdrawn, pc, ident, snap, clock, ghost>>

-----------------------------------------------------------------------------
(* adClickHandle.                                                          *)

ClickStart(r, p) ==
    /\ "click" \in Kinds
    /\ Arrive(r, "click", p) /\ TakeLock(r, "click", p, "store")
    /\ UNCHANGED <<redis, dbs, snap, ins, clock, ghost>>

ClickCounts(r) ==
    /\ adclicknum' = [adclicknum EXCEPT ![who[r]] = @ + 1]
    /\ UNCHANGED <<adseenum, money, total, remain, until, dayearnings, dayadnum>>

ClickStore(r) ==
    /\ pc[r] = "store" /\ kind[r] = "click"
    /\ ClickCounts(r) \/ (Faults /\ UNCHANGED redis)
    /\ Goto(r, "finish")
    /\ UNCHANGED <<locks, dbs, ident, snap, ins, clock, ghost>>

-----------------------------------------------------------------------------
(* getoutApplyHandle.  Amounts outside getoutMoneyConfig are answered before *)
(* anything is read or written.                                             *)

GetoutStart(r, p) ==
    /\ "getout" \in Kinds
    /\ Arrive(r, "getout", p) /\ TakeLock(r, "getout", p, "read")
    /\ \E a \in Amounts : snap' = [snap EXCEPT ![r].amount = a]
    /\ UNCHANGED <<redis, dbs, ins, clock, ghost>>

\* Mutant: the balance is not compared with the amount.
EnoughUnchecked(p, a) == TRUE

Enough(p, a) == money[p] >= a

GetoutRead(r) ==
    /\ pc[r] = "read" /\ kind[r] = "getout"
    /\ LET a == snap[r].amount p == who[r] IN
       \/ /\ Enough(p, a)
          /\ snap' = [snap EXCEPT ![r].money = money[p] - a]
          /\ Goto(r, "insert")
       \/ /\ ~Enough(p, a)
          /\ Goto(r, "finish") /\ UNCHANGED snap
    /\ UNCHANGED <<locks, redis, dbs, ident, ins, clock, ghost>>

\* The Getoutrecord is inserted before the money is taken.
GetoutInsert(r) ==
    /\ pc[r] = "insert" /\ kind[r] = "getout"
    /\ LET p == who[r]
           more == [withdrawn EXCEPT ![p] = @ + snap[r].amount]
       IN \/ withdrawn' = more /\ Goto(r, "store")
          \/ Faults /\ withdrawn' \in {withdrawn, more} /\ Goto(r, "finish")
    /\ UNCHANGED <<locks, redis, adrecorded, ident, snap, ins, clock, ghost>>

GetoutWrites(r) ==
    /\ money' = [money EXCEPT ![who[r]] = snap[r].money]
    /\ UNCHANGED <<adseenum, adclicknum, total, remain, until, dayearnings, dayadnum>>

GetoutStore(r) ==
    /\ pc[r] = "store" /\ kind[r] = "getout"
    /\ GetoutWrites(r) \/ (Faults /\ UNCHANGED redis)
    /\ Goto(r, "finish")
    /\ UNCHANGED <<locks, dbs, ident, snap, ins, clock, ghost>>

-----------------------------------------------------------------------------
(* entranceHandle: no lock.  It reads the wallet and, when the quota's key   *)
(* has expired, creates it.                                                 *)

EntranceRead(r, p) ==
    /\ "entrance" \in Kinds
    /\ Arrive(r, "entrance", p)
    /\ Goto(r, IF remain[p] = NoKey THEN "fill" ELSE "done")
    /\ UNCHANGED <<locks, redis, dbs, snap, ins, clock, ghost>>

EntranceFill(r) ==
    /\ pc[r] = "fill"
    /\ SetRemain(r, MaxAdNum, day[r]) \/ (Faults /\ UNCHANGED <<remain, until>>)
    /\ Goto(r, "done")
    /\ UNCHANGED <<locks, adseenum, adclicknum, money, total, dayearnings, dayadnum,
                   dbs, ident, snap, ins, clock, ghost>>

-----------------------------------------------------------------------------
(* The nightly job: cron starts it a second after midnight.                 *)

\* Mutant: the job adds the day that has just begun.
CronReadToday ==
    /\ cron = "idle" /\ ~fired
    /\ cronsum' = earnings + dayearnings[today]
    /\ cron' = "store" /\ fired' = TRUE
    /\ UNCHANGED <<locks, redis, dbs, pc, ident, snap, ins, today, earnings, ghost>>

\* A job that cannot read is over.
CronRead ==
    /\ cron = "idle" /\ ~fired
    /\ \/ cronsum' = earnings + dayearnings[today - 1] /\ cron' = "store"
       \/ Faults /\ UNCHANGED <<cronsum, cron>>
    /\ fired' = TRUE
    /\ UNCHANGED <<locks, redis, dbs, pc, ident, snap, ins, today, earnings, ghost>>

CronStore ==
    /\ cron = "store"
    /\ earnings' = cronsum \/ (Faults /\ UNCHANGED earnings)
    /\ cron' = "idle"
    /\ UNCHANGED <<locks, redis, dbs, pc, ident, snap, ins, today, cronsum, fired, ghost>>

\* handles/data: what the statistics page shows, in fen (the users online are
\* those of Accounts).
Page == [yestardayall |-> IF today = 0 THEN 0 ELSE dayearnings[today - 1],
         historyall   |-> earnings,
         todayadnum   |-> dayadnum[today],
         todayall     |-> dayearnings[today]]

-----------------------------------------------------------------------------
(* The environment.                                                        *)

\* A quota key of a day that is over, not expired yet.
Overdue(p) == remain[p] # NoKey /\ until[p] < today

QuotaExpires(p) ==
    /\ Overdue(p)
    /\ remain' = [remain EXCEPT ![p] = NoKey] /\ until' = [until EXCEPT ![p] = 0]
    /\ UNCHANGED <<locks, adseenum, adclicknum, money, total, dayearnings, dayadnum,
                   dbs, pc, ident, snap, ins, clock, ghost>>

\* Midnight.  Yesterday's job has run unless the server was down, and does not
\* take a day; nor does a quota key outlive its midnight by one.
NextDay ==
    /\ today < LastDay /\ cron = "idle" /\ (fired \/ Faults)
    /\ \A p \in Players : ~Overdue(p)
    /\ today' = today + 1 /\ fired' = FALSE
    /\ UNCHANGED <<locks, redis, dbs, pc, ident, snap, ins, cron, cronsum, earnings, ghost>>

\* A lock key expires: under a holder only if handlers may be slow.
Expire(k, p) ==
    /\ <<k, p>> \in locks
    /\ Timely => \A r \in Reqs : ~Holder(r, k, p)
    /\ locks' = locks \ {<<k, p>>}
    /\ UNCHANGED <<redis, dbs, pc, ident, snap, ins, clock, ghost>>

\* The server dies and starts again: requests, goroutines and the job are lost,
\* the lock keys are not.
Crash ==
    /\ Faults
    /\ pc' = [r \in Reqs |-> IF InFlight(r) THEN "done" ELSE pc[r]]
    /\ snap' = [r \in Reqs |-> NoSnap]
    /\ ins' = [r \in Reqs |-> FALSE]
    /\ cron' = "idle"
    /\ UNCHANGED <<locks, redis, dbs, ident, today, cronsum, fired, earnings, ghost>>

\* Every step of a request after its first.
Proceed(r) ==
    \/ ReadFails(r) \/ Finish(r)
    \/ SeeRead(r) \/ SeeStore(r) \/ Insert(r)
    \/ ClickStore(r)
    \/ GetoutRead(r) \/ GetoutInsert(r) \/ GetoutStore(r)
    \/ EntranceFill(r)

Next ==
    \/ \E r \in Reqs, p \in Players :
          SeeStart(r, p) \/ ClickStart(r, p) \/ GetoutStart(r, p) \/ EntranceRead(r, p)
    \/ \E r \in Reqs : Proceed(r)
    \/ CronRead \/ CronStore \/ NextDay \/ Crash
    \/ \E p \in Players : QuotaExpires(p)
    \/ \E k \in AllKinds, p \in Players : Expire(k, p)

Spec == Init /\ [][Next]_vars

-----------------------------------------------------------------------------
(* Properties.                                                             *)

Snaps == [seen : Nat, money : Nat, total : Nat, remain : 0..MaxAdNum,
          dayearnings : Nat, dayadnum : Nat, pays : BOOLEAN,
          amount : Amounts \cup {0}, on : Days]

ChargedOK == charged \in [Players -> [Days -> Nat]]

(* No balance is negative and no quota exceeds the configured one, in Redis *)
(* or in what a handler is about to write.                                  *)
TypeOK ==
    /\ locks \subseteq AllKinds \X Players
    /\ adseenum \in [Players -> Nat] /\ adclicknum \in [Players -> Nat]
    /\ money \in [Players -> Nat] /\ total \in [Players -> Nat]
    /\ remain \in [Players -> 0..MaxAdNum \cup {NoKey}] /\ until \in [Players -> Days]
    /\ dayearnings \in [Days -> Nat] /\ dayadnum \in [Days -> Nat] /\ earnings \in Nat
    /\ adrecorded \in [Players -> Nat] /\ withdrawn \in [Players -> Nat]
    /\ pc \in [Reqs -> Busy \cup Idle]
    /\ kind \in [Reqs -> AllKinds \cup {"none"}]
    /\ who \in [Reqs -> Players \cup {Nobody}]
    /\ day \in [Reqs -> Days] /\ snap \in [Reqs -> Snaps]
    /\ \A r \in Reqs : pc[r] # "new" => kind[r] # "none" /\ who[r] # Nobody
    /\ ins \in [Reqs -> BOOLEAN]
    /\ today \in Days /\ cron \in {"idle", "store"} /\ cronsum \in Nat
    /\ fired \in BOOLEAN /\ (~fired => today > 0)
    /\ seen \in [Players -> Nat] /\ paid \in [Players -> Nat]
    /\ daySeen \in [Days -> Nat] /\ dayPaid \in [Days -> Nat]
    /\ allPaid \in Nat /\ ChargedOK

(* However requests overlap, locks expire and calls fail, no counter and no *)
(* balance shows more than the advertisements that were really stored:      *)
(* updates may be lost, money is never made.                                *)
NeverOverReported ==
    /\ \A p \in Players : /\ adseenum[p] <= seen[p]
                          /\ money[p] <= paid[p]
                          /\ total[p] <= paid[p]
    /\ \A d \in Days : /\ dayadnum[d] <= daySeen[d]
                       /\ dayearnings[d] <= dayPaid[d]

(* Why: what a handler has read and not yet written back is bounded the     *)
(* same way, by the present truth and its own contribution.                 *)
SeeBounded(r) ==
    LET v == snap[r] p == who[r] d == day[r] e == Reward(v.pays)
    IN /\ v.seen <= seen[p] + 1
       /\ v.money <= paid[p] + e /\ v.total <= paid[p] + e
       /\ v.dayearnings <= dayPaid[d] + e /\ v.dayadnum <= daySeen[d] + 1
StoresBounded == \A r \in Reqs :
    /\ pc[r] = "store" /\ kind[r] = "see" => SeeBounded(r)
    /\ pc[r] \in {"insert", "store"} /\ kind[r] = "getout" => snap[r].money <= paid[who[r]]

(* The page never shows a history of more than the days that are over earned, *)
(* that is all days but today, although the job may run late, not at all, or *)
(* be cut in two, nor more of yesterday and today than all days together.    *)
HistoryNotOverstated ==
    /\ Page.historyall + dayPaid[today] <= allPaid
    /\ Page.yestardayall + Page.todayall <= allPaid
    /\ Page.todayadnum <= daySeen[today]

(* While no handler outlives its key, the counters that only the locked see *)
(* handler writes are exact, whatever else runs or fails.                   *)
SeesExact == \A p \in Players : /\ adseenum[p] = seen[p]
                               /\ total[p] = paid[p]

(* A balance never exceeds what was earned, even when a see and a           *)
(* withdrawal overwrite each other's balance.                               *)
BalanceWithinTotal == \A p \in Players : money[p] <= total[p]

(* Why: a holder's key is there and it is the only holder of it, so what it  *)
(* read is still true when it writes.                                       *)
LocksExclusive ==
    /\ \A r \in Reqs : pc[r] \in Holding => <<kind[r], who[r]>> \in locks
    /\ \A r, q \in Reqs :
          (/\ pc[r] \in Holding /\ pc[q] \in Holding
           /\ kind[r] = kind[q] /\ who[r] = who[q]) => r = q
StoresExact == \A r \in Reqs :
    LET v == snap[r] p == who[r]
    IN /\ pc[r] = "store" /\ kind[r] = "see" =>
             /\ v.seen = seen[p] + 1 /\ v.total = paid[p] + Reward(v.pays)
             /\ v.money <= v.total
       /\ pc[r] \in {"insert", "store"} /\ kind[r] = "getout" => v.money <= total[p]

(* No day's quota pays for more advertisements than the configured maximum  *)
(* ("beyond the maximum no earnings", money_ad_see.go:91), however the      *)
(* requests fall about midnight and however long yesterday's key stays: an  *)
(* advertisement uses the quota of the day on which the handler read Redis. *)
(* For a client that waits for each answer.                                 *)
QuotaRespected == \A p \in Players, d \in Days : charged[p][d] <= MaxAdNum

(* A client that waits for each answer never finds its own lock in the way. *)
NeverTooFast == \A r \in Reqs : pc[r] # "refused"

(* When nothing is running, the Adrecords add up to the lifetime total.     *)
Quiet == \A r \in Reqs : ~InFlight(r) /\ ~ins[r]
RecordsAgree == Quiet => adrecorded = total

(* When nothing is running, what a player owns and has withdrawn is no more *)
(* than the player has earned.                                              *)
NoOverdraft == Quiet => \A p \in Players : money[p] + withdrawn[p] <= total[p]

(* A client that waits for each answer has a Wallet: a withdrawal happens   *)
(* when its record is inserted, an advertisement is paid when Redis stores  *)
(* it.                                                                      *)
Withdrawing(r, p) == pc[r] = "store" /\ kind[r] = "getout" /\ who[r] = p
Balance == [p \in Players |->
              IF \E r \in Reqs : Withdrawing(r, p)
              THEN snap[CHOOSE r \in Reqs : Withdrawing(r, p)].money
              ELSE money[p]]
W == INSTANCE Wallet WITH balance <- Balance, earned <- total, taken <- withdrawn
ImplementsWallet == W!Spec
=============================================================================
