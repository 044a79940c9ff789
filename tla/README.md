# A verification of the wecalendar server

The program is the server of a WeChat mini-program, in Go: an HTTP server whose
handlers keep players' state in Redis and records in MySQL. This directory
holds TLA+ models of its handlers, TLC configurations that check them on small
instances, and theorems that TLAPS proves for instances of every size.
`PROJECT.json` maps every definition to the source lines it stands for, and
lists the runs, the theorems, the hazards and the disagreements found.

## 1. The system

| Part | State | Operations | Talks to |
|---|---|---|---|
| Request lock (each handler of `money`, and `setup_real_modify.go`) | one Redis key per handler and player, with a TTL | take (`SETNX`+`EXPIRE`), refuse, give back (`DEL`), expire | used by the two parts below |
| Wallet (`handles/money`) | balance, lifetime total, counters, daily quota in Redis; `Adrecord` and `Getoutrecord` in MySQL | see an ad, click an ad, withdraw, open the wallet | the lock; the day's earnings |
| Nightly job (`server/cron*.go`) | the network's earnings so far | add yesterday's earnings | reads what the wallet writes |
| Phone (`handles/phone`) | code tag, code, bound number (in two hashes), set of bound numbers | ask for a code, bind, change | SMS service |
| Real name (`handles/setup`) | name and identity number per player, set of numbers | register, once | the lock |
| Posts (`handles/divination`) | id counter, posts and record per day, ranking | publish, draw, show best, show ranking | account hashes |
| Accounts (`handles/auth`) | MySQL `Account`, account hashes | log in (WeChat, test) | WeChat; tokens |
| Pages (`handles/data`, `phone_entrance.go`, `setup_real_get.go`) | none | show what the wallet, phone and real name have stored | the parts above |
| Server (`server`, `servercfg`, `main.go`) | settings, the connection key in Redis, its row in MySQL, start time | read the configuration, claim both stores, serve, read the configuration again, stop; check a token | everything |
| Tables (`gamecfg`) | maps and arrays of structs | numbers with units, filling structs from CSV rows | - |

Handlers run concurrently, one goroutine per HTTP request. They share nothing
in memory that these models speak about: they interact through Redis and MySQL
only. Every handler has the same shape: one `MULTI..EXEC` that reads, a
computation, one `MULTI..EXEC` that writes what was computed. An `EXEC` is
atomic; **between the two anything may happen**, and this is where the
system is hard:

- another request of the same player (another handler, another lock) or of
  another player (no common lock) may read and write the same keys;
- the lock's key may expire, and its `DEL` does not look at who owns it;
- midnight may pass: some keys carry the date the request came on, some expire;
- the reply to an `EXEC` may be lost although it took effect, an insert may fail
  after or before another store, the process may end and start again.

What makes each part correct:

- *Lock*: it always frees itself; while handlers are faster than its TTL only one
  handler holds it and nobody deletes another's key.
- *Wallet*: a balance is never negative, never more than was earned, agrees with
  the records; no day's quota pays for more ads than configured; totals are
  never more than what happened.
- *Nightly job*: no day is counted twice, or before it is over.
- *Phone, real name*: only what was verified is bound; what is bound is exactly
  what the set of bound values says; one owner each; a registration is permanent.
- *Posts*: what is drawn exists; the ranking is of today; a post that was accepted
  stays.
- *Accounts*: one account per openid; a token leads to the account that logged in;
  Redis has the profile MySQL has; a token is accepted for its whole life, and
  not after a restart.
- *Server*: all servers of a Redis and a MySQL have one guid; the two stores are
  never claimed for two, wherever a start fails; the right server always comes up.
- *Tables*: numbers are ordered as what they stand for; a sum is below neither
  operand; a row's cells end in the fields they belong to; the map is the file.

`PROJECT.json` lists 40 hazards, each at its line, with the properties that are
aimed at it or the reason why none is.

## 2. The modules

| Module | Stands for |
|---|---|
| `Mutex` | what a lock promises: at most one process inside |
| `RedisLock` | the lock, one key, with time; implements `Mutex` |
| `RedisLock_proofs` | its theorems |
| `Wallet` | what the wallet promises: earn, withdraw no more than there is |
| `Money`, `MCMoney` | all handlers of `handles/money` that change state, and the nightly job |
| `Money_proofs` | theorems about every client, about timely locks, and about a client that waits for each answer |
| `Phone`, `MCPhone` | `handles/phone` |
| `Phone_proofs` | its theorems |
| `CardCode` | the check of identity numbers and names, `setup.go` |
| `RealName`, `MCRealName` | `setup_real_modify.go`; uses `CardCode` |
| `RealName_proofs` | its theorems |
| `Divination`, `MCDivination` | publishing and drawing posts, the ranking page |
| `Divination_proofs` | its theorems |
| `Accounts`, `MCAccounts` | both logins, tokens, restarts of the server |
| `Accounts_proofs` | its theorems |
| `Server` | the start and the end of servers on one Redis and one MySQL |
| `Server_proofs` | its theorems |
| `UNumber` | the arithmetic of `unumber.go`, as operators |
| `Calculator` | one number and the methods that change it |
| `Table` | what `gen.go` makes of a header, and how `parser.go` fills structs; uses `UNumber` |
| `GameCfg_proofs` | theorems about `Calculator` and `Table` |
| `MCGameCfg` | `Calculator` and `Table` for TLC |

**Granularity.** A step of a handler is what it does between two calls to Redis or
MySQL, and includes one of them. A request is where it is (`pc`) plus what it has
read (`snap`, `req`, `pick`): the stale copies are part of the state. What a
handler does before its first call (parsing, refusing a malformed request) and
after its last (building the answer) changes nothing and is left out.

**`RedisLock`** counts time in ticks. `Expire` runs even when `SetNX` found the
key, as in the code: a refused request refreshes the TTL. `LoseReply` is the
`EXEC` whose reply is lost, `Abandon` the crash or the lost `DEL`. `Stall` is the
longest time a handler takes; `Timely == Stall < LockTime` is the condition
under which the lock works.

**`Money`** models the lock by the presence of its key, and `Timely` by forbidding
`Expire` under a holder; this is what `RedisLock` proves of the detailed lock.
There is one action per call of each handler: `SeeStart`/`SeeRead`/`SeeStore`/
`Insert` (the goroutine)/`Finish` (the deferred `DEL`), and so on. `seen`, `paid`,
`daySeen`, `dayPaid`, `allPaid` and `charged` are ghosts: what Redis really applied.
`charged` counts paid advertisements by the day whose quota they used, which is that of
the moment the handler read Redis: a request may come before midnight, read before or
after it, and store after it. `until` is the day a quota key lives to the end of;
`TomorrowZeroRemain` counts whole seconds from a time cut down to a second, so a key
outlives that midnight by up to a second, and `QuotaExpires` comes some time after
`NextDay`, not with it. Money is in fen. A request runs once, so that ghosts and counters
are bounded by the number of requests; the proofs hold for infinitely many of them.

**`Phone` and `RealName`** have request slots that are used again, and any requests
may overlap. What that breaks is told apart by the ghost `raced`: the numbers that two
handlers between their read and their write both had to do with (`Clashes`), and the
texts of identity numbers that two requests carried at once. `HasBindedExact` and `OneOwner`
are about all other numbers; section 3 says what happens to these. `entrance` and `realGet` are
the pages that show what is stored; `Verified` and `Permanent` are stated about
what they show, as is `HistoryNotOverstated` about `Page`, the statistics page.
`RealName` uses `CardCode` on 18-byte sequences, so that the numbers of its runs
are checked as the code checks them. The code checks a number in capitals but looks it up
and stores it as it was sent; `OneOwner` is about the text, `OneIdentity` about the number
(`SameNumber`), and the second is violated. `Sum` is the code's loop over the 17 coefficients
written out, because it is to be proved about. `Mistyped` and `Swapped` say which numbers
count as errors: a number that is `Legal`, but for one digit, for the check character, or
for two neighbouring digits that changed places.

**`Divination`** keeps three ghosts: `raced` (posts whose publication overlapped
another), `straddled` (days that ended while one was running), and `mixed` (a post was
counted into the present ranking that came before midnight, or before the ranking of
the day before had expired). `idUntil` and `rankUntil` are the days the two keys live to
the end of, and beyond by up to a second, as in `Money`: `RankExpires` and `IDExpires` come
after `NextDay`. A publication counts the TTL between its arrival and its store (`Until`).
`RankStart` is the whole of `divinationRankHandle` but for the names it looks up: `ZRange`
is Redis's `ZRANGE`, `RankPage` the page that is built from it, with the invented
first place that a switch in Redis turns on.

**`Accounts`** has one action per call of a login to MySQL or Redis. What WeChat knows of its
user (name, picture, ...) is one value, a *version*; `Blank` stands for empty fields, which xorm
leaves out of an `UPDATE` (`Update`) while `HMSET` writes them (`Cache`): this is why
`CacheAgrees` allows `Blank`. `tables/account.go` declares no unique index (the tag of line 20
is the name of the column), so an insert always succeeds and overlapping first logins make two
accounts; `Calm` is the set of openids whose logins do not overlap. The account hash of a player
and the hash of an openid share a prefix: an id and an openid written alike are one key, and the
run has the openid 1 beside the id 1. `UserID` is the wrapper of `server/export.go` that decides
for whom a handler is called, or that it is not. Channel and union id are left out; nothing in
the repository reads them back. Time is in seconds for the tokens; `Restart` ends the process at
any moment and runs `main`.

**`Server`** has one action per call to Redis or MySQL that a start makes, so that
other processes act between `EXISTS` and `SET`, and between the claim of Redis and
that of MySQL. `Connect` stands for both connections and the creation of the
tables, which can be repeated. A call that fails ends the process (`log.Panic`,
`log.Fatal`), and `SetKey` and `InsertRow` may take effect all the same. What a
configuration file says is its guid, or none, and whether the database is named:
nothing else decides where a start ends. `passed` is a ghost, the guid a process
passed its checks with: `SIGUSR2` may replace the guid in memory later. `Serial`
says that servers with *different* guids do not start at one time.

**`UNumber`** computes with floats whose rounding is a parameter: `V` counts the smallest floats
(`Scale` of them are one, 2^149 for float32), `Round(p, q)` is the float the code gets for the
quotient, and every operation of the code rounds once, where the code does: once for each round
of a loop, twice in a sum. Of `Round` two things are assumed, as hypotheses of the theorems.
`Rounding`: its values are floats, it keeps floats, order and sign, and one and `UnitOffest` are
floats. `Limits`: only `UnitOffest` itself divided by `UnitOffest` rounds to one, and only one
times `UnitOffest` rounds to `UnitOffest`. Both hold of float32 and 1000. The floats next to
1000 are 2^-14 away from it, so their quotients by 1000 are 6.10 * 10^-8 away from one; only
what is less than 2.98 * 10^-8 below one or 5.96 * 10^-8 above it rounds to one. The floats next
to one are 2^-24 below and 2^-23 above it, so their products with 1000 are at least 5.96 * 10^-5
away from 1000; only what is less than 3.06 * 10^-5 away rounds to 1000. The run rounds to four
bits, to the nearest and to even (`MCRound`), and TLC checks both hypotheses for it on samples
(`MCRoundingAssumption`). `Tolerance` is the 0.000001 of `Equal`. A float64 that is read is
divided down without rounding until it is a float32 (`Floats`). `Power` is a recursive function
in the place of `^`, of which the provers know nothing. There are no infinities and no NaN:
`MulBy` stays below `MaxFloat`, `DivBy` does not divide by zero, and a unit beyond the last is
left out. `CalculatorAssumption` keeps float64s so small that dividing them down ends in a unit
there is. A number is not always normal: what is read, and a sum that ignores an operand, stays
as it is, and a huge value in a small unit is then ignored beside a small one in a large unit;
so `AddGrows` is about normal numbers.

**`Table`** takes a header of columns (array, element, field, type) for the three lines a CSV
file begins with. `First`/`Span` count the columns of an element as the generator does, from the
comments; `parseArrayElement` counts them off a row as the parser does. A cell is empty, a word,
a whole number, a number with a unit, or `yes`; a text that does not convert leaves the field
its zero, as `setField`'s error is not looked at. `Longer` says of which arrays the names begin
with other arrays' names: `Skipped` are those that Gen takes for columns of the array before
them (`gen.go:168`-`172`) and gives no field. A load ends with the file or, silently, at a row
that `csv.Reader` refuses (`gen.go:328`): the rows read are a beginning of the file, and
`LoadAgain` may come after any of them. `Regular` and `IdFirst` say what tables look like:
elements numbered from 1 in their order, each with the columns of the first; the id before the
arrays. The header of the run is one (`MCHeaderAssumption`), with an array that is skipped; the
theorems are about all of them.

## 3. The runs

Constants are in the `.cfg` files. Deadlock is checked in `lock` only: the other
models end when every request has been made (or, for `Phone` and `RealName`, may
come to rest when nothing is left to ask for; for `Server`, nobody has to start one;
for `MCGameCfg`, the calls and loads are used up).

| Run | Shows | Bounds |
|---|---|---|
| `lock` | a lock with TTL, exclusive, own key deleted only, implements `Mutex`, frees itself | 3 requests, LockTime 4, Stall 3 (the largest for which it works) |
| `money_any` | nothing is ever over-reported, with locks expiring under their holders | 3 sees, 2 players, 2 days, faults |
| `money_locked` | counters of the see handler exact, balances never negative or above the total | 3 requests of any of 4 kinds, 1 player, 2 days, faults |
| `money_client` | the quota of each day, no self-refusal, agreement with MySQL, implements `Wallet` | 5 requests one after the other, quota 2, amounts 1 and 2, 2 days |
| `money_overdraft` | *violated*: see and withdrawal overwrite each other's balance; when both are over it is too high | 3 requests, 1 player, no fault |
| `phone` | only verified numbers, exact set and one owner for numbers not raced for | 2 slots, 2 players, 3 numbers, 2 codes, faults |
| `realname` | permanent, exact, one owner of a text not raced for, no mistyped number | 3 slots, 2 players, 2 numbers and every single mistyped digit and neighbour swap of one, faults |
| `realname_case` | *violated*: a number with X and with x is registered for two players | 1 slot, 2 players, no fault |
| `accounts` | one account per calm openid, tokens of the right account, MySQL and Redis agree, shared hash keys do no harm, tokens live exactly as long as they should | 3 logins, 2 openids (one of them an id), 2 profiles, 4 seconds, 2 starts of the server, faults |
| `divination` | drawn posts exist, the ranking is of today unless midnight mixed two, posts lost only to races | 4 requests, 2 players, 2 days, faults |
| `server` | serving servers have the guid of both stores, claims agree and stay, the right server comes up | 3 processes, 2 guids, configurations with and without guid and database, faults |
| `gamecfg` | order of numbers, sums below neither operand, no subtraction below zero; cells in their fields, the map is the file | units of 3 instead of 1000, 7 of them, floats of 4 bits; 11 operands, 6 calls; 10 columns, 3 rows, 2 loads |

Why the bounds are enough: every hazard here is a race of two requests, at most with a third
that sees the result (the owner of a stolen lock, the reader of a lost update, the publisher of
the next id), around one midnight. Three or four requests and two days contain each of them, and
every property has a mutant, a plausible bug of the code, that the run finds. Two players are
used where the state is shared between players, one where it is not. In `server` a third process
starts while one serves and one has failed. In `gamecfg` the last unit is far enough from the
first for every branch: sums ignore operands from four units apart, comparisons decide by units
from two; the operands lie on the limits of units and beyond them (27 raw, which is not normal)
or between two floats, and two awards of two fields are the least that shift.

**Fairness** is assumed in `server` and in `lock`. In `server` a process that starts goes
on (`WF` of `Step`): `main` runs straight on, waits for nobody and has no loop before it
serves; every call has a reply or an error. Nobody has to start, stop or fail. In `lock`
time passes (`Tick`) and a handler that runs
comes to its end (`Release`): its calls have replies or errors and it has no loop.
Nothing makes a client ask, and no fault is ever required. `FreesItself` has the
further hypothesis that refused requests stop (`Quiet`), because each one gives an
orphaned key another `LockTime`; without it the lock need not free itself.

**Disagreements found.** Two are runs, quoted in `PROJECT.json`: the lost update between
see and withdrawal (`money_overdraft`) and the identity number in two spellings
(`realname_case`). The next eight are stated in the modules too: TLC finds each violated when the
property named is the only one of the run named, the first with `OneAtATime`, the last with
`Serial` set to `FALSE`.

- `money_client`, `QuotaRespected`: opening the wallet decides that there is no quota key
  (`money_entrance.go:40`) and writes the full quota (`:62`) in two transactions; a see that
  charges the quota between them is forgotten, and more than the maximum is paid
  ("超出最大广告收益次数，不做收益计算", `money_ad_see.go:91`).
- `phone`, `NoSharedNumber`: two players whose requests for one number overlap both find it
  free (`phone_bind.go:53`) and both bind it (`:114`), where `:71` would refuse
  ("手机号码已被绑定", `gerrors.go:70`).
- `phone`, `NoLostNumber`: two overlapping requests of one player bind two numbers; the first
  stays in the set of bound numbers ("已绑定的手机号", `rconst/phone_table.go:14`) and is nobody's.
- `divination`, `RankEndsAtMidnight`: a publication in the second after midnight adds to
  yesterday's ranking, which has not expired yet (`divination_public.go:97`), and gives the
  sum a TTL to the next midnight (`:98`; "到明天凌晨剩余过期时间", `gtime.go:5`): all of yesterday's
  places stay for a day. In the same way a see in that second renews yesterday's quota
  (`money_ad_see.go:124`), exhausted or not, for the new day.
- `divination`, `FirstPlacesFirst`: the ranking is to show the first four ("只拉取前四名",
  `divination_rank.go:26`); `ZRANGE 0 4` (`:43`) shows the five with the fewest posts, the fewest first.
- `gamecfg`, `SignsDecide`: the tests for opposite signs ("异号", `unumber.go:135`, `139`) compare a
  number with itself and never hold (`:136`, `140`, and `172`, `176` in `Gt`), so 1 is called smaller than -2C.
- `gamecfg`, `EqualIsEqual`: `normalize` leaves 1000 raw and 1A as they are (`unumber.go:258`), neither is
  above the other, and `Equal` ("判断是否相等", `:120`) calls them different.
- `server`, `Startable`: two servers with different guids that start together on empty stores
  can leave Redis claimed for one and MySQL for the other, and then no server can start.

These were read off the source:

- `servercfg/server.json:5` calls the guid unique ("必须确保唯一"), while the checks make
  all servers of one store share it. `mqIP`, `mqAccount` and `mqPassword` stand under
  `mq` there and are read from the top level.
- `unumber.go:384` says that more than two units apart ("超过2级") is ignored; the code adds up
  to three. A sum that ignores an operand returns the other as it is, not normalized.
- A product's unit can exceed `LZ`, and `String` then indexes beyond its table.
- The quota is charged to the day on which a see reads Redis, its earnings to the day on which
  it came (`money_ad_see.go:26`): counted by the latter, a day may pay for one more
  advertisement than the maximum for each see that midnight finds before its read.
- An array whose name begins with that of the array before it gets no field
  (`gen.go:172` compares without the underscore), and its cells are dropped silently.
- A malformed row ends a load without a word (`gen.go:328`).
- An element of an array whose first cell is empty takes its fields from one column
  too far right (`parser.go:50`, `131`); `Aligned` excepts such rows.
- A second load empties the map but not the array (`gen.go:325`, `334`).
- `Limit(end, start)` in the record lists takes a count first (`money_ad_record.go:60`).
- The best post of yesterday is looked up among today's (`divination_best.go:60`).

## 4. What is proved

All with the constants arbitrary (any set of requests and players, any amounts).

*RedisLock.* `TypeCorrect` without any hypothesis: the key has a TTL in every
state, as `LockTx` always yields `LockTime`. With `Timely`: `HolderSafe`,
`DelSafe` and `LockImplementsMutex`. The invariant is `HolderOwnsKey`: for a
holder, `ttl + age >= LockTime` and `age <= Stall`. It is inductive with `TypeOK`:
a tick moves a second from `ttl` to `age`, a refused request can only raise
`ttl`, and as `ttl > 0` follows, nobody else can acquire.

*Money.* `NoOverReport` (no hypothesis): every counter is bounded by its ghost.
This is not inductive, because a stored value comes from a copy; the
strengthening `StoresBounded` bounds each copy by the ghost plus the request's own
contribution, and ghosts only grow. `SeesAreExact` and `BalanceIsEarned` (with
`Timely`): `LocksExclusive` (a holder's key is there, and it is its only holder)
makes a copy still true when it is written (`StoresExact`). `TypeCorrect` contains
that balances are naturals, which rests on the comparison in `getoutApplyHandle`.
`HistoryIsEarned` (no hypothesis): the page's figure for the past is a counter the job adds
yesterday's total to. `Past`: what was paid on any two days is part of what was ever paid
(`allPaid`), and nothing is paid in the future. `Booked`: the history leaves room for today's
pay, and before the job has run for yesterday's; what a run carries between its two
transactions leaves room for today's, so midnight, a crash and a run that is missed keep
it. A day counted twice, or before its end, would take that room. The ghost `allPaid`
stands for the sum over all days, which `Booked` does without.

*Money, one request at a time* (`OneAtATime`, no faults).
`WaitingNeverTooFast`: a lock's key is there only while its request runs.
`QuotaAlwaysRespected`: as long as a quota key is of today, what is left of it and what was
charged to today make up at most the maximum; a key of a day that is over, or none, leaves nothing
charged to today (`Room`). What a see is about to store respects the day it was read on
(`QuotaStored`), and if that day is over by then, the store charges that day. Requests may
straddle midnight at any point, and a key may outlive it.
`MoneyImplementsWallet`: a copy that a request holds is the value in Redis (`AllFresh`), because
no other request runs; so a store adds what it pays, a withdrawal takes what there is, and
every other step is a stutter of `Wallet`. Locks play no part: `Timely` is not needed.
`RecordsAlwaysAgree`: the `Adrecord`s stored and those the goroutines have still to insert
(`Pending`) make up the total and, between the start of the goroutine and the store of its
handler, the reward that is about to enter it (`Ahead`). What is pending is counted by a
cardinality, so that this needs no induction.

*Phone.* `AlwaysVerified` has no hypothesis: codes are only stored with the number they
were made for, and what a request holds has passed `Matches`. `BoundNumbersExact` and
`NumberHasOneOwner` have none either: `Apart` says that of two handlers about to store, a number
they both have to do with is in `raced`, so a number that is not raced for is still free, and an
old one still the player's, when it is stored (`Book`). The ghost is not a hypothesis
but part of the state; it grows only in the step in which a handler overlaps another.

*RealName.* `RegistrationPermanent` and `NumbersInUse` (with `Timely`), from
`LocksExclusive` and `StoresFirst` (a request about to store belongs to a player
without a number). `NumberHasOneOwner` has no hypothesis and needs no lock: from
`CleanInv`, whose parts are, for texts not in `raced`, that players' numbers are in the set,
that a request about to store has a number that is not, and that two requests under
way have two numbers. `OnlyGenuine` has no hypothesis but that bytes are bytes: 11 divides
neither a coefficient nor the difference of neighbouring ones, nor the difference of two
digits, so the remainder of a mistyped number is another (`SumChanged`), and the
characters of the 11 remainders differ, so that its check character is another too.

*Divination.* `DrawsAreFound`: there is a post at every id of a record (`Posted`), and a
request that has drawn an id finds it still in the record of its day (`Drawn`),
because nothing is ever taken out of a day's keys; both hold with any overlap, at
midnight and after a crash. `RankingIsTodays`: the ranking has a time to live when
it is not empty (`Timed`), so it expires before the day after is over; until then `mixed` is set by
any post that does not belong to the day the ranking is of. `PostsAreKept`:
after a publication that raced with none, whoever still publishes began no earlier and,
on the same day, has or will read a higher id (`Later`, `Above`); so a post is overwritten
only where midnight passed over a publication (`Over`).
`RecordsStayExact`: the ids of a day's record are the ids of its posts, as one transaction
writes both.

*Accounts.* `TokensHaveOwners` and `HashesStayApart` need no hypothesis about overlaps:
a request's row keeps its openid (`Owned`), rows are only appended, and a hash that
an id and an openid share gets its openid field from the player alone.
`OneAccountEach` and `CacheFollowsTable` are about `Calm` openids: at most one request
of such an openid is under way (`CalmInv`), so what it found is what it updates.
`SessionsEndAtRestart` and `FreshTokensAccepted`: tokens are ordered by the starts of the
server (`Ordered`), the clock never goes back.

*Server*, with `Serial`. `AlwaysAgree`, `AlwaysStartable` and `ClaimsAlwaysKept` rest on one
invariant: a process that found no key starts beside servers of its own guid only, so
what it stores is either the first claim or the claim that is there; and a row is
inserted by processes that have passed the check of Redis. Faults are allowed
everywhere.

*Table*, for every header that is `Regular`, any rows and any number of loads.
`RowsAreAligned`: the invariant is `Tracked`, at every column of a row: an array's slice holds
the elements that are there and lie before that column, each made of its own cells. An
element of a well-formed row is met at its first column (`AtFirst`); the parser takes
as many columns as the generator counted for the first element, and these are its own
(`FirstElement`, `OwnCells`), so it ends at the column behind the element. The generator
counts from comments that begin with a 1, those of elements 10 to 19 too: `Regular` has to
exclude such an element right behind the first. `MapIsTheFile` also needs `IdFirst`: in a row
that is not well-formed the elements of an array shift, and an id column right behind the
array could be swallowed. Then each row's struct has its id when it is stored (`IdRead`)
and the map is what the rows so far say (`MapHas`).

*Calculator*, for every `UnitOffest` from 2 and every `LZ` from 3, any texts and any number of
calls. The library's induction theorems take an operator; its
`NatLessThanWellFounded` and `WFMin` do not, and from them `LeastNumber` and
`LowerFirst` (a set that has each element whose lower ones it has) are proved for sets.
`Recursion` then shows that a function that calls itself on arguments of a lower rank
exists, without which nothing follows from the definitions of `Power`, `raise`, `lower`,
`divided` and `multiplied`; a loop whose rounds keep a set ends in it (`LoopEnds`).
`UnitExists` has the hypothesis `Rounding`, the other three `Limits` too (section 2).
What `normalize` yields is `Normal`: within the limits of its unit, which are floats, so
rounding does not cross them. `NormalStays`: it is not changed again.
`ComparisonsAreExact`: two or more units apart the larger unit decides (`UnitsDecide`).
Neighbours are compared at one unit, and the value brought to it is rounded: at worst to the limit
of the unit, and `Limits` says that only the limit is (`NeighboursCompare`). Negative
numbers are compared as their mirror images (`NegatedNormal`). `SumsGrow`: the sum is rounded after
the smaller operand was added to the larger, so it is not below it; being above the smaller one
needs the comparison of units again (`SumAtLeast`). `SubStaysPositive`: the comparison
rounds as the subtraction does, or is exact (`SubSign`).

**Only model-checked**, and why: `FreesItself` and `RightServerServes` (liveness).

## 5. What is not modelled

- Answers and log lines. Also the data race between `adSeeHandle` and its
  goroutine on `err` and `httpRsp`, which can only affect the answer or end the
  process (`Crash`).
- The record lists, which are queries of what `Money` inserts, and the best post, whose
  id a tool outside this repository writes.
- `mq.go`: `mqStartup` is commented out (`http.go:43`) and nothing publishes, so no state of
  it is reachable. The Lua script of `redis.go` is created and never called.
- Generated code (`pb`), the text of generated files (`gen.go`), examples, the listener.
  `gamecfg`'s loader is not called by the server: `main` only runs its generator.
- A test login with an empty account name, which xorm turns into a query without a
  condition: `Accounts` assumes that openids are not empty.
- The nightly job never gives its connection back (`cron.go:16`); the pool has no maximum.
- Configuration fields in Redis (`maxadnum`, `seeearnings`) are constant; the code
  reads them on every request and nothing in the repository writes them.
- Infinities and NaN; conversions to types that no generated column has
  (`toUint`), and `float` columns, which go through `strconv` alone.

## 6. Plan

The order in which the project was built:

1. `Mutex`, `RedisLock` and its proofs: everything else relies on it.
2. `Wallet`, `Money` and its proofs: the core of the program.
3. `Phone` and its proofs: the unlocked pattern.
4. `CardCode`, `RealName` and its proofs: the locked pattern across players.
5. `Divination` and its proofs: the unlocked pattern around midnight.
6. `Accounts` and its proofs: logins over two stores, tokens, restarts.
7. `Server` and its proofs: claims over two stores.
8. `UNumber`, `Calculator`, `Table`: the algorithms of `gamecfg`.

What could follow: `SeeReply`, the reply race of `adSeeHandle` as a module of its own; the
paging of the record lists, once it is decided what `start` and `end` are to mean.
