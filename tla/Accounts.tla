------------------------------ MODULE Accounts ------------------------------
(***************************************************************************)
(* handles/auth and server/gen_tk.go: logins and sessions.  A login finds   *)
(* or creates the account of an openid in MySQL, copies it into Redis and   *)
(* answers with a token; there is no lock, and tables/account.go declares   *)
(* no unique index.  Both kinds of account hash live under one prefix, so   *)
(* that the hash of a test account called "2" is the hash of player 2: an   *)
(* id and the same number as an openid are one key here.                    *)
(*                                                                         *)
(* A profile is a version of what WeChat knows of its owner, or Blank (the  *)
(* zero values of Go).  Openids are not empty.                              *)
(***************************************************************************)
EXTENDS Integers, Sequences

CONSTANTS Reqs, OpenIDs, Nobody,
          WxIDs,       \* the openids of WeChat; test logins may use any
          Versions, Blank,  \* of profiles; Blank is the empty one
          TestVersion, \* of the profile of a new test account
          Calm,        \* the openids whose logins do not overlap
          TokenLife,   \* myTimeExpired, in seconds
          LastSecond,  \* bound on the time modelled
          MaxBoots,    \* bound on the starts of the server
          Faults       \* calls to Redis and MySQL may fail

ASSUME AccountsAssumption ==
    /\ Nobody \notin OpenIDs /\ WxIDs \subseteq OpenIDs /\ Calm \subseteq OpenIDs
    /\ Blank \notin Versions /\ TestVersion \in Versions
    /\ TokenLife \in Nat /\ LastSecond \in Nat /\ MaxBoots \in Nat \ {0}
    /\ Faults \in BOOLEAN

VARIABLES
    account,   \* the table Account; the id of a row is its index
    hash,      \* wecalendar:acc:<id or openid>
    users,     \* wecalendar:users
    pc, kind, openid, version, row,  \* the requests; row is 0 or an id
    now, boot, StartTime,
    tokens,    \* the tokens that were answered
    fresh      \* ghost: openids whose latest login succeeded

store == <<account, hash, users>>
reqs  == <<pc, kind, openid, version, row>>
clock == <<now, boot, StartTime>>
vars  == <<store, reqs, clock, tokens, fresh>>

Profile == Versions \cup {Blank}
InFlight(r) == pc[r] \in {"get", "put", "cache"}

Init ==
    /\ account = <<>> /\ users = {} /\ hash = [k \in {} |-> k]
    /\ pc = [r \in Reqs |-> "new"] /\ kind = [r \in Reqs |-> "wx"]
    /\ openid = [r \in Reqs |-> Nobody] /\ version = [r \in Reqs |-> Blank]
    /\ row = [r \in Reqs |-> 0]
    /\ now = 0 /\ boot = 1 /\ StartTime = 0 /\ tokens = {} /\ fresh = {}

Goto(r, l) == pc' = [pc EXCEPT ![r] = l]

-----------------------------------------------------------------------------
(* wxLoginHandle and testLoginHandle.  What WeChat answers is the input v;  *)
(* it may also answer nothing, and the request is then as if never made.    *)

LoginStart(r, k, o, v) ==
    /\ pc[r] = "new"
    /\ o \in Calm => \A q \in Reqs : InFlight(q) => openid[q] # o
    /\ Goto(r, "get")
    /\ kind' = [kind EXCEPT ![r] = k] /\ openid' = [openid EXCEPT ![r] = o]
    /\ version' = [version EXCEPT ![r] = v]
    /\ fresh' = fresh \ {o}
    /\ UNCHANGED <<store, row, clock, tokens>>

Rows(o) == {i \in DOMAIN account : account[i].openid = o}

\* db.Get: any row of the openid, 0 when there is none.  A test login has no
\* profile of its own: it keeps the one it finds.
LoginGet(r) ==
    /\ pc[r] = "get"
    /\ LET found == Rows(openid[r]) IN
       \/ \E i \in IF found = {} THEN {0} ELSE found :
            /\ row' = [row EXCEPT ![r] = i]
            /\ version' = IF kind[r] = "test" /\ i # 0
                          THEN [version EXCEPT ![r] = account[i].version]
                          ELSE version
            /\ Goto(r, "put")
       \/ Faults /\ Goto(r, "done") /\ UNCHANGED <<row, version>>
    /\ UNCHANGED <<store, kind, openid, clock, tokens, fresh>>

\* Mutant: the row is updated without a condition.
UpdateAll(o, v) == [i \in DOMAIN account |->
    IF v # Blank THEN [account[i] EXCEPT !.openid = o, !.version = v]
    ELSE [account[i] EXCEPT !.openid = o]]

\* Where("open_id = ?").Update: every row of the openid; xorm leaves out the
\* fields that have their zero value.
Update(o, v) == [i \in DOMAIN account |->
    IF account[i].openid = o /\ v # Blank THEN [account[i] EXCEPT !.version = v]
    ELSE account[i]]

\* Mutant: an account that was found is inserted again.
PutAgain(r) ==
    /\ account' = Append(account, [openid |-> openid[r], version |-> version[r]])
    /\ row' = [row EXCEPT ![r] = Len(account) + 1]

\* Update what was found, or insert and learn the new id.
Put(r) ==
    \/ /\ row[r] # 0
       /\ account' = Update(openid[r], version[r]) /\ UNCHANGED row
    \/ /\ row[r] = 0
       /\ account' = Append(account, [openid |-> openid[r], version |-> version[r]])
       /\ row' = [row EXCEPT ![r] = Len(account) + 1]

LoginPut(r) ==
    /\ pc[r] = "put"
    /\ \/ Put(r) /\ Goto(r, "cache")
       \/ Faults /\ Put(r) /\ Goto(r, "done")
       \/ Faults /\ Goto(r, "done") /\ UNCHANGED <<account, row>>
    /\ UNCHANGED <<hash, users, kind, openid, version, clock, tokens, fresh>>

-----------------------------------------------------------------------------
Unset == [id |-> 0, openid |-> Nobody, version |-> Blank]
Hash(h, k) == IF k \in DOMAIN h THEN h[k] ELSE Unset

\* HMSET of the fields a record names.
HMSet(h, k, fields) ==
    [j \in DOMAIN h \cup {k} |->
        IF j # k THEN h[j]
        ELSE [f \in DOMAIN Unset |->
                 IF f \in DOMAIN fields THEN fields[f] ELSE Hash(h, k)[f]]]

Player(r) == [id |-> row[r], openid |-> openid[r], version |-> version[r]]

\* Mutant: the hash of the openid gets all the fields.
CacheFull(r) == hash' = HMSet(HMSet(hash, row[r], Player(r)), openid[r], Player(r))

\* Mutant: only a new account's profile is copied into its hash.
CacheOnce(r) ==
    hash' = HMSet(HMSet(hash, row[r], IF row[r] \in DOMAIN hash /\ hash[row[r]].id # 0
                                      THEN [id |-> row[r]] ELSE Player(r)),
                  openid[r], [id |-> row[r]])

Cache(r) == hash' = HMSet(HMSet(hash, row[r], Player(r)), openid[r], [id |-> row[r]])

\* Mutant: the token is made of the time the server started.
GenTKStart(r) == [id |-> row[r], time |-> StartTime, openid |-> openid[r], boot |-> boot]

\* GenTK; openid and boot are not in the token, they say where it comes from.
GenTK(r) == [id |-> row[r], time |-> now, openid |-> openid[r], boot |-> boot]

LoginCache(r) ==
    /\ pc[r] = "cache"
    /\ Goto(r, "done")
    /\ \/ /\ Cache(r) /\ users' = users \cup {row[r]}
          /\ tokens' = tokens \cup {GenTK(r)} /\ fresh' = fresh \cup {openid[r]}
       \/ /\ Faults
          /\ \/ Cache(r) /\ users' = users \cup {row[r]}
             \/ UNCHANGED <<hash, users>>
          /\ UNCHANGED <<tokens, fresh>>
    /\ UNCHANGED <<account, kind, openid, version, row, clock>>

-----------------------------------------------------------------------------
(* The server.  Accepts is what parseTK says of a token.                    *)

\* Mutant: a token of the second the server started in is refused.
AcceptsLater(t) == now - t.time <= TokenLife /\ t.time > StartTime

Accepts(t) == now - t.time <= TokenLife /\ t.time >= StartTime

\* newReqContext and the handler's wrapper: the player a request with the header
\* t acts for, NoUser when it is answered with the token's error and the handler
\* is not called.  (The logins are registered without this.)
NoUser == -1
UserID(t) == IF Accepts(t) THEN t.id ELSE NoUser

Tick ==
    /\ now < LastSecond /\ now' = now + 1
    /\ UNCHANGED <<store, reqs, boot, StartTime, tokens, fresh>>

\* Mutant: the start time is left at its initial value.
StampNothing == UNCHANGED StartTime

StampStart == StartTime' = now

\* The process ends, at any moment, and main starts again.
Restart ==
    /\ boot < MaxBoots /\ boot' = boot + 1
    /\ StampStart
    /\ pc' = [r \in Reqs |-> IF InFlight(r) THEN "done" ELSE pc[r]]
    /\ UNCHANGED <<store, kind, openid, version, row, now, tokens, fresh>>

Next ==
    \/ \E r \in Reqs, o \in WxIDs, v \in Profile : LoginStart(r, "wx", o, v)
    \/ \E r \in Reqs, o \in OpenIDs : LoginStart(r, "test", o, TestVersion)
    \/ \E r \in Reqs : LoginGet(r) \/ LoginPut(r) \/ LoginCache(r)
    \/ Tick \/ Restart

Spec == Init /\ [][Next]_vars

-----------------------------------------------------------------------------
Rec == [id : Nat, openid : OpenIDs \cup {Nobody}, version : Profile]

TypeOK ==
    /\ account \in Seq([openid : OpenIDs, version : Profile])
    /\ DOMAIN hash \subseteq Nat \cup OpenIDs /\ hash \in [DOMAIN hash -> Rec]
    /\ users \subseteq Nat
    /\ pc \in [Reqs -> {"new", "get", "put", "cache", "done"}]
    /\ kind \in [Reqs -> {"wx", "test"}]
    /\ openid \in [Reqs -> OpenIDs \cup {Nobody}]
    /\ version \in [Reqs -> Profile] /\ row \in [Reqs -> Nat]
    /\ now \in Nat /\ boot \in Nat /\ StartTime \in Nat
    /\ tokens \subseteq [id : Nat, time : Nat, openid : OpenIDs, boot : Nat]
    /\ fresh \subseteq OpenIDs

(* An openid has one account (tables/account.go:20 calls it the unique mark  *)
(* of all channels) if its logins do not overlap.  With overlapping first    *)
(* logins the code makes two.                                               *)
OneAccount == \A i, j \in DOMAIN account :
    account[i].openid = account[j].openid /\ account[i].openid \in Calm => i = j

(* Whoever has a token plays the account of the openid that logged in, is    *)
(* counted among the users and has a profile in Redis, whatever other logins *)
(* run and whichever calls fail.                                            *)
TokenOwner == \A t \in tokens :
    /\ t.id \in DOMAIN account /\ account[t.id].openid = t.openid
    /\ t.id \in users /\ Hash(hash, t.id).openid = t.openid

(* The hash of a player says the openid of that player, although a test      *)
(* account may be called like the player's id and then shares its hash: only *)
(* its id (and union id) may be another's, and nothing reads these.          *)
HashesApart == \A i \in users : Hash(hash, i).openid = account[i].openid

(* When the latest login of an openid succeeded, Redis (the names of records *)
(* and rankings) has the profile that MySQL has, or the empty one: xorm does *)
(* not store empty fields.  Logins that overlap may leave two versions.      *)
CacheAgrees == \A o \in Calm \cap fresh : \A i \in Rows(o) :
    Hash(hash, i).version \in {account[i].version, Blank}

(* The server never logs a client out by itself: with a token it made since  *)
(* it started, requests act for the player for the whole of the token's life. *)
FreshAccepted == \A t \in tokens :
    t.boot = boot /\ now - t.time <= TokenLife => UserID(t) = t.id

(* After a restart everybody must log in again (gen_tk.go:100), except those  *)
(* who logged in in the very second of the start: the clock is in seconds.   *)
RestartLogsOut == \A t \in tokens :
    t.boot # boot /\ UserID(t) # NoUser => t.time = StartTime
=============================================================================
