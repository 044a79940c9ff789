--------------------------- MODULE Accounts_proofs ---------------------------
(* Theorems about Accounts, for every number of requests, openids, seconds   *)
(* and starts of the server.                                                *)
EXTENDS Accounts, SequenceTheorems, TLAPS

-----------------------------------------------------------------------------
(* What HMSET leaves in the hashes.                                         *)

Hashes(h) == DOMAIN h \subseteq Nat \cup OpenIDs /\ h \in [DOMAIN h -> Rec]

\* A full profile replaces what the key had, and no other key.
LEMMA SetPlayer ==
    ASSUME NEW h, Hashes(h), NEW k \in Nat \cup OpenIDs,
           NEW i \in Nat, NEW o \in OpenIDs, NEW v \in Profile
    PROVE  LET new == HMSet(h, k, [id |-> i, openid |-> o, version |-> v])
           IN /\ Hashes(new) /\ k \in DOMAIN new
              /\ Hash(new, k) = [id |-> i, openid |-> o, version |-> v]
              /\ \A j : j # k => Hash(new, j) = Hash(h, j)
<1> DEFINE p == [id |-> i, openid |-> o, version |-> v]
           new == HMSet(h, k, p)
<1>1. DOMAIN new = DOMAIN h \cup {k}
  BY DEF HMSet
<1>2. new[k] = p
  <2>1. new[k] = [f \in DOMAIN Unset |-> IF f \in DOMAIN p THEN p[f] ELSE Hash(h, k)[f]]
    BY <1>1 DEF HMSet
  <2>2. DOMAIN Unset = DOMAIN p
    BY DEF Unset
  <2> QED
    BY <2>1, <2>2
<1>3. \A j \in DOMAIN h : j # k => new[j] = h[j]
  BY <1>1 DEF HMSet
<1>4. p \in Rec
  BY DEF Rec
<1>5. \A j \in DOMAIN new : new[j] \in Rec
  BY <1>1, <1>2, <1>3, <1>4 DEF Hashes
<1>6. new \in [DOMAIN new -> Rec]
  BY <1>5 DEF HMSet
<1>7. Hashes(new)
  BY <1>1, <1>6 DEF Hashes
<1> HIDE DEF new, p
<1>8. \A j : j # k => Hash(new, j) = Hash(h, j)
  BY <1>1, <1>3 DEF Hash
<1>9. Hash(new, k) = p
  BY <1>1, <1>2 DEF Hash
<1> QED
  BY <1>1, <1>7, <1>8, <1>9 DEF new, p

\* Setting the id alone keeps the rest of every key.
LEMMA SetID ==
    ASSUME NEW h, Hashes(h), NEW k \in Nat \cup OpenIDs, NEW i \in Nat
    PROVE  LET new == HMSet(h, k, [id |-> i])
           IN /\ Hashes(new)
              /\ \A j : /\ Hash(new, j).openid = Hash(h, j).openid
                        /\ Hash(new, j).version = Hash(h, j).version
<1> DEFINE new == HMSet(h, k, [id |-> i])
<1>1. DOMAIN new = DOMAIN h \cup {k}
  BY DEF HMSet
<1>2. Hash(h, k) \in [id : Nat, openid : OpenIDs \cup {Nobody}, version : Profile]
  BY DEF Hashes, Rec, Hash, Unset, Profile
<1>3. new[k] = [id |-> i, openid |-> Hash(h, k).openid, version |-> Hash(h, k).version]
  <2>1. new[k] = [f \in DOMAIN Unset |->
                     IF f \in DOMAIN [id |-> i] THEN [id |-> i][f] ELSE Hash(h, k)[f]]
    BY <1>1 DEF HMSet
  <2>2. DOMAIN Unset = {"id", "openid", "version"} /\ DOMAIN [id |-> i] = {"id"}
    BY DEF Unset
  <2> QED
    BY <2>1, <2>2
<1>4. \A j \in DOMAIN h : j # k => new[j] = h[j]
  BY <1>1 DEF HMSet
<1>5. new[k] \in Rec
  BY <1>2, <1>3 DEF Rec
<1>6. \A j \in DOMAIN new : new[j] \in Rec
  BY <1>1, <1>4, <1>5 DEF Hashes
<1>7. new \in [DOMAIN new -> Rec]
  BY <1>6 DEF HMSet
<1>8. Hashes(new)
  BY <1>1, <1>7 DEF Hashes
<1> HIDE DEF new
<1>9. Hash(new, k) = new[k] /\ \A j : j # k => Hash(new, j) = Hash(h, j)
  BY <1>1, <1>4 DEF Hash
<1>10. ASSUME NEW j
       PROVE  /\ Hash(new, j).openid = Hash(h, j).openid
              /\ Hash(new, j).version = Hash(h, j).version
  <2>1. CASE j = k
    BY <2>1, <1>3, <1>9
  <2>2. CASE j # k
    BY <2>2, <1>9
  <2> QED
    BY <2>1, <2>2
<1> QED
  BY <1>8, <1>10 DEF new

-----------------------------------------------------------------------------
(* What updating or inserting an account leaves in the table.                *)

AccountRow == [openid : OpenIDs, version : Profile]

\* An update keeps every openid and the rows of other openids.
LEMMA UpdateKeeps ==
    ASSUME account \in Seq(AccountRow), NEW o \in OpenIDs, NEW v \in Profile
    PROVE  LET new == Update(o, v)
           IN /\ new \in Seq(AccountRow) /\ DOMAIN new = DOMAIN account
              /\ \A i \in DOMAIN account :
                    /\ new[i].openid = account[i].openid
                    /\ account[i].openid # o => new[i] = account[i]
                    /\ account[i].openid = o => v \in {new[i].version, Blank}
<1> DEFINE new == Update(o, v)
<1>1. Len(account) \in Nat /\ DOMAIN account = 1..Len(account)
      /\ \A i \in DOMAIN account : account[i] \in AccountRow
  BY LenProperties, ElementOfSeq
<1>2. \A i \in DOMAIN account :
         new[i] = IF account[i].openid = o /\ v # Blank
                  THEN [openid |-> account[i].openid, version |-> v] ELSE account[i]
  BY <1>1 DEF Update, AccountRow
<1>3. new = [i \in DOMAIN account |-> new[i]] /\ DOMAIN new = DOMAIN account
  BY DEF Update
<1> HIDE DEF new
<1>4. ASSUME NEW i \in DOMAIN account PROVE new[i] \in AccountRow
  <2>1. CASE account[i].openid = o /\ v # Blank
    <3>1. new[i] = [openid |-> o, version |-> v]
      BY <1>2, <2>1
    <3>2. [openid |-> o, version |-> v] \in AccountRow
      BY DEF AccountRow
    <3> QED
      BY <3>1, <3>2
  <2>2. CASE ~(account[i].openid = o /\ v # Blank)
    BY <1>1, <1>2, <2>2
  <2> QED
    BY <2>1, <2>2
<1>5. new \in [1..Len(account) -> AccountRow]
  BY <1>1, <1>3, <1>4
<1>6. new \in Seq(AccountRow)
  BY <1>1, <1>5, SeqDef
<1> QED
  BY <1>1, <1>2, <1>3, <1>6 DEF new

\* After Put the request's row is one of its openid, and no account changed hands.
LEMMA PutRow ==
    ASSUME TypeOK, NEW r \in Reqs, openid[r] \in OpenIDs, Put(r),
           row[r] # 0 => row[r] \in DOMAIN account /\ account[row[r]].openid = openid[r]
    PROVE  /\ account' \in Seq(AccountRow) /\ row' \in [Reqs -> Nat]
           /\ DOMAIN account \subseteq DOMAIN account'
           /\ \A i \in DOMAIN account :
                 /\ account'[i].openid = account[i].openid
                 /\ account[i].openid # openid[r] => account'[i] = account[i]
           /\ row'[r] # 0 /\ row'[r] \in DOMAIN account'
           /\ account'[row'[r]].openid = openid[r]
           /\ version[r] \in {account'[row'[r]].version, Blank}
           /\ \A i \in DOMAIN account' : i \notin DOMAIN account => row[r] = 0 /\ i = row'[r]
           /\ \A q \in Reqs : q # r => row'[q] = row[q]
<1>1. account \in Seq(AccountRow) /\ version[r] \in Profile /\ row \in [Reqs -> Nat]
  BY DEF TypeOK, AccountRow
<1>2. CASE row[r] # 0
  <2>1. account' = Update(openid[r], version[r]) /\ row' = row
    BY <1>2 DEF Put
  <2> QED
    BY <1>1, <1>2, <2>1, UpdateKeeps
<1>3. CASE row[r] = 0
  <2> DEFINE e == [openid |-> openid[r], version |-> version[r]]
  <2>1. account' = Append(account, e) /\ row' = [row EXCEPT ![r] = Len(account) + 1]
    BY <1>3 DEF Put
  <2>2. e \in AccountRow
    BY <1>1 DEF AccountRow
  <2>3. /\ account' \in Seq(AccountRow) /\ Len(account') = Len(account) + 1
        /\ \A i \in 1..Len(account) : account'[i] = account[i]
        /\ account'[Len(account) + 1] = e
    BY <1>1, <2>1, <2>2, AppendProperties
  <2>4. /\ Len(account) \in Nat /\ DOMAIN account = 1..Len(account)
        /\ DOMAIN account' = 1..Len(account')
    BY <1>1, <2>3, LenProperties
  <2>5. row'[r] = Len(account) + 1 /\ row' \in [Reqs -> Nat]
        /\ \A q \in Reqs : q # r => row'[q] = row[q]
    BY <1>1, <2>1, <2>4
  <2> QED
    BY <1>3, <2>3, <2>4, <2>5
<1> QED
  BY <1>2, <1>3

-----------------------------------------------------------------------------
(* Types.                                                                   *)

LEMMA TypeInit == Init => TypeOK
<1> SUFFICES ASSUME Init PROVE TypeOK
  OBVIOUS
<1>1. account \in Seq([openid : OpenIDs, version : Profile])
  BY EmptySeq DEF Init
<1> QED
  BY <1>1, AccountsAssumption DEF Init, TypeOK, Profile, Rec

\* What a login in the middle of its work needs: its openid is one, and the row it
\* found or made is an account of that openid.
RowsKnown == \A r \in Reqs : InFlight(r) =>
    /\ openid[r] \in OpenIDs
    /\ pc[r] = "cache" => row[r] # 0
    /\ row[r] # 0 /\ pc[r] # "get" =>
          row[r] \in DOMAIN account /\ account[row[r]].openid = openid[r]

\* The effect of LoginCache on Redis.
LEMMA CacheSets ==
    ASSUME TypeOK, NEW r \in Reqs, openid[r] \in OpenIDs, Cache(r)
    PROVE  /\ Hashes(hash')
           /\ Hash(hash', row[r]).openid = openid[r]
           /\ Hash(hash', row[r]).version = version[r]
           /\ \A j : j # row[r] =>
                 /\ Hash(hash', j).openid = Hash(hash, j).openid
                 /\ Hash(hash', j).version = Hash(hash, j).version
<1>1. row[r] \in Nat /\ version[r] \in Profile /\ Hashes(hash)
  BY DEF TypeOK, Hashes
<1> DEFINE p == [id |-> row[r], openid |-> openid[r], version |-> version[r]]
           mid == HMSet(hash, row[r], p)
<1>2. hash' = HMSet(mid, openid[r], [id |-> row[r]])
  BY DEF Cache, Player
<1>3. /\ Hashes(mid) /\ Hash(mid, row[r]) = p
      /\ \A j : j # row[r] => Hash(mid, j) = Hash(hash, j)
  BY <1>1, SetPlayer
<1>4. p.openid = openid[r] /\ p.version = version[r]
  OBVIOUS
<1> HIDE DEF mid, p
<1>5. /\ Hashes(hash')
      /\ \A j : /\ Hash(hash', j).openid = Hash(mid, j).openid
                /\ Hash(hash', j).version = Hash(mid, j).version
  BY <1>1, <1>2, <1>3, SetID
<1> QED
  BY <1>3, <1>4, <1>5

LEMMA StartStep ==
    ASSUME TypeOK, RowsKnown, NEW r \in Reqs, NEW k \in {"wx", "test"},
           NEW o \in OpenIDs, NEW v \in Profile, LoginStart(r, k, o, v)
    PROVE  TypeOK' /\ RowsKnown'
<1>1. TypeOK'
  BY DEF TypeOK, LoginStart, Goto, store, clock
<1>2. RowsKnown'
  BY DEF TypeOK, RowsKnown, LoginStart, Goto, InFlight, store
<1> QED
  BY <1>1, <1>2

LEMMA GetStep ==
    ASSUME TypeOK, RowsKnown, NEW r \in Reqs, LoginGet(r)
    PROVE  TypeOK' /\ RowsKnown'
<1>1. DOMAIN account \subseteq Nat /\ \A i \in DOMAIN account : account[i].version \in Profile
  <2>1. /\ DOMAIN account = 1..Len(account) /\ Len(account) \in Nat
        /\ \A i \in 1..Len(account) : account[i] \in AccountRow
    BY LenProperties, ElementOfSeq DEF TypeOK, AccountRow
  <2> QED
    BY <2>1 DEF AccountRow
<1>2. \A i \in Rows(openid[r]) : i \in DOMAIN account /\ account[i].openid = openid[r]
  BY DEF Rows
<1>3. UNCHANGED <<store, kind, openid, clock, tokens, fresh>>
  BY DEF LoginGet
<1>4. CASE Goto(r, "done") /\ UNCHANGED <<row, version>>
  BY <1>3, <1>4 DEF TypeOK, RowsKnown, Goto, InFlight, store, clock
<1>5. CASE \E i \in IF Rows(openid[r]) = {} THEN {0} ELSE Rows(openid[r]) :
             /\ row' = [row EXCEPT ![r] = i]
             /\ version' = IF kind[r] = "test" /\ i # 0
                           THEN [version EXCEPT ![r] = account[i].version] ELSE version
             /\ Goto(r, "put")
  <2>1. PICK i \in IF Rows(openid[r]) = {} THEN {0} ELSE Rows(openid[r]) :
             /\ row' = [row EXCEPT ![r] = i]
             /\ version' = IF kind[r] = "test" /\ i # 0
                           THEN [version EXCEPT ![r] = account[i].version] ELSE version
             /\ Goto(r, "put")
    BY <1>5
  <2>2. i \in Nat /\ (i # 0 => i \in DOMAIN account /\ account[i].openid = openid[r])
    BY <1>1, <1>2
  <2>3. version' \in [Reqs -> Profile]
    BY <1>1, <2>1, <2>2 DEF TypeOK
  <2>4. TypeOK'
    BY <1>3, <2>1, <2>2, <2>3 DEF TypeOK, Goto, store, clock
  <2>5. RowsKnown'
    BY <1>3, <2>1, <2>2 DEF TypeOK, RowsKnown, LoginGet, Goto, InFlight, store
  <2> QED
    BY <2>4, <2>5
<1> QED
  BY <1>4, <1>5 DEF LoginGet

LEMMA PutStep ==
    ASSUME TypeOK, RowsKnown, NEW r \in Reqs, LoginPut(r)
    PROVE  TypeOK' /\ RowsKnown'
<1>1. /\ pc[r] = "put" /\ openid[r] \in OpenIDs
      /\ row[r] # 0 => row[r] \in DOMAIN account /\ account[row[r]].openid = openid[r]
  BY DEF LoginPut, RowsKnown, InFlight
<1>2. UNCHANGED <<hash, users, kind, openid, version, clock, tokens, fresh>>
  BY DEF LoginPut
<1>3. CASE Put(r) /\ (Goto(r, "cache") \/ Goto(r, "done"))
  <2>1. account' \in Seq(AccountRow) /\ row' \in [Reqs -> Nat]
    BY <1>1, <1>3, PutRow
  <2>2. TypeOK'
    BY <1>2, <1>3, <2>1 DEF TypeOK, Goto, AccountRow, clock
  <2>3. RowsKnown'
    <3> SUFFICES ASSUME NEW q \in Reqs, InFlight(q)'
                 PROVE  /\ openid'[q] \in OpenIDs
                        /\ pc'[q] = "cache" => row'[q] # 0
                        /\ row'[q] # 0 /\ pc'[q] # "get" =>
                              /\ row'[q] \in DOMAIN account'
                              /\ account'[row'[q]].openid = openid'[q]
      BY DEF RowsKnown
    <3>1. CASE q = r
      BY <1>1, <1>2, <1>3, <3>1, PutRow
    <3>2. CASE q # r
      <4>1. pc'[q] = pc[q] /\ row'[q] = row[q] /\ InFlight(q)
        BY <1>1, <1>3, <3>2, PutRow DEF TypeOK, Goto, InFlight
      <4>2. /\ DOMAIN account \subseteq DOMAIN account'
            /\ \A i \in DOMAIN account : account'[i].openid = account[i].openid
        BY <1>1, <1>3, PutRow
      <4> QED
        BY <1>2, <4>1, <4>2 DEF RowsKnown
    <3> QED
      BY <3>1, <3>2
  <2> QED
    BY <2>2, <2>3
<1>4. CASE Goto(r, "done") /\ UNCHANGED <<account, row>>
  BY <1>2, <1>4 DEF TypeOK, RowsKnown, Goto, InFlight, clock
<1> QED
  BY <1>3, <1>4 DEF LoginPut

LEMMA CacheStep ==
    ASSUME TypeOK, RowsKnown, NEW r \in Reqs, LoginCache(r)
    PROVE  TypeOK' /\ RowsKnown'
<1>1. pc[r] = "cache" /\ openid[r] \in OpenIDs
  BY DEF LoginCache, RowsKnown, InFlight
<1>2. /\ UNCHANGED <<account, kind, openid, version, row, clock>> /\ Goto(r, "done")
      /\ (Cache(r) /\ users' = users \cup {row[r]}) \/ UNCHANGED <<hash, users>>
      /\ \/ UNCHANGED <<tokens, fresh>>
         \/ tokens' = tokens \cup {GenTK(r)} /\ fresh' = fresh \cup {openid[r]}
  BY DEF LoginCache
<1>3. Hashes(hash') /\ users' \subseteq Nat
  <2>1. CASE Cache(r) /\ users' = users \cup {row[r]}
    BY <1>1, <2>1, CacheSets DEF TypeOK
  <2>2. CASE UNCHANGED <<hash, users>>
    BY <2>2 DEF TypeOK, Hashes
  <2> QED
    BY <1>2, <2>1, <2>2
<1>4. GenTK(r) \in [id : Nat, time : Nat, openid : OpenIDs, boot : Nat]
  BY <1>1 DEF TypeOK, GenTK
<1>5. /\ tokens' \subseteq [id : Nat, time : Nat, openid : OpenIDs, boot : Nat]
      /\ fresh' \subseteq OpenIDs
  BY <1>1, <1>2, <1>4 DEF TypeOK
<1>6. TypeOK'
  BY <1>2, <1>3, <1>5 DEF TypeOK, Hashes, Goto, clock
<1>7. RowsKnown'
  BY <1>2 DEF TypeOK, RowsKnown, Goto, InFlight
<1> QED
  BY <1>6, <1>7

LEMMA TypeStep == TypeOK /\ RowsKnown /\ [Next]_vars => TypeOK' /\ RowsKnown'
<1> SUFFICES ASSUME TypeOK, RowsKnown, [Next]_vars PROVE TypeOK' /\ RowsKnown'
  OBVIOUS
<1>1. ASSUME NEW r \in Reqs, NEW o \in WxIDs, NEW v \in Profile, LoginStart(r, "wx", o, v)
      PROVE  TypeOK' /\ RowsKnown'
  BY <1>1, StartStep, AccountsAssumption
<1>2. ASSUME NEW r \in Reqs, NEW o \in OpenIDs, LoginStart(r, "test", o, TestVersion)
      PROVE  TypeOK' /\ RowsKnown'
  BY <1>2, StartStep, AccountsAssumption DEF Profile
<1>3. ASSUME NEW r \in Reqs, LoginGet(r) \/ LoginPut(r) \/ LoginCache(r)
      PROVE  TypeOK' /\ RowsKnown'
  BY <1>3, GetStep, PutStep, CacheStep
<1>4. CASE Tick
  BY <1>4 DEF TypeOK, RowsKnown, Tick, InFlight, store, reqs
<1>5. CASE Restart
  BY <1>5 DEF TypeOK, RowsKnown, Restart, StampStart, InFlight, store
<1>6. CASE UNCHANGED vars
  BY <1>6 DEF TypeOK, RowsKnown, InFlight, vars, store, reqs, clock
<1> QED
  BY <1>1, <1>2, <1>3, <1>4, <1>5, <1>6 DEF Next

(* The variables of Accounts have their types.                              *)
THEOREM TypeCorrect == Spec => []TypeOK
<1>1. Init => TypeOK /\ RowsKnown
  BY TypeInit DEF Init, RowsKnown, InFlight
<1> QED
  BY <1>1, TypeStep, PTL DEF Spec

-----------------------------------------------------------------------------
(* Whose hash and whose token it is.                                        *)

Owned == users \subseteq DOMAIN account /\ HashesApart /\ TokenOwner

\* No step but LoginCache touches Redis or a token, and no account changes hands.
LEMMA OwnedStays ==
    ASSUME Owned, UNCHANGED <<hash, users, tokens>>,
           DOMAIN account \subseteq DOMAIN account',
           \A i \in DOMAIN account : account'[i].openid = account[i].openid
    PROVE  Owned'
BY DEF Owned, HashesApart, TokenOwner, Hash

LEMMA OwnedCache ==
    ASSUME TypeOK, RowsKnown, Owned, NEW r \in Reqs, LoginCache(r)
    PROVE  Owned'
<1>1. /\ openid[r] \in OpenIDs /\ row[r] \in DOMAIN account
      /\ account[row[r]].openid = openid[r]
  BY DEF LoginCache, RowsKnown, InFlight
<1>2. CASE Cache(r) /\ users' = users \cup {row[r]}
  <2>1. /\ Hash(hash', row[r]).openid = openid[r]
        /\ \A j : j # row[r] => Hash(hash', j).openid = Hash(hash, j).openid
    BY <1>1, <1>2, CacheSets
  <2>2. account' = account /\ tokens' \subseteq tokens \cup {GenTK(r)}
    BY DEF LoginCache
  <2>3. users' \subseteq DOMAIN account' /\ HashesApart'
    BY <1>1, <1>2, <2>1, <2>2 DEF Owned, HashesApart
  <2>4. TokenOwner'
    <3> SUFFICES ASSUME NEW t \in tokens'
                 PROVE  /\ t.id \in DOMAIN account /\ account[t.id].openid = t.openid
                        /\ t.id \in users' /\ Hash(hash', t.id).openid = t.openid
      BY <2>2 DEF TokenOwner
    <3>1. CASE t \in tokens
      BY <1>1, <1>2, <2>1, <3>1 DEF Owned, TokenOwner
    <3>2. CASE t = GenTK(r)
      BY <1>1, <1>2, <2>1, <3>2 DEF GenTK
    <3> QED
      BY <2>2, <3>1, <3>2
  <2> QED
    BY <2>3, <2>4 DEF Owned
<1>3. CASE UNCHANGED <<hash, users, tokens>>
  BY <1>3, OwnedStays DEF LoginCache
<1> QED
  BY <1>2, <1>3 DEF LoginCache

LEMMA OwnedStep == TypeOK /\ RowsKnown /\ Owned /\ [Next]_vars => Owned'
<1> SUFFICES ASSUME TypeOK, RowsKnown, Owned, [Next]_vars PROVE Owned'
  OBVIOUS
<1>1. ASSUME NEW r \in Reqs, LoginPut(r) PROVE Owned'
  <2>1. /\ openid[r] \in OpenIDs
        /\ row[r] # 0 => row[r] \in DOMAIN account /\ account[row[r]].openid = openid[r]
    BY <1>1 DEF LoginPut, RowsKnown, InFlight
  <2>2. CASE Put(r)
    BY <1>1, <2>1, <2>2, PutRow, OwnedStays DEF LoginPut
  <2>3. CASE UNCHANGED account
    BY <1>1, <2>3, OwnedStays DEF LoginPut
  <2> QED
    BY <1>1, <2>2, <2>3 DEF LoginPut
<1>2. ASSUME NEW r \in Reqs, LoginCache(r) PROVE Owned'
  BY <1>2, OwnedCache
<1>3. ASSUME UNCHANGED <<store, tokens>> PROVE Owned'
  BY <1>3, OwnedStays DEF store
<1> QED
  BY <1>1, <1>2, <1>3 DEF Next, LoginStart, LoginGet, Tick, Restart, vars

(* Whoever has a token plays the account of the openid that logged in, is    *)
(* a known user and has a profile, however logins overlap and fail.          *)
THEOREM TokensHaveOwners == Spec => []TokenOwner
<1>1. Init => TypeOK /\ RowsKnown /\ Owned
  BY TypeInit DEF Init, RowsKnown, InFlight, Owned, HashesApart, TokenOwner
<1>2. Owned => TokenOwner
  BY DEF Owned
<1> QED
  BY <1>1, <1>2, TypeStep, OwnedStep, PTL DEF Spec

(* A player's hash says that player's openid, whatever the accounts of other *)
(* players are called.                                                      *)
THEOREM HashesStayApart == Spec => []HashesApart
<1>1. Init => TypeOK /\ RowsKnown /\ Owned
  BY TypeInit DEF Init, RowsKnown, InFlight, Owned, HashesApart, TokenOwner
<1>2. Owned => HashesApart
  BY DEF Owned
<1> QED
  BY <1>1, <1>2, TypeStep, OwnedStep, PTL DEF Spec

-----------------------------------------------------------------------------
(* Tokens and restarts.                                                     *)

\* The server started before now, and every token of an earlier start is no
\* younger than the present one.
Ordered ==
    /\ StartTime <= now
    /\ \A t \in tokens : /\ t.time <= now
                         /\ t.boot = boot => StartTime <= t.time
                         /\ t.boot # boot => t.time <= StartTime /\ t.boot < boot

LEMMA OrderedStep == TypeOK /\ RowsKnown /\ Ordered /\ [Next]_vars => Ordered'
<1> SUFFICES ASSUME TypeOK, RowsKnown, Ordered, [Next]_vars PROVE Ordered'
  OBVIOUS
<1> USE DEF Ordered
<1>1. now \in Nat /\ boot \in Nat /\ StartTime \in Nat
      /\ \A t \in tokens : t.time \in Nat /\ t.boot \in Nat
  BY DEF TypeOK
<1>2. ASSUME NEW r \in Reqs, LoginCache(r) PROVE Ordered'
  <2>1. UNCHANGED clock /\ tokens' \subseteq tokens \cup {GenTK(r)}
    BY <1>2 DEF LoginCache
  <2>2. GenTK(r).time = now /\ GenTK(r).boot = boot
    BY DEF GenTK
  <2> QED
    BY <1>1, <2>1, <2>2 DEF clock
<1>3. CASE Tick
  BY <1>1, <1>3 DEF Tick
<1>4. CASE Restart
  BY <1>1, <1>4 DEF Restart, StampStart
<1>5. CASE UNCHANGED <<clock, tokens>>
  BY <1>5 DEF clock
<1> QED
  BY <1>2, <1>3, <1>4, <1>5 DEF Next, LoginStart, LoginGet, LoginPut, vars

LEMMA OrderedAlways == Spec => [](TypeOK /\ Ordered)
<1>1. Init => TypeOK /\ RowsKnown /\ Ordered
  BY TypeInit DEF Init, RowsKnown, InFlight, Ordered
<1> QED
  BY <1>1, TypeStep, OrderedStep, PTL DEF Spec

(* A token of an earlier start is accepted only if it was made in the second *)
(* of the present start.                                                    *)
THEOREM SessionsEndAtRestart == Spec => []RestartLogsOut
<1>1. TypeOK /\ Ordered => RestartLogsOut
  BY DEF TypeOK, Ordered, RestartLogsOut, UserID, Accepts
<1> QED
  BY <1>1, OrderedAlways, PTL

(* A token of the present start is accepted for the whole of its life.      *)
THEOREM FreshTokensAccepted == Spec => []FreshAccepted
<1>1. TypeOK /\ Ordered => FreshAccepted
  BY DEF TypeOK, Ordered, FreshAccepted, UserID, Accepts
<1> QED
  BY <1>1, OrderedAlways, PTL

-----------------------------------------------------------------------------
(* Openids whose logins do not overlap.                                     *)

\* A Calm login is alone, not counted as fresh, and inserts only what is not there.
Alone == \A r \in Reqs : InFlight(r) /\ openid[r] \in Calm =>
    /\ \A q \in Reqs : InFlight(q) /\ openid[q] = openid[r] => q = r
    /\ openid[r] \notin fresh
    /\ pc[r] = "put" /\ row[r] = 0 => Rows(openid[r]) = {}
    /\ pc[r] = "cache" => version[r] \in {account[row[r]].version, Blank}

CalmInv == OneAccount /\ Alone /\ CacheAgrees

LEMMA CalmStart ==
    ASSUME TypeOK, RowsKnown, CalmInv, NEW r \in Reqs, NEW k, NEW o \in OpenIDs, NEW v,
           LoginStart(r, k, o, v)
    PROVE  CalmInv'
<1>1. OneAccount' /\ CacheAgrees'
  BY DEF CalmInv, OneAccount, CacheAgrees, LoginStart, store, Rows, Hash
<1>2. Alone'
  BY DEF CalmInv, Alone, TypeOK, LoginStart, Goto, InFlight, store, Rows
<1> QED
  BY <1>1, <1>2 DEF CalmInv

LEMMA CalmGet ==
    ASSUME TypeOK, RowsKnown, CalmInv, NEW r \in Reqs, LoginGet(r)
    PROVE  CalmInv'
<1>1. OneAccount' /\ CacheAgrees'
  BY DEF CalmInv, OneAccount, CacheAgrees, LoginGet, store, Rows, Hash
<1>2. /\ pc[r] = "get" /\ (Goto(r, "put") \/ Goto(r, "done"))
      /\ \A q \in Reqs : q # r => row'[q] = row[q] /\ version'[q] = version[q]
      /\ UNCHANGED <<store, openid, fresh>>
  BY DEF LoginGet, TypeOK
<1>3. pc'[r] = "put" /\ row'[r] = 0 => Rows(openid[r]) = {}
  <2>1. 0 \notin Rows(openid[r])
    BY LenProperties DEF Rows, TypeOK
  <2> QED
    BY <2>1 DEF LoginGet, Goto, TypeOK
<1>4. Alone'
  <2>1. \A q \in Reqs : InFlight(q)' => InFlight(q)
    BY <1>2 DEF TypeOK, Goto, InFlight
  <2>2. \A q \in Reqs \ {r} : pc'[q] = pc[q] /\ row'[q] = row[q] /\ version'[q] = version[q]
    BY <1>2 DEF TypeOK, Goto
  <2>3. pc'[r] \in {"put", "done"}
    BY <1>2 DEF TypeOK, Goto
  <2>4. UNCHANGED <<account, openid, fresh>>
    BY <1>2 DEF store
  <2> SUFFICES ASSUME NEW q \in Reqs, InFlight(q)', openid'[q] \in Calm
               PROVE  /\ \A p \in Reqs : InFlight(p)' /\ openid'[p] = openid'[q] => p = q
                      /\ openid'[q] \notin fresh'
                      /\ pc'[q] = "put" /\ row'[q] = 0 => Rows(openid[q])' = {}
                      /\ pc'[q] = "cache" => version'[q] \in {account'[row'[q]].version, Blank}
    BY DEF Alone
  <2>5. InFlight(q) /\ openid[q] \in Calm
    BY <2>1, <2>4
  <2>6. \A p \in Reqs : InFlight(p)' /\ openid'[p] = openid'[q] => p = q
    BY <2>1, <2>4, <2>5 DEF CalmInv, Alone
  <2>7. openid'[q] \notin fresh'
    BY <2>4, <2>5 DEF CalmInv, Alone
  <2>8. Rows(openid[q])' = Rows(openid[q])
    BY <2>4 DEF Rows
  <2>9. CASE q = r
    BY <1>3, <2>3, <2>6, <2>7, <2>8, <2>9
  <2>10. CASE q # r
    BY <2>2, <2>4, <2>5, <2>6, <2>7, <2>8, <2>10 DEF CalmInv, Alone
  <2> QED
    BY <2>9, <2>10
<1> QED
  BY <1>1, <1>4 DEF CalmInv

LEMMA CalmPut ==
    ASSUME TypeOK, RowsKnown, CalmInv, NEW r \in Reqs, LoginPut(r)
    PROVE  CalmInv'
<1>1. /\ pc[r] = "put" /\ openid[r] \in OpenIDs
      /\ row[r] # 0 => row[r] \in DOMAIN account /\ account[row[r]].openid = openid[r]
      /\ UNCHANGED <<hash, openid, version, fresh>>
      /\ Goto(r, "cache") \/ Goto(r, "done")
  BY DEF LoginPut, RowsKnown, InFlight
<1>2. CASE Put(r)
  <2> DEFINE o == openid[r]
  <2>1. \A i \in DOMAIN account : /\ i \in DOMAIN account'
                                  /\ account'[i].openid = account[i].openid
                                  /\ account[i].openid # o => account'[i] = account[i]
    BY <1>1, <1>2, PutRow
  <2>2. \A i \in DOMAIN account' : i \notin DOMAIN account =>
           row[r] = 0 /\ i = row'[r] /\ account'[i].openid = o
    BY <1>1, <1>2, PutRow
  <2>3. /\ row'[r] \in DOMAIN account' /\ account'[row'[r]].openid = o
        /\ version[r] \in {account'[row'[r]].version, Blank}
        /\ \A q \in Reqs : q # r => row'[q] = row[q]
    BY <1>1, <1>2, PutRow
  <2>4. o \in Calm /\ row[r] = 0 => \A i \in DOMAIN account : account[i].openid # o
    BY <1>1 DEF CalmInv, Alone, InFlight, Rows
  <2>5. OneAccount'
    <3> SUFFICES ASSUME NEW i \in DOMAIN account', NEW j \in DOMAIN account',
                        account'[i].openid = account'[j].openid, account'[i].openid \in Calm
                 PROVE  i = j
      BY DEF OneAccount
    <3>1. CASE i \in DOMAIN account /\ j \in DOMAIN account
      BY <2>1, <3>1 DEF CalmInv, OneAccount
    <3>2. CASE i \notin DOMAIN account \/ j \notin DOMAIN account
      BY <2>1, <2>2, <2>4, <3>2
    <3> QED
      BY <3>1, <3>2
  <2>6. \A p \in OpenIDs : p # o => Rows(p)' = Rows(p)
    BY <2>1, <2>2 DEF Rows
  <2>7. Alone'
    <3> SUFFICES ASSUME NEW q \in Reqs, InFlight(q)', openid[q] \in Calm
                 PROVE  /\ \A s \in Reqs : InFlight(s)' /\ openid[s] = openid[q] => s = q
                        /\ openid[q] \notin fresh
                        /\ pc'[q] = "put" /\ row'[q] = 0 => Rows(openid[q])' = {}
                        /\ pc'[q] = "cache" =>
                              version[q] \in {account'[row'[q]].version, Blank}
      BY <1>1 DEF Alone
    <3>1. InFlight(q) /\ \A s \in Reqs : InFlight(s)' => InFlight(s)
      BY <1>1 DEF InFlight, Goto, TypeOK
    <3>2. \A s \in Reqs : InFlight(s)' /\ openid[s] = openid[q] => s = q
      BY <3>1 DEF CalmInv, Alone
    <3>3. openid[q] \notin fresh
      BY <3>1 DEF CalmInv, Alone
    <3>4. CASE q = r
      BY <1>1, <2>3, <3>2, <3>3, <3>4 DEF Goto, TypeOK
    <3>5. CASE q # r
      <4>1. pc'[q] = pc[q] /\ row'[q] = row[q] /\ openid[q] # o /\ openid[q] \in OpenIDs
        BY <1>1, <2>3, <3>1, <3>5 DEF CalmInv, Alone, Goto, TypeOK, RowsKnown, InFlight
      <4>2. pc[q] = "put" /\ row[q] = 0 => Rows(openid[q])' = {}
        BY <1>1, <2>1, <2>2, <3>1, <4>1 DEF CalmInv, Alone, Rows
      <4>3. pc[q] = "cache" => version[q] \in {account'[row[q]].version, Blank}
        BY <2>1, <3>1, <4>1 DEF CalmInv, Alone, RowsKnown
      <4> QED
        BY <3>2, <3>3, <4>1, <4>2, <4>3
    <3> QED
      BY <3>4, <3>5
  <2>8. CacheAgrees'
    <3> SUFFICES ASSUME NEW p \in Calm \cap fresh, NEW i \in Rows(p)'
                 PROVE  Hash(hash, i).version \in {account'[i].version, Blank}
      BY <1>1 DEF CacheAgrees, Hash
    <3>1. p # o
      BY <1>1 DEF CalmInv, Alone, InFlight
    <3>2. i \in Rows(p) /\ account'[i] = account[i]
      BY <2>1, <2>6, <3>1, AccountsAssumption DEF Rows
    <3> QED
      BY <3>2 DEF CalmInv, CacheAgrees
  <2> QED
    BY <2>5, <2>7, <2>8 DEF CalmInv
<1>3. CASE Goto(r, "done") /\ UNCHANGED <<account, row>>
  <2>1. OneAccount' /\ CacheAgrees'
    BY <1>1, <1>3 DEF CalmInv, OneAccount, CacheAgrees, Rows, Hash
  <2>2. Alone'
    BY <1>1, <1>3 DEF CalmInv, Alone, TypeOK, Goto, InFlight, Rows
  <2> QED
    BY <2>1, <2>2 DEF CalmInv
<1> QED
  BY <1>2, <1>3 DEF LoginPut

LEMMA CalmCache ==
    ASSUME TypeOK, RowsKnown, CalmInv, NEW r \in Reqs, LoginCache(r)
    PROVE  CalmInv'
<1>1. /\ pc[r] = "cache" /\ InFlight(r) /\ openid[r] \in OpenIDs
      /\ row[r] \in Rows(openid[r])
      /\ UNCHANGED <<account, openid, version, row>> /\ Goto(r, "done")
  BY DEF LoginCache, RowsKnown, InFlight, Rows
<1>2. OneAccount' /\ \A p : Rows(p)' = Rows(p)
  BY <1>1 DEF CalmInv, OneAccount, Rows
<1>3. Alone'
  <2>1. fresh' \subseteq fresh \cup {openid[r]}
    BY DEF LoginCache
  <2>2. pc'[r] = "done" /\ \A q \in Reqs : q # r => pc'[q] = pc[q]
    BY <1>1 DEF Goto, TypeOK
  <2> QED
    BY <1>1, <1>2, <2>1, <2>2 DEF CalmInv, Alone, InFlight
<1>4. CacheAgrees'
  <2> SUFFICES ASSUME NEW p \in Calm, p \in fresh', NEW i \in Rows(p)
               PROVE  Hash(hash', i).version \in {account[i].version, Blank}
    BY <1>1, <1>2 DEF CacheAgrees
  <2>1. CASE p = openid[r]
    <3>1. i = row[r]
      BY <1>1, <2>1 DEF CalmInv, OneAccount, Rows
    <3>2. version[r] \in {account[row[r]].version, Blank} /\ p \notin fresh
      BY <1>1, <2>1 DEF CalmInv, Alone
    <3>3. Cache(r)
      BY <3>2 DEF LoginCache
    <3> QED
      BY <1>1, <3>1, <3>2, <3>3, CacheSets
  <2>2. CASE p # openid[r]
    <3>1. p \in fresh
      BY <2>2 DEF LoginCache
    <3>2. i # row[r]
      BY <1>1, <2>2 DEF Rows
    <3>3. Hash(hash', i).version = Hash(hash, i).version
      <4>1. CASE Cache(r)
        BY <1>1, <3>2, <4>1, CacheSets
      <4>2. CASE UNCHANGED hash
        BY <4>2 DEF Hash
      <4> QED
        BY <4>1, <4>2 DEF LoginCache
    <3> QED
      BY <3>1, <3>3 DEF CalmInv, CacheAgrees
  <2> QED
    BY <2>1, <2>2
<1> QED
  BY <1>2, <1>3, <1>4 DEF CalmInv

LEMMA CalmStep == TypeOK /\ RowsKnown /\ CalmInv /\ [Next]_vars => CalmInv'
<1> SUFFICES ASSUME TypeOK, RowsKnown, CalmInv, [Next]_vars PROVE CalmInv'
  OBVIOUS
<1>1. ASSUME NEW r \in Reqs, NEW o \in WxIDs, NEW v \in Profile, LoginStart(r, "wx", o, v)
      PROVE  CalmInv'
  BY <1>1, CalmStart, AccountsAssumption
<1>2. ASSUME NEW r \in Reqs, NEW o \in OpenIDs, LoginStart(r, "test", o, TestVersion)
      PROVE  CalmInv'
  BY <1>2, CalmStart
<1>3. ASSUME NEW r \in Reqs, LoginGet(r) \/ LoginPut(r) \/ LoginCache(r)
      PROVE  CalmInv'
  BY <1>3, CalmGet, CalmPut, CalmCache
<1>4. ASSUME UNCHANGED <<store, openid, version, row, fresh>>,
             \A r \in Reqs : pc'[r] = pc[r] \/ pc'[r] = "done"
      PROVE  CalmInv'
  <2>1. OneAccount' /\ CacheAgrees'
    BY <1>4 DEF CalmInv, OneAccount, CacheAgrees, store, Rows, Hash
  <2>2. Alone'
    BY <1>4 DEF CalmInv, Alone, InFlight, store, Rows
  <2> QED
    BY <2>1, <2>2 DEF CalmInv
<1>5. CASE Tick
  BY <1>4, <1>5 DEF Tick, store, reqs
<1>6. CASE Restart
  BY <1>4, <1>6 DEF Restart, store, TypeOK
<1>7. CASE UNCHANGED vars
  BY <1>4, <1>7 DEF vars, store, reqs
<1> QED
  BY <1>1, <1>2, <1>3, <1>5, <1>6, <1>7 DEF Next

LEMMA CalmAlways == Spec => []CalmInv
<1>1. Init => TypeOK /\ RowsKnown
  BY TypeInit DEF Init, RowsKnown, InFlight
<1>2. Init => CalmInv
  BY DEF Init, CalmInv, OneAccount, Alone, CacheAgrees, InFlight
<1> QED
  BY <1>1, <1>2, TypeStep, CalmStep, PTL DEF Spec

(* An openid whose logins do not overlap has one account.                   *)
THEOREM OneAccountEach == Spec => []OneAccount
<1>1. CalmInv => OneAccount
  BY DEF CalmInv
<1> QED
  BY <1>1, CalmAlways, PTL

(* After a successful login Redis has the profile of MySQL, or the empty one. *)
THEOREM CacheFollowsTable == Spec => []CacheAgrees
<1>1. CalmInv => CacheAgrees
  BY DEF CalmInv
<1> QED
  BY <1>1, CalmAlways, PTL
=============================================================================
