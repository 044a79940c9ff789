--------------------------- MODULE Server_proofs ---------------------------
(* Theorems about Server, for every number of processes and of guids.       *)
EXTENDS Server, SequenceTheorems, TLAPS

USE DEF Starting

\* The next states of a process that goes to l, and of one whose memory is gone.
LEMMA GotoKeeps ==
    ASSUME TypeOK, NEW s \in Servers, NEW l, Goto(s, l)
    PROVE  /\ pc'[s] = l
           /\ \A t \in Servers : t # s => pc'[t] = pc[t]
BY DEF TypeOK, Goto

LEMMA DieKeeps ==
    ASSUME TypeOK, NEW s \in Servers, Die(s)
    PROVE  /\ pc' \in [Servers -> Starting \cup {"down", "serving"}]
           /\ cfg' \in [Servers -> Files]
           /\ passed' \in [Servers -> Guids \cup {NoGuid}]
           /\ pc'[s] = "down"
           /\ \A t \in Servers : t # s =>
                 pc'[t] = pc[t] /\ cfg'[t] = cfg[t] /\ passed'[t] = passed[t]
BY DEF TypeOK, Die, Goto, Unset, Files

\* A key is inserted after the ones the table has.
LEMMA RowAppended ==
    ASSUME NEW r \in Seq(Guids), NEW k \in Guids
    PROVE  /\ Append(r, k) \in Seq(Guids)
           /\ Append(r, k) # <<>>
           /\ r # <<>> => Append(r, k)[1] = r[1] /\ r[1] \in Guids
           /\ r = <<>> => Append(r, k)[1] = k
<1>1. Append(r, k) \in Seq(Guids) /\ Append(r, k) # <<>>
  BY AppendProperties
<1>2. CASE r = <<>>
  BY <1>1, <1>2, SMT
<1>3. CASE r # <<>>
  <2>1. Len(r) \in Nat /\ Len(r) # 0
    BY <1>3, SMT
  <2> QED
    BY <1>1, <1>3, <2>1, SMT
<1> QED
  BY <1>1, <1>2, <1>3

LEMMA ParsedFile ==
    ASSUME NEW o \in Files, NEW f \in Files
    PROVE  /\ Parse(o, f) \in Files
           /\ o.guid \in Guids => Parse(o, f).guid \in Guids
BY DEF Files, Parse

-----------------------------------------------------------------------------
THEOREM InitTypeOK == Init => TypeOK
<1> SUFFICES ASSUME Init PROVE TypeOK
  OBVIOUS
<1>1. Unset \in Files /\ <<>> \in Seq(Guids)
  BY EmptySeq DEF Unset, Files
<1>2. \A s \in Servers : pc[s] = "down"
  BY DEF Init
<1> QED
  BY <1>1, <1>2 DEF Init, TypeOK

THEOREM NextTypeOK == TypeOK /\ [Next]_vars => TypeOK'
<1> SUFFICES ASSUME TypeOK, [Next]_vars PROVE TypeOK'
  OBVIOUS
<1>1. ASSUME NEW s \in Servers, NEW f \in Files, Start(s, f) PROVE TypeOK'
  <2>1. Unset \in Files
    BY DEF Unset, Files
  <2>2. Parse(Unset, f) \in Files /\ Parse(Unset, f).guid \in Guids
    BY <1>1, <2>1, ParsedFile DEF Start, Files
  <2> QED
    BY <1>1, <2>2 DEF Start, Goto, TypeOK, guid
<1>2. ASSUME NEW s \in Servers, NEW f \in Files, Reload(s, f) PROVE TypeOK'
  <2>1. Parse(cfg[s], f) \in Files
    BY ParsedFile DEF TypeOK
  <2> QED
    BY <1>2, <2>1 DEF Reload, TypeOK, guid
<1>3. ASSUME NEW s \in Servers, Exists(s) PROVE TypeOK'
  BY <1>3 DEF Exists, Goto, TypeOK, guid
<1>4. ASSUME NEW s \in Servers, GetKey(s) PROVE TypeOK'
  <2>1. CASE Same(s, rediskey)
    BY <1>4, <2>1 DEF GetKey, Goto, TypeOK, guid
  <2>2. CASE ~Same(s, rediskey)
    BY <1>4, <2>2, DieKeeps DEF GetKey, TypeOK, guid
  <2> QED
    BY <2>1, <2>2
<1>5. ASSUME NEW s \in Servers, SetKey(s) PROVE TypeOK'
  <2>1. rediskey' \in Guids
    BY <1>5 DEF SetKey, TypeOK
  <2>2. CASE Goto(s, "mysql") /\ UNCHANGED <<cfg, passed, failed>>
    BY <1>5, <2>1, <2>2 DEF SetKey, Goto, TypeOK, guid
  <2>3. CASE Die(s) /\ failed' = failed \cup {s}
    BY <1>5, <2>1, <2>3, DieKeeps DEF SetKey, TypeOK, guid
  <2> QED
    BY <1>5, <2>2, <2>3 DEF SetKey
<1>6. ASSUME NEW s \in Servers, Connect(s) PROVE TypeOK'
  <2>1. CASE cfg[s].db
    BY <1>6, <2>1 DEF Connect, Goto, TypeOK, guid
  <2>2. CASE ~cfg[s].db
    BY <1>6, <2>2, DieKeeps DEF Connect, TypeOK, guid
  <2> QED
    BY <2>1, <2>2
<1>7. ASSUME NEW s \in Servers, Exist(s) PROVE TypeOK'
  BY <1>7 DEF Exist, Goto, TypeOK, guid
<1>8. ASSUME NEW s \in Servers, GetRow(s) PROVE TypeOK'
  <2>1. CASE Same(s, rows[1])
    BY <1>8, <2>1 DEF GetRow, Serve, Goto, TypeOK, guid
  <2>2. CASE ~Same(s, rows[1])
    BY <1>8, <2>2, DieKeeps DEF GetRow, TypeOK, guid
  <2> QED
    BY <2>1, <2>2
<1>9. ASSUME NEW s \in Servers, InsertRow(s) PROVE TypeOK'
  <2>1. rows' \in Seq(Guids)
    BY <1>9, RowAppended DEF InsertRow, TypeOK
  <2>2. CASE Serve(s) /\ UNCHANGED <<cfg, failed>>
    BY <1>9, <2>1, <2>2 DEF InsertRow, Serve, Goto, TypeOK, guid
  <2>3. CASE Die(s) /\ failed' = failed \cup {s}
    BY <1>9, <2>1, <2>3, DieKeeps DEF InsertRow, TypeOK, guid
  <2> QED
    BY <1>9, <2>2, <2>3 DEF InsertRow
<1>10. ASSUME NEW s \in Servers, Fail(s) PROVE TypeOK'
  BY <1>10, DieKeeps DEF Fail, TypeOK, guid
<1>11. ASSUME NEW s \in Servers, Stop(s) PROVE TypeOK'
  BY <1>11, DieKeeps DEF Stop, TypeOK, guid
<1>12. CASE UNCHANGED vars
  BY <1>12 DEF vars, TypeOK, guid
<1> QED
  BY <1>1, <1>2, <1>3, <1>4, <1>5, <1>6, <1>7, <1>8, <1>9, <1>10, <1>11, <1>12 DEF Next, Step

\* Every configuration, claim and program counter stays within its type.
THEOREM TypeCorrect == Spec => []TypeOK
BY InitTypeOK, NextTypeOK, PTL DEF Spec

-----------------------------------------------------------------------------
(* The two stores, while servers with different guids do not start at once.  *)

\* All who are starting have one guid.
OneGuid == \A s, t \in Servers : pc[s] \in Starting /\ pc[t] \in Starting => guid(s) = guid(t)

\* What a process knows of the stores at each step of its start.
ClaimedRedis(s) ==
    /\ pc[s] = "getkey" => rediskey # NoGuid
    /\ pc[s] = "setkey" => rediskey \in {NoGuid, guid(s)}
    /\ pc[s] \in {"mysql", "row", "getrow", "insert"} => rediskey = guid(s)
    /\ pc[s] = "getrow" => rows # <<>>
    /\ pc[s] \in {"row", "getrow", "insert"} => tables

\* MySQL is only claimed with the guid that Redis has.
RowsFollowRedis == rows # <<>> => rediskey # NoGuid /\ rediskey = rows[1]

Claims == /\ OneGuid
          /\ \A s \in Servers : ClaimedRedis(s)
          /\ RowsFollowRedis
          /\ ServersAgree

\* What stays true when a step leaves the stores and every process but s alone.
Calm(s) == /\ UNCHANGED <<rediskey, rows, tables>>
           /\ \A t \in Servers : t # s =>
                 pc'[t] = pc[t] /\ cfg'[t] = cfg[t] /\ passed'[t] = passed[t]

LEMMA CalmStep ==
    ASSUME TypeOK, TypeOK', Claims, NEW s \in Servers, Calm(s),
           pc'[s] \in Starting => pc[s] \in Starting /\ guid(s)' = guid(s),
           ClaimedRedis(s)',
           pc'[s] = "serving" => tables /\ rediskey = passed'[s] /\ rows # <<>> /\ rows[1] = passed'[s]
    PROVE  Claims'
<1>1. \A t \in Servers : t # s => guid(t)' = guid(t)
  BY DEF Calm, guid
<1>2. OneGuid'
  BY <1>1 DEF Claims, OneGuid, Calm
<1>3. \A t \in Servers : ClaimedRedis(t)'
  <2> SUFFICES ASSUME NEW t \in Servers, t # s PROVE ClaimedRedis(t)'
    OBVIOUS
  <2> QED
    BY <1>1 DEF Claims, ClaimedRedis, Calm
<1>4. RowsFollowRedis'
  BY DEF Claims, RowsFollowRedis, Calm
<1>5. ServersAgree'
  BY DEF Claims, ServersAgree, Calm
<1> QED
  BY <1>2, <1>3, <1>4, <1>5 DEF Claims

\* A process that ends, whatever it was at.
LEMMA DeadIsCalm ==
    ASSUME TypeOK, TypeOK', Claims, NEW s \in Servers, Die(s), UNCHANGED <<rediskey, rows, tables>>
    PROVE  Claims'
<1>1. Calm(s) /\ pc'[s] = "down"
  BY DieKeeps DEF Calm
<1>2. ClaimedRedis(s)'
  BY <1>1 DEF ClaimedRedis
<1> QED
  BY <1>1, <1>2, CalmStep

LEMMA InitClaims == Init => Claims
BY DEF Init, Claims, OneGuid, ClaimedRedis, RowsFollowRedis, ServersAgree

\* A claim of Redis: every process that starts has the guid it is claimed for.
LEMMA SetKeyClaims ==
    ASSUME TypeOK, TypeOK', Claims, NEW s \in Servers, SetKey(s)
    PROVE  Claims' /\ (rediskey # NoGuid => rediskey' = rediskey)
<1>1. pc[s] = "setkey" /\ rediskey' = guid(s) /\ UNCHANGED <<rows, tables>>
  BY DEF SetKey
<1>2. rediskey # NoGuid => rediskey' = rediskey
  BY <1>1 DEF Claims, ClaimedRedis
<1>3. guid(s) \in Guids /\ guid(s) # NoGuid
  BY <1>1, ServerAssumption DEF TypeOK
<1>4. RowsFollowRedis'
  BY <1>1, <1>2 DEF Claims, RowsFollowRedis
<1>5. /\ pc'[s] \in {"mysql", "down"}
      /\ pc'[s] = "mysql" => guid(s)' = guid(s)
      /\ \A t \in Servers : t # s =>
            pc'[t] = pc[t] /\ cfg'[t] = cfg[t] /\ passed'[t] = passed[t]
  <2>1. CASE Goto(s, "mysql") /\ UNCHANGED <<cfg, passed, failed>>
    BY <2>1, GotoKeeps DEF guid
  <2>2. CASE Die(s)
    BY <2>2, DieKeeps
  <2> QED
    BY <2>1, <2>2 DEF SetKey
<1>6. \A t \in Servers : t # s => guid(t)' = guid(t)
  BY <1>5 DEF guid
<1>7. OneGuid'
  BY <1>1, <1>5, <1>6 DEF Claims, OneGuid
<1>8. \A t \in Servers : ClaimedRedis(t)'
  <2>1. ClaimedRedis(s)'
    BY <1>1, <1>5 DEF ClaimedRedis
  <2>2. ASSUME NEW t \in Servers, t # s PROVE ClaimedRedis(t)'
    <3>1. pc[t] \in Starting => guid(t) = guid(s)
      BY <1>1 DEF Claims, OneGuid
    <3> QED
      BY <1>1, <1>3, <1>5, <1>6, <2>2, <3>1 DEF Claims, ClaimedRedis
  <2> QED
    BY <2>1, <2>2
<1>9. ServersAgree'
  <2> SUFFICES ASSUME NEW t \in Servers, pc'[t] = "serving"
               PROVE  tables' /\ rediskey' = passed'[t] /\ rows' # <<>> /\ rows'[1] = passed'[t]
    BY DEF ServersAgree
  <2>1. t # s /\ pc[t] = "serving" /\ passed'[t] = passed[t]
    BY <1>5
  <2>2. tables /\ rediskey = passed[t] /\ rows # <<>> /\ rows[1] = passed[t]
    BY <2>1 DEF Claims, ServersAgree
  <2>3. rediskey # NoGuid
    BY <2>2 DEF Claims, RowsFollowRedis
  <2> QED
    BY <1>1, <1>2, <2>1, <2>2, <2>3
<1> QED
  BY <1>2, <1>4, <1>7, <1>8, <1>9 DEF Claims

\* A claim of MySQL, by a process whose guid Redis has.
LEMMA InsertRowClaims ==
    ASSUME TypeOK, TypeOK', Claims, NEW s \in Servers, InsertRow(s)
    PROVE  Claims' /\ (rows # <<>> => rows' # <<>> /\ rows'[1] = rows[1])
<1>1. /\ pc[s] = "insert" /\ rows' = Append(rows, guid(s)) /\ UNCHANGED <<rediskey, tables>>
      /\ rediskey = guid(s) /\ tables
  BY DEF InsertRow, Claims, ClaimedRedis
<1>2. guid(s) \in Guids /\ guid(s) # NoGuid
  BY <1>1, ServerAssumption DEF TypeOK
<1>3. rows' # <<>> /\ (rows # <<>> => rows'[1] = rows[1]) /\ (rows = <<>> => rows'[1] = guid(s))
  BY <1>1, <1>2, RowAppended DEF TypeOK
<1>4. rediskey' = rows'[1]
  BY <1>1, <1>3 DEF Claims, RowsFollowRedis
<1>5. /\ pc'[s] \in {"serving", "down"}
      /\ pc'[s] = "serving" => passed'[s] = guid(s)
      /\ \A t \in Servers : t # s =>
            pc'[t] = pc[t] /\ cfg'[t] = cfg[t] /\ passed'[t] = passed[t]
  <2>1. CASE Serve(s) /\ UNCHANGED <<cfg, failed>>
    BY <2>1, GotoKeeps DEF guid, Serve, TypeOK
  <2>2. CASE Die(s)
    BY <2>2, DieKeeps
  <2> QED
    BY <2>1, <2>2 DEF InsertRow
<1>6. \A t \in Servers : t # s => guid(t)' = guid(t)
  BY <1>5 DEF guid
<1>7. OneGuid'
  BY <1>5, <1>6 DEF Claims, OneGuid
<1>8. \A t \in Servers : ClaimedRedis(t)'
  BY <1>1, <1>3, <1>5, <1>6 DEF Claims, ClaimedRedis
<1>9. ServersAgree'
  BY <1>1, <1>3, <1>4, <1>5 DEF Claims, ServersAgree
<1> QED
  BY <1>1, <1>2, <1>3, <1>4, <1>7, <1>8, <1>9 DEF Claims, RowsFollowRedis

LEMMA NextClaims ==
    ASSUME Serial, TypeOK, TypeOK', Claims, [Next]_vars
    PROVE  /\ Claims'
           /\ rediskey # NoGuid => rediskey' = rediskey
           /\ rows # <<>> => rows' # <<>> /\ rows'[1] = rows[1]
<1> DEFINE Kept == /\ rediskey # NoGuid => rediskey' = rediskey
                   /\ rows # <<>> => rows' # <<>> /\ rows'[1] = rows[1]
<1>0. UNCHANGED <<rediskey, rows>> => Kept
  OBVIOUS
<1>1. ASSUME NEW s \in Servers, NEW f \in Files, Start(s, f) PROVE Claims' /\ Kept
  <2>1. /\ pc[s] = "down" /\ pc'[s] = "redis"
        /\ \A t \in Servers : t # s => pc'[t] = pc[t] /\ cfg'[t] = cfg[t]
        /\ UNCHANGED <<rediskey, rows, tables, passed>>
    BY <1>1, GotoKeeps DEF Start, TypeOK
  <2>2. guid(s)' = f.guid
    <3>1. guid(s)' = Parse(Unset, f).guid
      BY <1>1 DEF Start, guid, TypeOK
    <3> QED
      BY <1>1, <3>1 DEF Start, Parse, Unset
  <2>3. \A t \in Servers : pc[t] \in Starting => guid(t) = f.guid
    BY <1>1, Serial DEF Start
  <2>4. \A t \in Servers : t # s => guid(t)' = guid(t)
    BY <2>1 DEF guid
  <2>5. OneGuid'
    BY <2>1, <2>2, <2>3, <2>4 DEF OneGuid
  <2>6. \A t \in Servers : ClaimedRedis(t)'
    BY <2>1, <2>4 DEF Claims, ClaimedRedis
  <2>7. RowsFollowRedis' /\ ServersAgree'
    BY <2>1 DEF Claims, RowsFollowRedis, ServersAgree
  <2> QED
    BY <1>0, <2>1, <2>5, <2>6, <2>7 DEF Claims
<1>2. ASSUME NEW s \in Servers, NEW f \in Files, Reload(s, f) PROVE Claims' /\ Kept
  <2>1. pc[s] = "serving" /\ Calm(s) /\ pc'[s] = "serving" /\ passed'[s] = passed[s]
    BY <1>2 DEF Reload, Calm, TypeOK
  <2>2. ClaimedRedis(s)'
    BY <2>1 DEF ClaimedRedis
  <2> QED
    BY <1>0, <2>1, <2>2, CalmStep DEF Calm, Claims, ServersAgree
<1>3. ASSUME NEW s \in Servers, Exists(s) PROVE Claims' /\ Kept
  <2>1. /\ Calm(s) /\ guid(s)' = guid(s) /\ pc[s] = "redis"
        /\ pc'[s] = IF rediskey = NoGuid THEN "setkey" ELSE "getkey"
    BY <1>3, GotoKeeps DEF Exists, Calm, guid
  <2>2. ClaimedRedis(s)'
    BY <2>1 DEF ClaimedRedis, Calm
  <2> QED
    BY <1>0, <2>1, <2>2, CalmStep DEF Calm
<1>4. ASSUME NEW s \in Servers, GetKey(s) PROVE Claims' /\ Kept
  <2>1. CASE rediskey = guid(s)
    <3>1. Calm(s) /\ guid(s)' = guid(s) /\ pc[s] = "getkey" /\ pc'[s] = "mysql"
      BY <1>4, <2>1, GotoKeeps DEF GetKey, Same, Calm, guid
    <3>2. ClaimedRedis(s)'
      BY <2>1, <3>1 DEF ClaimedRedis, Calm
    <3> QED
      BY <1>0, <3>1, <3>2, CalmStep DEF Calm
  <2>2. CASE rediskey # guid(s)
    BY <1>0, <1>4, <2>2, DeadIsCalm DEF GetKey, Same
  <2> QED
    BY <2>1, <2>2
<1>5. ASSUME NEW s \in Servers, SetKey(s) PROVE Claims' /\ Kept
  BY <1>5, SetKeyClaims DEF SetKey
<1>6. ASSUME NEW s \in Servers, Connect(s) PROVE Claims' /\ Kept
  <2>1. CASE cfg[s].db
    <3>1. /\ pc[s] = "mysql" /\ pc'[s] = "row" /\ tables'
          /\ \A t \in Servers : t # s => pc'[t] = pc[t]
          /\ UNCHANGED <<cfg, passed, rediskey, rows>>
      BY <1>6, <2>1, GotoKeeps DEF Connect
    <3>2. \A t \in Servers : guid(t)' = guid(t)
      BY <3>1 DEF guid
    <3>3. OneGuid'
      BY <3>1, <3>2 DEF Claims, OneGuid
    <3>4. \A t \in Servers : ClaimedRedis(t)'
      BY <3>1, <3>2 DEF Claims, ClaimedRedis
    <3>5. RowsFollowRedis' /\ ServersAgree'
      BY <3>1 DEF Claims, RowsFollowRedis, ServersAgree
    <3> QED
      BY <1>0, <3>1, <3>3, <3>4, <3>5 DEF Claims
  <2>2. CASE ~cfg[s].db
    BY <1>0, <1>6, <2>2, DeadIsCalm DEF Connect
  <2> QED
    BY <2>1, <2>2
<1>7. ASSUME NEW s \in Servers, Exist(s) PROVE Claims' /\ Kept
  <2>1. /\ Calm(s) /\ guid(s)' = guid(s) /\ pc[s] = "row"
        /\ pc'[s] = IF rows = <<>> THEN "insert" ELSE "getrow"
    BY <1>7, GotoKeeps DEF Exist, Calm, guid
  <2>2. ClaimedRedis(s)'
    BY <2>1 DEF Claims, ClaimedRedis, Calm
  <2> QED
    BY <1>0, <2>1, <2>2, CalmStep DEF Calm
<1>8. ASSUME NEW s \in Servers, GetRow(s) PROVE Claims' /\ Kept
  <2>1. CASE rows[1] = guid(s)
    <3>1. /\ Calm(s) /\ pc[s] = "getrow" /\ pc'[s] = "serving" /\ passed'[s] = guid(s)
      BY <1>8, <2>1, GotoKeeps DEF GetRow, Same, Serve, Calm, guid, TypeOK
    <3>2. ClaimedRedis(s)'
      BY <3>1 DEF ClaimedRedis
    <3>3. tables /\ rediskey = guid(s) /\ rows # <<>>
      BY <3>1 DEF Claims, ClaimedRedis
    <3> QED
      BY <1>0, <2>1, <3>1, <3>2, <3>3, CalmStep DEF Calm
  <2>2. CASE rows[1] # guid(s)
    BY <1>0, <1>8, <2>2, DeadIsCalm DEF GetRow, Same
  <2> QED
    BY <2>1, <2>2
<1>9. ASSUME NEW s \in Servers, InsertRow(s) PROVE Claims' /\ Kept
  BY <1>9, InsertRowClaims DEF InsertRow
<1>10. ASSUME NEW s \in Servers, Fail(s) PROVE Claims' /\ Kept
  BY <1>0, <1>10, DeadIsCalm DEF Fail
<1>11. ASSUME NEW s \in Servers, Stop(s) PROVE Claims' /\ Kept
  BY <1>0, <1>11, DeadIsCalm DEF Stop
<1>12. CASE UNCHANGED vars
  <2>1. \A t \in Servers : guid(t)' = guid(t)
    BY <1>12 DEF vars, guid
  <2> QED
    BY <1>0, <1>12, <2>1 DEF vars, Claims, OneGuid, ClaimedRedis, RowsFollowRedis, ServersAgree
<1> QED
  BY <1>1, <1>2, <1>3, <1>4, <1>5, <1>6, <1>7, <1>8, <1>9, <1>10, <1>11, <1>12 DEF Next, Step

THEOREM ClaimsHold == Serial => (Spec => [](TypeOK /\ Claims))
<1> SUFFICES ASSUME Serial PROVE Spec => [](TypeOK /\ Claims)
  OBVIOUS
<1>1. TypeOK /\ Claims /\ [Next]_vars => TypeOK' /\ Claims'
  BY Serial, NextTypeOK, NextClaims
<1> QED
  BY <1>1, InitTypeOK, InitClaims, PTL DEF Spec

\* Whoever serves has the guid of both stores.
THEOREM AlwaysAgree == Serial => (Spec => []ServersAgree)
<1> SUFFICES ASSUME Serial PROVE Spec => []ServersAgree
  OBVIOUS
<1>1. Claims => ServersAgree
  BY DEF Claims
<1> QED
  BY Serial, <1>1, ClaimsHold, PTL

\* No start, however it ends, leaves the stores claimed for two guids.
THEOREM AlwaysStartable == Serial => (Spec => []Startable)
<1> SUFFICES ASSUME Serial PROVE Spec => []Startable
  OBVIOUS
<1>1. Claims => Startable
  BY DEF Claims, RowsFollowRedis, Startable
<1> QED
  BY Serial, <1>1, ClaimsHold, PTL

\* A claim outlives every later start, stop and fault.
THEOREM ClaimsAlwaysKept == Serial => (Spec => ClaimsKept)
<1> SUFFICES ASSUME Serial PROVE Spec => ClaimsKept
  OBVIOUS
<1> DEFINE Kept == /\ rediskey # NoGuid => rediskey' = rediskey
                   /\ rows # <<>> => rows' # <<>> /\ rows'[1] = rows[1]
<1>1. TypeOK /\ Claims /\ [Next]_vars => [Kept]_vars
  BY Serial, NextTypeOK, NextClaims
<1> QED
  BY Serial, <1>1, ClaimsHold, PTL DEF Spec, ClaimsKept

=============================================================================
