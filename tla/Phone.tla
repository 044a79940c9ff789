-------------------------------- MODULE Phone --------------------------------
(***************************************************************************)
(* handles/phone: a player asks for a code for a phone number, and binds    *)
(* the number, or changes the bound one, by sending the code back.  No      *)
(* handler takes a lock: each reads Redis in one MULTI, decides, and writes *)
(* in another.  Sending the SMS comes last and touches no state: whether it *)
(* arrives is the client's business, which may send any code.               *)
(***************************************************************************)
CONSTANTS Reqs, Players, Phones, Codes,
          WithOpenID,           \* the players whose account has an openid
          NoPhone, NoCode, Nobody,
          Faults   \* calls to Redis may fail, the server may die

ASSUME PhoneAssumption ==
    /\ WithOpenID \subseteq Players
    /\ NoPhone \notin Phones /\ NoCode \notin Codes /\ Nobody \notin Players
    /\ Faults \in BOOLEAN

VARIABLES codetag,    \* the players with a wecalendar:phone:codetag key
          code,       \* per player: the number and code of its code key, or None
          accphone,   \* acc:<player> phone
          openphone,  \* acc:openid:<openid of the player> phone
          hasbinded,  \* wecalendar:phone:hasbinded
          pc, req,    \* the requests: where they are and what they ask for
          issued,     \* ghost: the <<player, number>> codes were made for
          raced       \* ghost: the numbers of handlers that overlapped
vars == <<codetag, code, accphone, openphone, hasbinded, pc, req, issued, raced>>

None == [phone |-> NoPhone, code |-> NoCode]
NoReq == [who |-> Nobody, phone |-> NoPhone, old |-> NoPhone]

InFlight(r) == pc[r] # "idle"

Init == /\ codetag = {}
        /\ code = [p \in Players |-> None]
        /\ accphone = [p \in Players |-> NoPhone]
        /\ openphone = [p \in Players |-> NoPhone]
        /\ hasbinded = {}
        /\ pc = [r \in Reqs |-> "idle"]
        /\ req = [r \in Reqs |-> NoReq]
        /\ issued = {}
        /\ raced = {}

\* Two handlers between their read and their write race for a number if both
\* store it, and for all their numbers, old and new, if they are one player's.
Clashes(p, x, old) ==
    {y \in Phones : \E q \in Reqs :
       /\ pc[q] = "store"
       /\ \/ req[q].who = p /\ y \in {x, old, req[q].phone, req[q].old}
          \/ req[q].phone = x /\ y = x}

\* A request of p about the number x has read Redis, passed its checks and is on
\* its way to l; old is the number it replaces.  A request that fails a check is
\* answered with an error and changes nothing.
Arrive(r, p, x, old, l) ==
    /\ pc[r] = "idle"
    /\ req' = [req EXCEPT ![r] = [who |-> p, phone |-> x, old |-> old]]
    /\ pc' = [pc EXCEPT ![r] = l]
    /\ raced' = raced \cup {y \in Clashes(p, x, old) : l = "store"}
    /\ UNCHANGED <<codetag, code, accphone, openphone, hasbinded, issued>>

\* The handler is over, and its variables with it.
Return(r) == pc' = [pc EXCEPT ![r] = "idle"] /\ req' = [req EXCEPT ![r] = NoReq]

-----------------------------------------------------------------------------
(* getcodeHandle.  A number of the wrong format is refused before Redis is   *)
(* touched, so Phones holds valid ones.                                     *)

GetCode(r, p, x) == p \notin codetag /\ Arrive(r, p, x, NoPhone, "issue")

IssueWrites(p, x) ==
    \E c \in Codes :
       /\ codetag' = codetag \cup {p}
       /\ code' = [code EXCEPT ![p] = [phone |-> x, code |-> c]]
       /\ issued' = issued \cup {<<p, x>>}

\* Without a reply Redis may or may not have stored the tag and the code.
Issue(r) ==
    /\ pc[r] = "issue"
    /\ \/ IssueWrites(req[r].who, req[r].phone)
       \/ Faults /\ UNCHANGED <<codetag, code, issued>>
    /\ Return(r)
    /\ UNCHANGED <<accphone, openphone, hasbinded, raced>>

-----------------------------------------------------------------------------
(* bindHandle and modifyBindHandle.                                        *)

\* Mutants: the number the code was made for is not compared; the set of bound
\* numbers is not asked.
MatchesCodeOnly(p, x, c) == code[p].code = c /\ x \notin hasbinded
MatchesNotUnique(p, x, c) == code[p] = [phone |-> x, code |-> c]

\* What both handlers check: the number is free, and the player's code key
\* holds this number and this code.  (A missing key makes the handlers
\* dereference a nil error while they log: no answer, and no state changed.)
Matches(p, x, c) == x \notin hasbinded /\ code[p] = [phone |-> x, code |-> c]

Bind(r, p, x, c) ==
    accphone[p] = NoPhone /\ Matches(p, x, c) /\ Arrive(r, p, x, NoPhone, "store")

ModifyBind(r, p, old, x, c) ==
    accphone[p] = old /\ Matches(p, x, c) /\ Arrive(r, p, x, old, "store")

\* Mutant: the replaced number stays taken.
StoreWritesKeepOld(p, x, old) ==
    /\ accphone' = [accphone EXCEPT ![p] = x]
    /\ openphone' = IF p \in WithOpenID THEN [openphone EXCEPT ![p] = x] ELSE openphone
    /\ hasbinded' = hasbinded \cup {x}
    /\ code' = [code EXCEPT ![p] = None]

\* SADD the new number, SREM the old one (a bind has none), DEL the code.
StoreWrites(p, x, old) ==
    /\ accphone' = [accphone EXCEPT ![p] = x]
    /\ openphone' = IF p \in WithOpenID THEN [openphone EXCEPT ![p] = x] ELSE openphone
    /\ hasbinded' = (hasbinded \cup {x}) \ {old}
    /\ code' = [code EXCEPT ![p] = None]

Store(r) ==
    /\ pc[r] = "store"
    /\ \/ StoreWrites(req[r].who, req[r].phone, req[r].old)
       \/ Faults /\ UNCHANGED <<accphone, openphone, hasbinded, code>>
    /\ Return(r)
    /\ UNCHANGED <<codetag, issued, raced>>

\* entranceHandle: whether the player must wait for a code, and the bound number.
entrance(p) == [remain |-> p \in codetag, phone |-> accphone[p]]

-----------------------------------------------------------------------------
(* Time and the server.                                                    *)

\* The tag lives getCodeInterval, the code, set with it, three times as long.
ExpireTag(p) == /\ p \in codetag
                /\ codetag' = codetag \ {p}
                /\ UNCHANGED <<code, accphone, openphone, hasbinded, pc, req, issued, raced>>

ExpireCode(p) == /\ code[p] # None /\ p \notin codetag
                 /\ code' = [code EXCEPT ![p] = None]
                 /\ UNCHANGED <<codetag, accphone, openphone, hasbinded, pc, req, issued, raced>>

Crash == /\ Faults
         /\ pc' = [r \in Reqs |-> "idle"]
         /\ req' = [r \in Reqs |-> NoReq]
         /\ UNCHANGED <<codetag, code, accphone, openphone, hasbinded, issued, raced>>

Next == \/ \E r \in Reqs, p \in Players, x \in Phones :
             \/ GetCode(r, p, x)
             \/ \E c \in Codes : \/ Bind(r, p, x, c)
                                 \/ \E old \in Phones : ModifyBind(r, p, old, x, c)
        \/ \E r \in Reqs : Issue(r) \/ Store(r)
        \/ \E p \in Players : ExpireTag(p) \/ ExpireCode(p)
        \/ Crash

Spec == Init /\ [][Next]_vars

-----------------------------------------------------------------------------
TypeOK ==
    /\ codetag \subseteq Players
    /\ code \in [Players -> [phone : Phones \cup {NoPhone}, code : Codes \cup {NoCode}]]
    /\ accphone \in [Players -> Phones \cup {NoPhone}]
    /\ openphone \in [Players -> Phones \cup {NoPhone}]
    /\ hasbinded \subseteq Phones
    /\ pc \in [Reqs -> {"idle", "issue", "store"}]
    /\ req \in [Reqs -> [who : Players \cup {Nobody}, phone : Phones \cup {NoPhone},
                         old : Phones \cup {NoPhone}]]
    /\ \A r \in Reqs : InFlight(r) => req[r].who \in Players /\ req[r].phone \in Phones
    /\ issued \subseteq Players \X Phones
    /\ raced \subseteq Phones

(* A player is only ever shown a number that a code was made for at that     *)
(* player's own request, however requests overlap, codes expire and calls    *)
(* fail.                                                                    *)
Verified == \A p \in Players :
    entrance(p).phone # NoPhone => <<p, entrance(p).phone>> \in issued

(* Of the numbers no two handlers raced for, exactly those that players have *)
(* are in the set of bound numbers: none is lost to everybody and none is    *)
(* free while a player has it, whatever fails or expires and whatever else   *)
(* overlaps (SADD, SREM and the account, phone_modifybind.go:109-117).       *)
HasBindedExact == hasbinded \ raced = {accphone[p] : p \in Players} \ (raced \cup {NoPhone})

(* No number belongs to two players ("the number is already bound",          *)
(* phone_bind.go:71) unless two of their handlers raced for it: both read    *)
(* that it was free before either stored it.                                *)
OneOwner == \A p, q \in Players :
    accphone[p] = accphone[q] /\ accphone[p] # NoPhone => p = q \/ accphone[p] \in raced

(* No number belongs to two players, whatever overlaps.                      *)
NoSharedNumber == \A p, q \in Players :
    accphone[p] = accphone[q] /\ accphone[p] # NoPhone => p = q

(* The set of bound numbers holds no number that nobody has, whatever        *)
(* overlaps ("the phone numbers that are bound", rconst/phone_table.go:14).  *)
NoLostNumber == hasbinded \subseteq {accphone[p] : p \in Players}
=============================================================================
