------------------------------ MODULE RealName ------------------------------
(***************************************************************************)
(* handles/setup/setup_real_modify.go: a player registers a name and an     *)
(* identity number, once.  A request holds the player's lock from its first *)
(* call to Redis to its end (see RedisLock); nothing orders the requests of *)
(* two players.  As in Phone, a request is a slot that is used again.       *)
(***************************************************************************)
EXTENDS CardCode

CONSTANTS Reqs, Players, Nobody,
          Cards,    \* the identity numbers clients send
          Names,    \* the names they send
          NoCard, NoName,
          Timely,   \* no handler outlives its lock key
          Faults    \* calls to Redis may fail, the server may die

ASSUME RealNameAssumption ==
    /\ Cards \subseteq Seq(0..255)
    /\ Nobody \notin Players /\ NoCard \notin Cards /\ NoName \notin Names
    /\ Timely \in BOOLEAN /\ Faults \in BOOLEAN

VARIABLES locks,     \* the players whose lock key exists
          cards,     \* agent:setup:cardcode
          realnick,  \* wecalendar:setup:<player> realnick
          cardcode,  \* wecalendar:setup:<player> cardcode
          pc, req,   \* the requests: where they are and what they ask for
          raced      \* ghost: the texts that overlapping requests carried
vars == <<locks, cards, realnick, cardcode, pc, req, raced>>

NoReq == [who |-> Nobody, card |-> NoCard, name |-> NoName]

InFlight(r) == pc[r] # "idle"

Init == /\ locks = {} /\ cards = {}
        /\ realnick = [p \in Players |-> NoName]
        /\ cardcode = [p \in Players |-> NoCard]
        /\ pc = [r \in Reqs |-> "idle"]
        /\ req = [r \in Reqs |-> NoReq]
        /\ raced = {}

ValidCards == {c \in Cards : checkCardCodeValid(c)}
ValidNames == {n \in Names : checkNameValid(n)}

Goto(r, l) == pc' = [pc EXCEPT ![r] = l]

\* A request whose numbers and name pass the checks goes on to read; of the others
\* only the lock remains to be given back.
Checked(r, p, c, n) ==
    LET ok == c \in ValidCards /\ n \in ValidNames
    IN /\ Goto(r, IF ok THEN "read" ELSE "finish")
       /\ req' = [req EXCEPT ![r] = [who |-> p, card |-> IF ok THEN c ELSE NoCard,
                                     name |-> IF ok THEN n ELSE NoName]]

\* Mutant: the SETNX reply is not looked at.
TakeLockAnyway(r, p, c, n) == locks' = locks \cup {p} /\ Checked(r, p, c, n)

\* The SETNX/EXPIRE transaction.  A request that finds the key answers "too
\* fast"; one without a reply answers ErrRedis, and the key may have been made.
TakeLock(r, p, c, n) ==
    \/ p \notin locks /\ locks' = locks \cup {p} /\ Checked(r, p, c, n)
    \/ Faults /\ locks' = locks \cup {p} /\ UNCHANGED <<pc, req>>

Start(r, p, c, n) ==
    /\ pc[r] = "idle"
    /\ TakeLock(r, p, c, n)
    /\ raced' = raced \cup {d \in {c} : \E q \in Reqs : InFlight(q) /\ req[q].card = d}
    /\ UNCHANGED <<cards, realnick, cardcode>>

\* Mutants: a player may register again; a number may be registered again.
MayRegisterAgain(p, c) == c \notin cards
MayRegisterTaken(p, c) == cardcode[p] = NoCard

MayRegister(p, c) == cardcode[p] = NoCard /\ c \notin cards

Read(r) ==
    /\ pc[r] = "read"
    /\ \/ MayRegister(req[r].who, req[r].card) /\ Goto(r, "store")
       \/ ~MayRegister(req[r].who, req[r].card) /\ Goto(r, "finish")
       \/ Faults /\ Goto(r, "finish")
    /\ UNCHANGED <<locks, cards, realnick, cardcode, req, raced>>

StoreWrites(r) ==
    LET q == req[r]
    IN /\ cards' = cards \cup {q.card}
       /\ realnick' = [realnick EXCEPT ![q.who] = q.name]
       /\ cardcode' = [cardcode EXCEPT ![q.who] = q.card]

\* Without a reply Redis may or may not have applied it.
Store(r) ==
    /\ pc[r] = "store"
    /\ StoreWrites(r) \/ (Faults /\ UNCHANGED <<cards, realnick, cardcode>>)
    /\ Goto(r, "finish")
    /\ UNCHANGED <<locks, req, raced>>

\* realGetHandle shows a player what is stored, empty fields before.
realGet(p) == [realnick |-> realnick[p], cardcode |-> cardcode[p]]

\* The deferred DEL, whose own failure is ignored.
Finish(r) ==
    /\ pc[r] = "finish"
    /\ (locks' = locks \ {req[r].who}) \/ (Faults /\ UNCHANGED locks)
    /\ Goto(r, "idle") /\ req' = [req EXCEPT ![r] = NoReq]
    /\ UNCHANGED <<cards, realnick, cardcode, raced>>

\* A lock key expires: under its holder only if handlers may be slow.
Expire(p) ==
    /\ p \in locks
    /\ Timely => \A r \in Reqs : InFlight(r) => req[r].who # p
    /\ locks' = locks \ {p}
    /\ UNCHANGED <<cards, realnick, cardcode, pc, req, raced>>

\* The server dies: the requests are lost, their lock keys are not.
Crash ==
    /\ Faults
    /\ pc' = [r \in Reqs |-> "idle"] /\ req' = [r \in Reqs |-> NoReq]
    /\ UNCHANGED <<locks, cards, realnick, cardcode, raced>>

Next ==
    \/ \E r \in Reqs, p \in Players, c \in Cards, n \in Names : Start(r, p, c, n)
    \/ \E r \in Reqs : Read(r) \/ Store(r) \/ Finish(r)
    \/ \E p \in Players : Expire(p)
    \/ Crash

Spec == Init /\ [][Next]_vars

-----------------------------------------------------------------------------
TypeOK ==
    /\ locks \subseteq Players /\ cards \subseteq Cards /\ raced \subseteq Cards
    /\ realnick \in [Players -> Names \cup {NoName}]
    /\ cardcode \in [Players -> Cards \cup {NoCard}]
    /\ pc \in [Reqs -> {"idle", "read", "store", "finish"}]
    /\ req \in [Reqs -> [who : Players \cup {Nobody}, card : Cards \cup {NoCard},
                          name : Names \cup {NoName}]]
    /\ \A r \in Reqs : InFlight(r) => req[r].who \in Players
    /\ \A r \in Reqs : pc[r] \in {"read", "store"} =>
                           req[r].card \in ValidCards /\ req[r].name \in ValidNames

(* A registration is for good: once a player is shown a name and a number,  *)
(* neither ever changes, however requests overlap or fail ("the real-name   *)
(* check has been made", setup_real_modify.go:100).                         *)
Permanent == [][\A p \in Players : cardcode[p] # NoCard => realGet(p)' = realGet(p)]_vars

(* The set of numbers in use is the set of the numbers players have: none   *)
(* is refused to everybody.                                                 *)
CardsExact == cards = {cardcode[p] : p \in Players} \ {NoCard}

(* No text of a number is registered for two players ("your real-name       *)
(* information exists already", setup_real_modify.go:107), whatever fails    *)
(* and whichever requests overlap, unless two of them carried that very text *)
(* at once: nothing keeps those apart.  A text is as the client spells it:   *)
(* with a small x a number is another text, see OneIdentity.                *)
OneOwner == \A p, q \in Players :
    cardcode[p] = cardcode[q] /\ cardcode[p] # NoCard => p = q \/ cardcode[p] \in raced

(* No identity number, however it is spelled, is registered for two players *)
(* ("your real-name information exists already", setup_real_modify.go:107). *)
OneIdentity == \A p, q \in Players :
    /\ cardcode[p] # NoCard /\ cardcode[q] # NoCard
    /\ SameNumber(cardcode[p], cardcode[q])
    => p = q

(* No number is registered that is a legal one with a character mistyped or  *)
(* with two neighbours swapped: the check refuses it ("whether this is a     *)
(* legal identity number", setup.go:14).                                    *)
GenuineOnly == \A p \in Players, c \in Cards :
    cardcode[p] # NoCard /\ Legal(c) => ~ Mistyped(c, cardcode[p]) /\ ~ Swapped(c, cardcode[p])

(* Why the lock protects a registration: the holder's key is there, there   *)
(* is one holder, and what it has read is still so.                         *)
LocksExclusive ==
    /\ \A r \in Reqs : InFlight(r) => req[r].who \in locks
    /\ \A r, q \in Reqs : InFlight(r) /\ InFlight(q) /\ req[r].who = req[q].who => r = q
StoresFirst == \A r \in Reqs : pc[r] = "store" => cardcode[req[r].who] = NoCard
=============================================================================
