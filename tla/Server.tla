------------------------------- MODULE Server -------------------------------
(***************************************************************************)
(* The start of a server (main.go, server/http.go): read the configuration,  *)
(* claim Redis, claim MySQL, serve.  Several processes may start, serve and  *)
(* stop on the same Redis and MySQL.  Each claim asks whether the key is     *)
(* there, and then compares it or stores it: two calls, and other processes  *)
(* may act between them.                                                    *)
(***************************************************************************)
EXTENDS Integers, Sequences

CONSTANTS Servers,  \* processes
          Guids, NoGuid,
          Serial,   \* servers with different guids do not start at one time
          Faults    \* calls may fail, a reply may be lost

ASSUME ServerAssumption == NoGuid \notin Guids /\ Serial \in BOOLEAN /\ Faults \in BOOLEAN

VARIABLES pc,        \* where each process is
          cfg,       \* its settings: servercfg.ServerID, and whether the database is named
          rediskey,  \* redisconnectkey
          rows,      \* the keys in the table dbconnectkey, by rid
          tables,    \* the tables of the server exist
          passed,    \* ghost: the guid with which a process passed both checks
          failed     \* ghost: the processes whose last start met a fault
vars == <<pc, cfg, rediskey, rows, tables, passed, failed>>

\* What ParseConfigFile may find in the file.
Files == [guid : Guids \cup {NoGuid}, db : BOOLEAN]
Unset == [guid |-> NoGuid, db |-> FALSE]

Starting == {"redis", "getkey", "setkey", "mysql", "row", "getrow", "insert"}
guid(s) == cfg[s].guid

Init == /\ pc = [s \in Servers |-> "down"]
        /\ cfg = [s \in Servers |-> Unset]
        /\ rediskey = NoGuid
        /\ rows = <<>>
        /\ tables = FALSE
        /\ passed = [s \in Servers |-> NoGuid]
        /\ failed = {}

Goto(s, l) == pc' = [pc EXCEPT ![s] = l]

\* log.Panic and log.Fatal, or any other end of the process: its memory is gone.
Die(s) == /\ Goto(s, "down")
          /\ cfg' = [cfg EXCEPT ![s] = Unset]
          /\ passed' = [passed EXCEPT ![s] = NoGuid]

-----------------------------------------------------------------------------
(* ParseConfigFile.                                                        *)

\* A guid that is not in the file stays what it was; the database is taken as it is.
Parse(old, f) == [guid |-> IF f.guid = NoGuid THEN old.guid ELSE f.guid, db |-> f.db]

\* Without a guid main ends here.
Start(s, f) ==
    /\ pc[s] = "down"
    /\ Parse(Unset, f).guid # NoGuid
    /\ Serial => \A t \in Servers : pc[t] \in Starting => guid(t) = f.guid
    /\ cfg' = [cfg EXCEPT ![s] = Parse(Unset, f)]
    /\ Goto(s, "redis")
    /\ failed' = failed \ {s}
    /\ UNCHANGED <<rediskey, rows, tables, passed>>

\* SIGUSR2 reads the file again; nothing is checked again.
Reload(s, f) ==
    /\ pc[s] = "serving"
    /\ cfg' = [cfg EXCEPT ![s] = Parse(cfg[s], f)]
    /\ UNCHANGED <<pc, rediskey, rows, tables, passed, failed>>

-----------------------------------------------------------------------------
(* redisStartup.                                                           *)

\* Mutant: the key is stored without asking for it.
ExistsNever(s) ==
    /\ pc[s] = "redis"
    /\ Goto(s, "setkey")
    /\ UNCHANGED <<cfg, rediskey, rows, tables, passed, failed>>
Exists(s) ==
    /\ pc[s] = "redis"
    /\ Goto(s, IF rediskey = NoGuid THEN "setkey" ELSE "getkey")
    /\ UNCHANGED <<cfg, rediskey, rows, tables, passed, failed>>

\* Mutant: the key is not compared.
SameAnyway(s, key) == key # NoGuid
Same(s, key) == key = guid(s)

GetKey(s) ==
    /\ pc[s] = "getkey"
    /\ IF Same(s, rediskey) THEN Goto(s, "mysql") /\ UNCHANGED <<cfg, passed>> ELSE Die(s)
    /\ UNCHANGED <<rediskey, rows, tables, failed>>

SetKey(s) ==
    /\ pc[s] = "setkey"
    /\ rediskey' = guid(s)
    /\ \/ Goto(s, "mysql") /\ UNCHANGED <<cfg, passed, failed>>
       \/ Faults /\ Die(s) /\ failed' = failed \cup {s}
    /\ UNCHANGED <<rows, tables>>

-----------------------------------------------------------------------------
(* mysqlStartup, which comes after Redis has been claimed.                   *)

\* Mutant: creating tables that are there is an error.
ConnectOnce(s) ==
    /\ pc[s] = "mysql"
    /\ IF cfg[s].db /\ ~tables THEN Goto(s, "row") /\ tables' = TRUE /\ UNCHANGED <<cfg, passed>>
                               ELSE Die(s) /\ UNCHANGED tables
    /\ UNCHANGED <<rediskey, rows, failed>>
\* Without the database's settings the server dies, and its claim stays.
Connect(s) ==
    /\ pc[s] = "mysql"
    /\ IF cfg[s].db THEN Goto(s, "row") /\ tables' = TRUE /\ UNCHANGED <<cfg, passed>>
                    ELSE Die(s) /\ UNCHANGED tables
    /\ UNCHANGED <<rediskey, rows, failed>>

Exist(s) ==
    /\ pc[s] = "row"
    /\ Goto(s, IF rows = <<>> THEN "insert" ELSE "getrow")
    /\ UNCHANGED <<cfg, rediskey, rows, tables, passed, failed>>

Serve(s) == Goto(s, "serving") /\ passed' = [passed EXCEPT ![s] = guid(s)]

GetRow(s) ==
    /\ pc[s] = "getrow"
    /\ IF Same(s, rows[1]) THEN Serve(s) /\ UNCHANGED cfg ELSE Die(s)
    /\ UNCHANGED <<rediskey, rows, tables, failed>>

\* Of two rows only the first is ever asked for.
InsertRow(s) ==
    /\ pc[s] = "insert"
    /\ rows' = Append(rows, guid(s))
    /\ \/ Serve(s) /\ UNCHANGED <<cfg, failed>>
       \/ Faults /\ Die(s) /\ failed' = failed \cup {s}
    /\ UNCHANGED <<rediskey, tables>>

-----------------------------------------------------------------------------
\* A call fails, or the process ends, while it starts.
Fail(s) == /\ Faults /\ pc[s] \in Starting
           /\ Die(s)
           /\ failed' = failed \cup {s}
           /\ UNCHANGED <<rediskey, rows, tables>>

Stop(s) == /\ pc[s] = "serving"
           /\ Die(s)
           /\ UNCHANGED <<rediskey, rows, tables, failed>>

Step(s) == \/ Exists(s) \/ GetKey(s) \/ SetKey(s)
           \/ Connect(s) \/ Exist(s) \/ GetRow(s) \/ InsertRow(s)

Next == \E s \in Servers : \/ \E f \in Files : Start(s, f) \/ Reload(s, f)
                           \/ Step(s) \/ Fail(s) \/ Stop(s)

\* main runs on without waiting for anybody.
Spec == Init /\ [][Next]_vars /\ \A s \in Servers : WF_vars(Step(s))

-----------------------------------------------------------------------------
TypeOK ==
    /\ pc \in [Servers -> Starting \cup {"down", "serving"}]
    /\ cfg \in [Servers -> Files]
    /\ rediskey \in Guids \cup {NoGuid}
    /\ rows \in Seq(Guids)
    /\ tables \in BOOLEAN
    /\ passed \in [Servers -> Guids \cup {NoGuid}]
    /\ failed \subseteq Servers
    /\ \A s \in Servers : pc[s] \in Starting => guid(s) \in Guids

(* Whoever serves was started with the guid that both stores have, so that    *)
(* all servers of the stores have one guid, whatever was started and failed   *)
(* before, and whatever has been reloaded since ("check that the redis key   *)
(* is right", redis.go:73; "check the key of the database", db.go:141).      *)
ServersAgree == \A s \in Servers : pc[s] = "serving" =>
    tables /\ rediskey = passed[s] /\ rows # <<>> /\ rows[1] = passed[s]

(* Redis and MySQL are never claimed for two guids, which no server could     *)
(* start on any more: the claims are made one after the other, and a start   *)
(* may fail between them.                                                   *)
Startable == rediskey # NoGuid /\ rows # <<>> => rediskey = rows[1]

(* A claim is never taken over by a server with another guid.                *)
ClaimsKept == [][/\ rediskey # NoGuid => rediskey' = rediskey
                 /\ rows # <<>> => rows' # <<>> /\ rows'[1] = rows[1]]_vars

(* A server that starts with the guid that claimed Redis, and a database,     *)
(* serves, unless a fault ends its start: an earlier start that stopped half  *)
(* way, or other servers starting, cannot keep it out.                       *)
RightServerServes == \A s \in Servers :
    (pc[s] = "redis" /\ guid(s) = rediskey /\ cfg[s].db)
        ~> (pc[s] = "serving" \/ s \in failed)
=============================================================================
