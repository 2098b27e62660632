----------------------------- MODULE SchemaCache -----------------------------
(***************************************************************************)
(* The schema of one connection: its row in TBL_DB_CONNECTIONS, the entry  *)
(* of SchemaCache in Redis, which all server processes share, and the      *)
(* DriverRegistry each process has of its own (features/connections/       *)
(* {handler,use_cases,pool}.rs): schema, refresh_schema, create, delete.   *)
(*                                                                         *)
(* Each Redis command, SQL statement and call to the user's database is    *)
(* one step.  Redis errors are logged and ignored by the code.             *)
(***************************************************************************)
EXTENDS Naturals

CONSTANTS Servers,        \* server processes
          Requests,       \* requests served at the same time
          MaxVersion,     \* bound: changes of the user's database schema
          RedisMayFail,   \* whether Redis commands fail
          None            \* no version, no server

ASSUME CacheAssumption ==
    /\ MaxVersion \in Nat
    /\ RedisMayFail \in BOOLEAN
    /\ None \notin Servers \cup 0..MaxVersion

VARIABLES row,       \* the connection's row: "absent", "active" or "deleted"
          schema,    \* version of the schema the user's database has
          cache,     \* version stored under schema_cache:<id>, or None
          drivers,   \* processes whose registry holds a driver of the connection
          req        \* each request: where it stands, its operation and process, the
                     \* version it fetched

vars == <<row, schema, cache, drivers, req>>

Versions == 0..MaxVersion
Operations == {"schema", "refresh", "delete"}
Places == {"idle", "evict", "drop", "read", "driver", "load", "connect", "fetch", "store",
           "deleteRow"}

Idle == [at |-> "idle", op |-> "none", server |-> None, got |-> None]

Init ==
    /\ row = "absent"
    /\ schema = 0
    /\ cache = None
    /\ drivers = {}
    /\ req = [r \in Requests |-> Idle]
-----------------------------------------------------------------------------
Goto(r, place) == req' = [req EXCEPT ![r].at = place]

End(r) == req' = [req EXCEPT ![r] = Idle]

(* The user changes the database behind the server's back.                 *)
Migrate ==
    /\ schema < MaxVersion
    /\ schema' = schema + 1
    /\ UNCHANGED <<row, cache, drivers, req>>

(* create; its id is new, so nothing is cached or registered under it.     *)
Create ==
    /\ row = "absent"
    /\ row' = "active"
    /\ UNCHANGED <<schema, cache, drivers, req>>

(* 300 seconds have passed since SETEX.                                    *)
CacheExpires ==
    /\ cache # None
    /\ cache' = None
    /\ UNCHANGED <<row, schema, drivers, req>>

Arrive(r, s, op) ==
    /\ req[r] = Idle
    /\ req' = [req EXCEPT ![r] = [at |-> IF op = "schema" THEN "read" ELSE "evict",
                                  op |-> op, server |-> s, got |-> None]]

AskUnchecked(r, s, op) ==    \* a wrong variant: the handler leaves out connections.get
    /\ row # "absent"
    /\ Arrive(r, s, op)
    /\ UNCHANGED <<row, schema, cache, drivers>>

(* A handler of a request begins with find_by_id: a connection that is not *)
(* there is NotFound.                                                      *)
Ask(r, s, op) ==
    /\ row = "active"
    /\ Arrive(r, s, op)
    /\ UNCHANGED <<row, schema, cache, drivers>>

(* refresh_schema and delete: schema_cache.invalidate, then                *)
(* registry.remove of this process.                                        *)
Evict(r) ==
    /\ req[r].at = "evict"
    /\ Goto(r, "drop")
    /\ \/ cache' = None
       \/ RedisMayFail /\ UNCHANGED cache
    /\ UNCHANGED <<row, schema, drivers>>

DropDriver(r) ==
    /\ req[r].at = "drop"
    /\ drivers' = drivers \ {req[r].server}
    /\ Goto(r, IF req[r].op = "delete" THEN "deleteRow" ELSE "read")
    /\ UNCHANGED <<row, schema, cache>>

DeleteRow(r) ==
    /\ req[r].at = "deleteRow"
    /\ row' = "deleted"
    /\ End(r)
    /\ UNCHANGED <<schema, cache, drivers>>
-----------------------------------------------------------------------------
(* get_schema.                                                             *)

(* The cached schema is the answer.                                        *)
CacheHit(r) ==
    /\ req[r].at = "read"
    /\ cache # None
    /\ End(r)
    /\ UNCHANGED <<row, schema, cache, drivers>>

CacheMiss(r) ==
    /\ req[r].at = "read"
    /\ cache = None \/ RedisMayFail
    /\ Goto(r, "driver")
    /\ UNCHANGED <<row, schema, cache, drivers>>

(* get_or_connect: the registered driver, or a new one, which needs the    *)
(* row once more.                                                          *)
GetDriver(r) ==
    /\ req[r].at = "driver"
    /\ Goto(r, IF req[r].server \in drivers THEN "fetch" ELSE "load")
    /\ UNCHANGED <<row, schema, cache, drivers>>

LoadAnyRow(r) ==     \* a wrong variant: deleted rows are read, too
    /\ req[r].at = "load"
    /\ IF row # "absent" THEN Goto(r, "connect") ELSE End(r)
    /\ UNCHANGED <<row, schema, cache, drivers>>

LoadRow(r) ==
    /\ req[r].at = "load"
    /\ IF row = "active" THEN Goto(r, "connect") ELSE End(r)
    /\ UNCHANGED <<row, schema, cache, drivers>>

Connect(r) ==
    /\ req[r].at = "connect"
    /\ drivers' = drivers \cup {req[r].server}
    /\ Goto(r, "fetch")
    /\ UNCHANGED <<row, schema, cache>>

FetchForgotten(r) ==     \* a wrong variant: the answer of the database is not kept
    /\ req[r].at = "fetch"
    /\ Goto(r, "store")
    /\ UNCHANGED <<row, schema, cache, drivers>>

FetchSchema(r) ==
    /\ req[r].at = "fetch"
    /\ req' = [req EXCEPT ![r].at = "store", ![r].got = schema]
    /\ UNCHANGED <<row, schema, cache, drivers>>

(* The fetched schema is stored, if Redis lets it, and answered.           *)
Store(r) ==
    /\ req[r].at = "store"
    /\ \/ cache' = req[r].got
       \/ RedisMayFail /\ UNCHANGED cache
    /\ End(r)
    /\ UNCHANGED <<row, schema, drivers>>

(* The app's or the user's database fails, or the client goes away.        *)
Fail(r) ==
    /\ req[r].at # "idle"
    /\ End(r)
    /\ UNCHANGED <<row, schema, cache, drivers>>
-----------------------------------------------------------------------------
Step(r) ==
    \/ Evict(r) \/ DropDriver(r) \/ DeleteRow(r)
    \/ CacheHit(r) \/ CacheMiss(r) \/ GetDriver(r) \/ LoadRow(r) \/ Connect(r)
    \/ FetchSchema(r) \/ Store(r)

Next ==
    \/ Migrate \/ Create \/ CacheExpires
    \/ \E r \in Requests :
          \/ \E s \in Servers, op \in Operations : Ask(r, s, op)
          \/ Step(r)
          \/ Fail(r)

Spec == Init /\ [][Next]_vars
-----------------------------------------------------------------------------
TypeOK ==
    /\ row \in {"absent", "active", "deleted"}
    /\ schema \in Versions
    /\ cache \in Versions \cup {None}
    /\ drivers \subseteq Servers
    /\ req \in [Requests -> [at : Places, op : Operations \cup {"none"},
                             server : Servers \cup {None},
                             got : Versions \cup {None}]]
    /\ \A r \in Requests : req[r].at = "store" => req[r].got \in Versions

(* The schema of a deleted connection disappears from Redis for good, even *)
(* if the eviction of delete failed or a request that was under way cached *)
(* it anew: drivers that are still registered do not keep it there.        *)
DeletedLeavesCache == row = "deleted" ~> [](cache = None)
=============================================================================
