---------------------------- MODULE Connections ----------------------------
(***************************************************************************)
(* The connections of a workspace (features/connections/{handler,          *)
(* use_cases,repository,domain}.rs): create, update, delete and list over  *)
(* TBL_DB_CONNECTIONS, composed with the schema cache and the driver       *)
(* registries of one of them.                                              *)
(*                                                                         *)
(* One SQL statement per step.  The requests are those of a connection's   *)
(* creator: update and delete refuse others at their first statement.      *)
(***************************************************************************)
EXTENDS SchemaCache, FiniteSets

CONSTANTS Target,     \* the connection of module SchemaCache
          Others,     \* bound: the other connections ever created
          Names,
          Accepted    \* bound: the engines asked for, of those TryFrom accepts

ASSUME ConnectionsAssumption ==
    /\ Target \notin Others
    /\ None \notin Others \cup {Target} \cup Names \cup Accepted

VARIABLES status,     \* of each other connection's row, as row is of Target's
          data,       \* name and engine of each row
          work        \* what each request does that module SchemaCache does not model

table == <<status, data, work>>
allVars == <<vars, table>>

Connection == Others \cup {Target}

NoWork == [at |-> "idle", id |-> None, name |-> None, engine |-> None]
NoData == [name |-> None, engine |-> None]

(* FromStr: the engines a row is read back with.  TryFrom accepts, and     *)
(* as_str writes, redis and sqlite as well.                                *)
Readable == {"postgresql", "mysql", "sqlserver", "oracle", "mongodb"}

ConnectionsInit ==
    /\ Init
    /\ status = [i \in Others |-> "absent"]
    /\ data = [i \in Connection |-> NoData]
    /\ work = [r \in Requests |-> NoWork]
-----------------------------------------------------------------------------
Status(i) == IF i = Target THEN row ELSE status[i]
Active == {i \in Connection : Status(i) = "active"}
Unreadable == {i \in Active : data[i].engine \notin Readable}

Free(r) == req[r] = Idle /\ work[r] = NoWork

Do(r, w) == work' = [work EXCEPT ![r] = w]

(* A wrong variant: what the requests need of the row is not its engine.   *)
FoundUnread(i) == i \in Active

(* find_by_id: the row, if map_connection can read it.                     *)
Found(i) == i \in Active \ Unreadable

(* list_for_workspace fails for one row it cannot read.                    *)
Listed == Unreadable = {}

(* A wrong variant: the names of the workspace are not looked at.          *)
ListUnchecked(r, n, e) ==
    /\ Free(r)
    /\ Listed
    /\ Do(r, [at |-> "insert", id |-> None, name |-> n, engine |-> e])
    /\ UNCHANGED <<vars, status, data>>

(* create: the list, and no connection in it with the name.                *)
List(r, n, e) ==
    /\ Free(r)
    /\ Listed
    /\ \A i \in Active : data[i].name # n
    /\ Do(r, [at |-> "insert", id |-> None, name |-> n, engine |-> e])
    /\ UNCHANGED <<vars, status, data>>

(* repository.create: no index is unique on workspace and name.            *)
Insert(r) ==
    /\ work[r].at = "insert"
    /\ \E i \in Connection :
          /\ data' = [data EXCEPT ![i] = [name |-> work[r].name, engine |-> work[r].engine]]
          /\ \/ /\ i = Target
                /\ Create
                /\ UNCHANGED status
             \/ /\ i # Target
                /\ status[i] = "absent"
                /\ status' = [status EXCEPT ![i] = "active"]
                /\ UNCHANGED vars
    /\ Do(r, NoWork)

(* update: get_full, and the fields of the request over those of the row.  *)
LoadFull(r, i, n) ==
    /\ Free(r)
    /\ Found(i)
    /\ Do(r, [at |-> "write", id |-> i, name |-> n, engine |-> None])
    /\ UNCHANGED <<vars, status, data>>

(* repository.update: no row is changed that was deleted meanwhile, and    *)
(* the answer is the same.  Neither the names nor the cache are looked at. *)
Write(r) ==
    /\ work[r].at = "write"
    /\ data' = IF work[r].id \in Active THEN [data EXCEPT ![work[r].id].name = work[r].name]
               ELSE data
    /\ Do(r, NoWork)
    /\ UNCHANGED <<vars, status>>

(* delete of a connection whose cache and drivers are not modelled.        *)
BeginDelete(r, i) ==
    /\ Free(r)
    /\ i # Target
    /\ Found(i)
    /\ Do(r, [NoWork EXCEPT !.at = "delete", !.id = i])
    /\ UNCHANGED <<vars, status, data>>

Remove(r) ==
    /\ work[r].at = "delete"
    /\ status' = [status EXCEPT ![work[r].id] = "deleted"]
    /\ Do(r, NoWork)
    /\ UNCHANGED <<vars, data>>

(* A statement fails, or the client goes away.                             *)
Abandon(r) ==
    /\ work[r] # NoWork
    /\ Do(r, NoWork)
    /\ UNCHANGED <<vars, status, data>>
-----------------------------------------------------------------------------
(* Target's schema, refresh_schema and delete.                             *)
SchemaStep ==
    /\ \/ Migrate \/ CacheExpires
       \/ \E r \in Requests :
             \/ /\ Free(r) /\ Target \notin Unreadable
                /\ \E s \in Servers, op \in Operations : Ask(r, s, op)
             \/ Step(r)
             \/ Fail(r)
    /\ UNCHANGED table

RowStep(r) ==
    \/ \E n \in Names : \/ \E e \in Accepted : List(r, n, e)
                        \/ \E i \in Connection : LoadFull(r, i, n)
    \/ \E i \in Connection : BeginDelete(r, i)
    \/ Insert(r) \/ Write(r) \/ Remove(r) \/ Abandon(r)

ConnectionsNext == SchemaStep \/ \E r \in Requests : RowStep(r)

ConnectionsSpec == ConnectionsInit /\ [][ConnectionsNext]_allVars

(* As in SchemaCache: its requests go on, and Redis drops what is old.     *)
FairConnections ==
    /\ ConnectionsSpec
    /\ WF_allVars(CacheExpires /\ UNCHANGED table)
    /\ \A r \in Requests : WF_allVars(Step(r) /\ UNCHANGED table)
-----------------------------------------------------------------------------
(* The variables have their types, those of the cache included.            *)
ConnectionsTypeOK ==
    /\ TypeOK
    /\ status \in [Others -> {"absent", "active", "deleted"}]
    /\ data \in [Connection -> [name : Names \cup {None}, engine : Accepted \cup {None}]]
    /\ work \in [Requests -> [at : {"idle", "insert", "write", "delete"}, id : Connection \cup {None},
                              name : Names \cup {None}, engine : Accepted \cup {None}]]
    /\ \A i \in Connection : Status(i) = "absent" <=> data[i] = NoData

Called(n) == {i \in Active : data[i].name = n}

(* "Business rule: unique name within workspace": once a name is taken, no *)
(* further request comes to create a connection of that name.  Two have it *)
(* only when their requests were under way together, or by an update.      *)
TakenNameGainsNoClash ==
    [][\A n \in Names : Called(n) # {} =>
          \A r \in Requests : work'[r].at = "insert" /\ work'[r].name = n => work'[r] = work[r]]_allVars

(* One connection of an engine that can be written and not read, and from  *)
(* then on its workspace creates no other, but for the requests that were  *)
(* past the list, and the connection itself cannot be deleted.             *)
UnreadableBlocks ==
    [][\A i \in Unreadable :
          /\ i \in Unreadable'
          /\ \A r \in Requests : work'[r].at = "insert" => work'[r] = work[r]]_allVars

Connecting == {req[r].server : r \in {q \in Requests : req[q].at = "connect"}}

(* A driver of a deleted connection stays in the registry of a process     *)
(* until that ends; but none joins it, save for a request that had loaded  *)
(* the row before it was deleted.                                          *)
DeletedGainsNoDriver ==
    [][row = "deleted" => drivers' \cup Connecting' \subseteq drivers \cup Connecting]_allVars
=============================================================================
