---------------------------- MODULE QuerySessions ----------------------------
(***************************************************************************)
(* Query sessions and execution: SessionRegistry (features/query/          *)
(* session.rs), ExecutionPoolRegistry (pool.rs) and the handlers           *)
(* open_session, close_session and execute of QueryUseCases (use_case.rs). *)
(*                                                                         *)
(* Handlers run concurrently.  Each access to a DashMap and each awaited   *)
(* call is one step, and so is get_for_connection, which walks the user's  *)
(* list under its lock; a request whose client goes away is dropped at an  *)
(* await.  Repository calls, pool construction and the user's database may *)
(* each fail.  Time is abstracted: a session is fresh until its expires_at *)
(* passes, which may happen at any moment.  Oracle's statements run on     *)
(* blocking threads, which neither the timeout nor the end of the handler  *)
(* stops; another engine's statement is taken to have reached its database *)
(* once it has been handed to the connection.                              *)
(***************************************************************************)
EXTENDS Execution, FiniteSets

CONSTANTS Users, Connections,
          SessionIds,   \* bound: how many sessions are ever created
          Tasks,        \* concurrent requests
          Landscapes,   \* the engines of the connections and what clients may ask of them:
                        \* pairs of a statement and a max_rows
          Statements,   \* the statements of those pairs
          Permissions,  \* the permissions TBL_CONNECTION_PERMISSIONS may hold for them
          None          \* no session, no user, no connection

ASSUME SessionsAssumption ==
    /\ None \notin SessionIds \cup Users \cup Connections
    /\ \A l \in Landscapes : /\ l.engine \in [Connections -> Engines]
                             /\ l.menu \subseteq Statements \X Nat
    /\ \A s \in Statements : s.rows \in Seq(STRING) /\ s.bad \in Nat
    /\ \A p \in Permissions : p \subseteq StatementTypes

VARIABLES
    engine,     \* db_type of each connection
    menu,       \* what clients ask for
    gone,       \* connections that have been deleted
    registry,   \* keys of SessionRegistry.sessions
    user, conn, \* user_id and connection_id of each session, None before it is created
    fresh,      \* sessions whose expires_at is ahead
    byUser,     \* SessionRegistry.by_user: session ids in the order they were pushed
    pools,      \* connections with a registered ExecutionPool
    loose,      \* connections for which blocking threads have yet to bring statements
                \* (one or several) to the database that no request waits for any more
    pc,         \* where each request stands
    reqUser, reqConn,   \* its arguments
    held,       \* the session it works under
    asked,      \* its statement and how many rows it wants
    ran,        \* TRUE once its statement may take effect on the user's database
    result,     \* what the executor returned
    logged,     \* status of the row it wrote to TBL_QUERY_HISTORY
    sent,       \* the events of its rows
    reply       \* its answer

storeVars == <<engine, menu, gone, registry, user, conn, fresh, byUser>>
sessionVars == <<storeVars, loose>>
requestVars == <<pc, reqUser, reqConn, held, asked, ran, result, logged, sent, reply>>
vars == <<engine, menu, gone, registry, user, conn, fresh, byUser, pools, loose,
          pc, reqUser, reqConn, held, asked, ran, result, logged, sent, reply>>

Replies == {"none", "session", "notFound", "noSession", "sessionExpired", "rejected",
            "completed", "failed", "error", "closed", "panicked"}

Nothing == [stmt |-> None, max |-> 0]
NoEvents == [batches |-> <<>>, affected |-> 0, truncated |-> FALSE]

Init ==
    /\ \E l \in Landscapes : engine = l.engine /\ menu = l.menu
    /\ gone = {}
    /\ registry = {}
    /\ user = [s \in SessionIds |-> None]
    /\ conn = [s \in SessionIds |-> None]
    /\ fresh = {}
    /\ byUser = [u \in Users |-> <<>>]
    /\ pools = {} /\ loose = {}
    /\ pc = [t \in Tasks |-> "idle"]
    /\ reqUser = [t \in Tasks |-> None]
    /\ reqConn = [t \in Tasks |-> None]
    /\ held = [t \in Tasks |-> None]
    /\ asked = [t \in Tasks |-> Nothing]
    /\ ran = [t \in Tasks |-> FALSE]
    /\ result = [t \in Tasks |-> "none"]
    /\ logged = [t \in Tasks |-> "none"]
    /\ sent = [t \in Tasks |-> NoEvents]
    /\ reply = [t \in Tasks |-> "none"]
-----------------------------------------------------------------------------
(* The registry.                                                           *)

MatchesAnyConnection(s, c) == s \in registry \cap fresh   \* a wrong variant: the connection is not compared

Matches(s, c) == s \in registry \cap fresh /\ conn[s] = c

(* What find_map of get_for_connection settles on: the first match in the  *)
(* order of by_user, or none.                                              *)
GetForConnection(u, c, s) ==
    LET hits == {i \in DOMAIN byUser[u] : Matches(byUser[u][i], c)}
    IN  \/ hits = {} /\ s = None
        \/ \E i \in hits : s = byUser[u][i] /\ \A j \in hits : i <= j

(* create: the session enters the map, and in a second step the user's     *)
(* list.                                                                   *)
Insert(s, u, c) ==
    /\ user[s] = None
    /\ registry' = registry \cup {s}
    /\ fresh' = fresh \cup {s}
    /\ user' = [user EXCEPT ![s] = u]
    /\ conn' = [conn EXCEPT ![s] = c]
    /\ UNCHANGED <<engine, menu, loose, gone, byUser>>

Push(s) ==
    /\ byUser' = [byUser EXCEPT ![user[s]] = Append(@, s)]
    /\ UNCHANGED <<engine, menu, loose, gone, registry, user, conn, fresh>>

(* A wrong variant: an entry-style touch that puts a missing session back.          *)
TouchReinserts(s) ==
    /\ registry' = registry \cup {s}
    /\ fresh' = fresh \cup {s}
    /\ UNCHANGED <<engine, menu, loose, gone, user, conn, byUser>>

(* A wrong variant: a touch that renews a session it has not looked up.             *)
TouchUnchecked(s) ==
    /\ fresh' = fresh \cup {s}
    /\ UNCHANGED <<engine, menu, loose, gone, registry, user, conn, byUser>>

(* A session that has left the map is not found by get_mut; one that has   *)
(* only run out of time is renewed.                                        *)
Touch(s) ==
    /\ fresh' = IF s \in registry THEN fresh \cup {s} ELSE fresh
    /\ UNCHANGED <<engine, menu, loose, gone, registry, user, conn, byUser>>

(* expires_at passes.  Nothing runs at that moment: remove_expired, which  *)
(* would drop the session and broadcast Expired, has no caller.            *)
TimeRunsOut(s) ==
    /\ s \in fresh
    /\ fresh' = fresh \ {s}
    /\ UNCHANGED <<engine, menu, loose, gone, registry, user, conn, byUser, pools, requestVars>>

(* ConnectionUseCases::delete marks the row, and tells the driver registry *)
(* and the schema cache, but neither the sessions nor the execution pools. *)
DeleteConnection(c) ==
    /\ c \notin gone
    /\ gone' = gone \cup {c}
    /\ UNCHANGED <<engine, menu, loose, registry, user, conn, fresh, byUser, pools, requestVars>>
-----------------------------------------------------------------------------
(* Requests.                                                               *)

Goto(t, place) == pc' = [pc EXCEPT ![t] = place]

Answer(t, what) == /\ Goto(t, "idle")
                   /\ reply' = [reply EXCEPT ![t] = what]

(* A request arrives with its arguments; what the slot's last request left *)
(* behind is cleared.                                                      *)
Arrive(t, u, c) ==
    /\ pc[t] = "idle"
    /\ asked' = [asked EXCEPT ![t] = Nothing]
    /\ sent' = [sent EXCEPT ![t] = NoEvents]
    /\ reqUser' = [reqUser EXCEPT ![t] = u]
    /\ reqConn' = [reqConn EXCEPT ![t] = c]
    /\ ran' = [ran EXCEPT ![t] = FALSE]
    /\ result' = [result EXCEPT ![t] = "none"]
    /\ logged' = [logged EXCEPT ![t] = "none"]

(* What only execute's later steps change.                                 *)
Kept == UNCHANGED <<reqUser, reqConn, asked, sent>>

(* Bound: a request that may create a session finds an id left for it.     *)
IdsLeft == Cardinality({t \in Tasks : pc[t] \in {"load", "check", "build", "create"}})
             < Cardinality({s \in SessionIds : user[s] = None})

(* open_session: an existing session of this user and connection is        *)
(* returned as it is.                                                      *)
Open(t, u, c) ==
    /\ Arrive(t, u, c)
    /\ \E s \in SessionIds \cup {None} :
          /\ GetForConnection(u, c, s)
          /\ held' = [held EXCEPT ![t] = s]
          /\ IF s # None
             THEN Answer(t, "session")
             ELSE IdsLeft /\ Goto(t, "load") /\ reply' = [reply EXCEPT ![t] = "none"]
    /\ UNCHANGED <<sessionVars, pools>>

(* get_full finds no deleted connection, and none whose db_type FromStr    *)
(* does not know; it may fail in other ways (another organization, an      *)
(* unreachable database), and every failure is reported as not found.      *)
LoadDeleted(t) ==    \* a wrong variant: is_soft_deleted is not looked at
    /\ pc[t] = "load"
    /\ \/ engine[reqConn[t]] \in Readable /\ Goto(t, "check") /\ UNCHANGED reply
       \/ Answer(t, "notFound")
    /\ UNCHANGED <<sessionVars, pools, held, ran, result, logged>> /\ Kept

LoadConnection(t) ==
    /\ pc[t] = "load"
    /\ \/ /\ reqConn[t] \notin gone /\ engine[reqConn[t]] \in Readable
          /\ Goto(t, "check") /\ UNCHANGED reply
       \/ Answer(t, "notFound")
    /\ UNCHANGED <<sessionVars, pools, held, ran, result, logged>> /\ Kept

CheckPoolSkipped(t) ==    \* a wrong variant: the session is created without looking for a pool
    /\ pc[t] = "check"
    /\ Goto(t, "create")
    /\ UNCHANGED <<sessionVars, pools, held, ran, result, logged, reply>> /\ Kept

CheckPool(t) ==
    /\ pc[t] = "check"
    /\ Goto(t, IF reqConn[t] \in pools THEN "create" ELSE "build")
    /\ UNCHANGED <<sessionVars, pools, held, ran, result, logged, reply>> /\ Kept

(* build_execution_pool, then register (which replaces a pool registered   *)
(* in the meantime).                                                       *)
BuildPool(t) ==
    /\ pc[t] = "build"
    /\ \/ Goto(t, "create") /\ pools' = pools \cup {reqConn[t]} /\ UNCHANGED reply
       \/ Answer(t, "error") /\ UNCHANGED pools
    /\ UNCHANGED <<sessionVars, held, ran, result, logged>> /\ Kept

CreateSession(t) ==
    /\ pc[t] = "create"
    /\ \E s \in SessionIds :
          /\ Insert(s, reqUser[t], reqConn[t])
          /\ held' = [held EXCEPT ![t] = s]
    /\ Goto(t, "index")
    /\ UNCHANGED <<pools, ran, result, logged, reply>> /\ Kept

IndexSession(t) ==
    /\ pc[t] = "index"
    /\ Push(held[t])
    /\ Answer(t, "session")
    /\ UNCHANGED <<pools, held, ran, result, logged>> /\ Kept

(* close_session with an id some client has been given, its only argument: *)
(* expire() first sets is_active to FALSE under the entry's lock and       *)
(* broadcasts to whoever listens, which nothing does, then removes it.     *)
Close(t, s) ==
    /\ s \in registry
    /\ \E u \in Users : \E i \in DOMAIN byUser[u] : byUser[u][i] = s
    /\ Arrive(t, None, None)
    /\ held' = [held EXCEPT ![t] = s]
    /\ Goto(t, "remove")
    /\ fresh' = fresh \ {s}
    /\ reply' = [reply EXCEPT ![t] = "none"]
    /\ UNCHANGED <<engine, menu, loose, gone, registry, user, conn, byUser, pools>>

RemoveClosed(t) ==
    /\ pc[t] = "remove"
    /\ registry' = registry \ {held[t]}
    /\ fresh' = fresh \ {held[t]}
    /\ Answer(t, "closed")
    /\ UNCHANGED <<engine, menu, loose, gone, user, conn, byUser, pools, held, ran, result, logged>> /\ Kept
-----------------------------------------------------------------------------
(* execute.                                                                *)

Execute(t, u, c) ==
    /\ Arrive(t, u, c)
    /\ \E s \in SessionIds \cup {None} :
          /\ GetForConnection(u, c, s)
          /\ held' = [held EXCEPT ![t] = s]
          /\ IF s # None
             THEN Goto(t, "recheck") /\ reply' = [reply EXCEPT ![t] = "none"]
             ELSE Answer(t, "noSession")
    /\ UNCHANGED <<sessionVars, pools>>

(* is_expired is asked again of the copy just returned, whose time may     *)
(* have run out since.                                                     *)
Recheck(t) ==
    /\ pc[t] = "recheck"
    /\ \/ Goto(t, "guard") /\ UNCHANGED reply
       \/ Answer(t, "sessionExpired")
    /\ UNCHANGED <<sessionVars, pools, held, ran, result, logged>> /\ Kept

(* get_permission, whose row may be the user's own, the connection's or    *)
(* missing, and guard::evaluate on what it returned.  The request's text   *)
(* and limit, which nothing has looked at before, are chosen here.         *)
Guard(t) ==
    /\ pc[t] = "guard"
    /\ \/ \E m \in menu, p \in Permissions \cup {DefaultPermission} :
             /\ asked' = [asked EXCEPT ![t] = [stmt |-> m[1], max |-> MaxRowsOf(m[2])]]
             /\ Goto(t, IF Evaluate(m[1], engine[reqConn[t]], p) = Approved THEN "run"
                                                                        ELSE "logRejected")
             /\ UNCHANGED reply
       \/ Answer(t, "error") /\ UNCHANGED asked
    /\ UNCHANGED <<sessionVars, pools, reqUser, reqConn, held, ran, result, logged, sent>>

(* save_history, whose failure `?` turns into the answer.                  *)
SaveHistory(t, status, event) ==
    \/ logged' = [logged EXCEPT ![t] = status] /\ Answer(t, event)
    \/ UNCHANGED logged /\ Answer(t, "error")

LogRejected(t) ==
    /\ pc[t] = "logRejected"
    /\ SaveHistory(t, "rejected", "rejected")
    /\ UNCHANGED <<sessionVars, pools, held, ran, result>> /\ Kept

RawOfUncut(t) == Dispatch(asked[t].stmt, engine[reqConn[t]], RowCap + 1)    \* a wrong variant: max_rows is dropped

RawOf(t) == Dispatch(asked[t].stmt, engine[reqConn[t]], asked[t].max)

(* Nobody waits for the statement any more: it did not reach its database, *)
(* or it did, or, for Oracle, it still will: the closure of spawn_blocking *)
(* runs on, and may first wait for a connection of its pool, for any time. *)
StopWaiting(t) ==
    \/ UNCHANGED <<ran, loose>>
    \/ /\ ran' = [ran EXCEPT ![t] = TRUE]
       /\ \/ UNCHANGED loose
          \/ engine[reqConn[t]] = "oracle" /\ loose' = loose \cup {reqConn[t]}

(* QueryExecutor::run: without a pool it fails at once; else the statement *)
(* answers, or the database cannot be reached, or the timeout ends the     *)
(* waiting.  A panic ends the handler: no touch, no history, no answer of  *)
(* the protocol.                                                           *)
Run(t) ==
    /\ pc[t] = "run"
    /\ \/ /\ reqConn[t] \in pools
          /\ \/ /\ ran' = [ran EXCEPT ![t] = TRUE]
                /\ result' = [result EXCEPT ![t] = RawOf(t).outcome]
                /\ IF RawOf(t).outcome = "panic" THEN Answer(t, "panicked")
                                                 ELSE Goto(t, "touch") /\ UNCHANGED reply
                /\ UNCHANGED loose
             \/ /\ StopWaiting(t)
                /\ result' = [result EXCEPT ![t] = "error"]
                /\ Goto(t, "touch") /\ UNCHANGED reply
       \/ /\ reqConn[t] \notin pools
          /\ result' = [result EXCEPT ![t] = "noPool"]
          /\ Goto(t, "touch") /\ UNCHANGED <<ran, reply, loose>>
    /\ UNCHANGED <<storeVars, pools, held, logged>> /\ Kept

(* The statements nobody waits for have reached their database, or failed. *)
LooseEnds(c) ==
    /\ c \in loose
    /\ loose' = loose \ {c}
    /\ UNCHANGED <<storeVars, pools, requestVars>>

TouchAfterRun(t) ==
    /\ pc[t] = "touch"
    /\ Touch(held[t])
    /\ Goto(t, "log")
    /\ UNCHANGED <<pools, held, ran, result, logged, reply>> /\ Kept

LogResultAsSuccess(t) ==    \* a wrong variant: both arms of the match answer Completed
    /\ pc[t] = "log"
    /\ SaveHistory(t, "success", "completed")
    /\ sent' = [sent EXCEPT ![t] = EventsOf(RawOf(t))]
    /\ UNCHANGED <<sessionVars, pools, reqUser, reqConn, held, asked, ran, result>>

LogResult(t) ==
    /\ pc[t] = "log"
    /\ IF result[t] = "ok"
       THEN /\ SaveHistory(t, "success", "completed")
            /\ sent' = [sent EXCEPT ![t] = IF logged'[t] = "success" THEN EventsOf(RawOf(t)) ELSE @]
       ELSE SaveHistory(t, "error", "failed") /\ UNCHANGED sent
    /\ UNCHANGED <<sessionVars, pools, reqUser, reqConn, held, asked, ran, result>>

(* The client disconnects and the handler's future is dropped at an await; *)
(* a statement being run is not waited for any more.                       *)
Disconnect(t) ==
    /\ pc[t] \in {"load", "build", "guard", "logRejected", "run", "log"}
    /\ Goto(t, "idle")
    /\ reply' = [reply EXCEPT ![t] = "none"]
    /\ IF pc[t] = "run" /\ reqConn[t] \in pools THEN StopWaiting(t) ELSE UNCHANGED <<ran, loose>>
    /\ UNCHANGED <<storeVars, pools, held, result, logged>> /\ Kept
-----------------------------------------------------------------------------
RequestStep(t) ==
    \/ LoadConnection(t) \/ CheckPool(t) \/ BuildPool(t) \/ CreateSession(t)
    \/ IndexSession(t) \/ RemoveClosed(t)
    \/ Recheck(t) \/ Guard(t) \/ LogRejected(t) \/ Run(t) \/ TouchAfterRun(t) \/ LogResult(t)

Next ==
    \/ \E t \in Tasks :
          \/ \E u \in Users, c \in Connections : Open(t, u, c) \/ Execute(t, u, c)
          \/ \E s \in SessionIds : Close(t, s)
          \/ RequestStep(t)
          \/ Disconnect(t)
    \/ \E s \in SessionIds : TimeRunsOut(s)
    \/ \E c \in Connections : DeleteConnection(c) \/ LooseEnds(c)

Spec == Init /\ [][Next]_vars
-----------------------------------------------------------------------------
TypeOK ==
    /\ engine \in [Connections -> Engines]
    /\ menu \subseteq Statements \X Nat
    /\ gone \subseteq Connections
    /\ registry \subseteq SessionIds
    /\ user \in [SessionIds -> Users \cup {None}]
    /\ conn \in [SessionIds -> Connections \cup {None}]
    /\ fresh \subseteq registry
    /\ byUser \in [Users -> Seq(SessionIds)]
    /\ pools \subseteq Connections
    /\ loose \subseteq Connections
    /\ pc \in [Tasks -> {"idle", "load", "check", "build", "create", "index", "remove", "recheck",
                         "guard", "logRejected", "run", "touch", "log"}]
    /\ reqUser \in [Tasks -> Users \cup {None}]
    /\ reqConn \in [Tasks -> Connections \cup {None}]
    /\ held \in [Tasks -> SessionIds \cup {None}]
    /\ \A t \in Tasks : asked[t] = Nothing \/ (asked[t].stmt \in Statements /\ asked[t].max <= RowCap)
    /\ ran \in [Tasks -> BOOLEAN]
    /\ result \in [Tasks -> {"none", "ok", "error", "panic", "noPool"}]
    /\ logged \in [Tasks -> {"none", "success", "error", "rejected"}]
    /\ reply \in [Tasks -> Replies]

(* No statement is refused for want of a pool: a session exists only for a *)
(* connection whose pool was registered before it, and pools stay.         *)
SessionHasPool ==
    /\ \A s \in registry : conn[s] \in pools
    /\ \A t \in Tasks : result[t] # "noPool"

(* open_session and execute work under a session of their own user and     *)
(* connection.                                                             *)
SessionIsOwn ==
    \A t \in Tasks : reqUser[t] # None /\ held[t] # None =>
        user[held[t]] = reqUser[t] /\ conn[held[t]] = reqConn[t]

(* The answer of execute tells what happened: Completed only for a         *)
(* statement that ran and is in the history as a success, Failed only for  *)
(* one in the history as an error, Rejected, SessionExpired and NoSession  *)
(* only if nothing ran.  A panic leaves a statement that ran out of it.    *)
ReplyTruthful ==
    \A t \in Tasks :
        /\ reply[t] = "completed" => ran[t] /\ result[t] = "ok" /\ logged[t] = "success"
        /\ reply[t] = "failed" => result[t] # "ok" /\ logged[t] = "error"
        /\ reply[t] = "rejected" => ~ran[t] /\ logged[t] = "rejected"
        /\ reply[t] \in {"sessionExpired", "noSession"} => ~ran[t] /\ logged[t] = "none"
        /\ reply[t] = "panicked" => ran[t] /\ logged[t] = "none"

(* Completed reports the result of its own statement, for every engine: no *)
(* row lost, repeated or out of place between the events, no more rows     *)
(* than asked for, and truncated said exactly when there were more.        *)
AnswerIsResult ==
    \A t \in {x \in Tasks : reply[x] = "completed"} :
        Reports(sent[t], asked[t].stmt, engine[reqConn[t]], asked[t].max)

(* Once a deleted connection has no session in its time, no request past   *)
(* the look-up that delete would have stopped, and no statement that the   *)
(* timeout or a client that went away left to a blocking thread, it is     *)
(* quiet for good: nothing opens it again and no statement reaches its     *)
(* database.                                                               *)
Quiet(c) ==
    /\ c \in gone
    /\ c \notin loose
    /\ \A s \in registry \cap fresh : conn[s] # c
    /\ \A t \in Tasks : reqConn[t] = c =>
          pc[t] \notin {"check", "build", "create", "index", "recheck", "guard", "run", "touch"}

DeletedThenQuiet == [][\A c \in Connections : Quiet(c) => Quiet(c)']_vars

(* A closed session never comes back: an execution that was under way when *)
(* it was closed does not revive it by touching it.                        *)
ClosedStaysClosed ==
    [][\A s \in SessionIds : user[s] # None /\ s \notin registry => s \notin registry']_vars
=============================================================================
