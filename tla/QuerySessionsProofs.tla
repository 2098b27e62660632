------------------------- MODULE QuerySessionsProofs -------------------------
(***************************************************************************)
(* Proofs about query sessions and executions, for any users, connections, *)
(* statements and concurrent requests.                                     *)
(***************************************************************************)
EXTENDS QuerySessions, SequenceTheorems, TLAPS

Places == {"idle", "load", "check", "build", "create", "index", "remove", "recheck", "guard",
           "logRejected", "run", "touch", "log"}
Outcomes == {"none", "ok", "error", "panic", "noPool"}
Statuses == {"none", "success", "error", "rejected"}
Asked == {Nothing} \cup [stmt : Statements, max : 0..RowCap]

(* The sessions, the pools and the connections.                            *)
WorldTypes ==
    /\ engine \in [Connections -> Engines]
    /\ menu \subseteq Statements \X Nat
    /\ gone \subseteq Connections
    /\ registry \subseteq SessionIds
    /\ user \in [SessionIds -> Users \cup {None}]
    /\ conn \in [SessionIds -> Connections \cup {None}]
    /\ fresh \subseteq registry
    /\ byUser \in [Users -> Seq(SessionIds)]
    /\ pools \subseteq Connections

(* Every session that was ever created had its pool, and is in nobody      *)
(* else's list.                                                            *)
WorldSound ==
    /\ \A s \in SessionIds : user[s] # None => conn[s] \in pools
    /\ \A s \in registry : user[s] # None
    /\ \A u \in Users : \A i \in DOMAIN byUser[u] : user[byUser[u][i]] = u

TaskTypes ==
    /\ pc \in [Tasks -> Places]
    /\ reqUser \in [Tasks -> Users \cup {None}]
    /\ reqConn \in [Tasks -> Connections \cup {None}]
    /\ held \in [Tasks -> SessionIds \cup {None}]
    /\ asked \in [Tasks -> Asked]
    /\ ran \in [Tasks -> BOOLEAN]
    /\ result \in [Tasks -> Outcomes]
    /\ logged \in [Tasks -> Statuses]
    /\ reply \in [Tasks -> Replies]

Truthful(t) ==
    /\ reply[t] = "completed" => ran[t] /\ result[t] = "ok" /\ logged[t] = "success"
    /\ reply[t] = "failed" => result[t] # "ok" /\ logged[t] = "error"
    /\ reply[t] = "rejected" => ~ran[t] /\ logged[t] = "rejected"
    /\ reply[t] \in {"sessionExpired", "noSession"} => ~ran[t] /\ logged[t] = "none"
    /\ reply[t] = "panicked" => ran[t] /\ logged[t] = "none"

(* The session a request holds is its own, ...                             *)
HoldsOwn(t) ==
    /\ held[t] # None => user[held[t]] # None
    /\ reqUser[t] # None /\ held[t] # None => user[held[t]] = reqUser[t] /\ conn[held[t]] = reqConn[t]
    /\ pc[t] \in {"load", "check", "build", "create"} => held[t] = None
    /\ pc[t] \in {"index", "remove", "recheck", "guard", "logRejected", "run", "touch", "log"} =>
          held[t] # None
    /\ pc[t] \notin {"idle", "remove"} => reqUser[t] \in Users /\ reqConn[t] \in Connections
    /\ pc[t] = "create" => reqConn[t] \in pools

(* ... and what it notes of its statement is what happened.                *)
NotesTrue(t) ==
    /\ pc[t] # "idle" => reply[t] = "none" /\ logged[t] = "none"
    /\ pc[t] \notin {"idle", "touch", "log"} => ~ran[t] /\ result[t] = "none"
    /\ pc[t] \in {"touch", "log"} => result[t] = "error" \/ (result[t] = "ok" /\ ran[t])
    /\ result[t] # "noPool"
    /\ Truthful(t)

SessionsInv ==
    /\ WorldTypes /\ WorldSound
    /\ TaskTypes
    /\ \A t \in Tasks : HoldsOwn(t) /\ NotesTrue(t)
-----------------------------------------------------------------------------
Untouched(t) ==
    /\ pc'[t] = pc[t] /\ reqUser'[t] = reqUser[t] /\ reqConn'[t] = reqConn[t]
    /\ held'[t] = held[t] /\ ran'[t] = ran[t] /\ result'[t] = result[t]
    /\ logged'[t] = logged[t] /\ reply'[t] = reply[t]

(* No session that was created changes hands, no pool goes.                *)
WorldGrows ==
    /\ \A s \in SessionIds : user[s] # None => user'[s] = user[s] /\ conn'[s] = conn[s]
    /\ pools \subseteq pools'

LEMMA OthersKept ==
    ASSUME SessionsInv, WorldGrows, NEW t \in Tasks, Untouched(t)
    PROVE  HoldsOwn(t)' /\ NotesTrue(t)'
<1>1. HoldsOwn(t) /\ NotesTrue(t) /\ held[t] \in SessionIds \cup {None}
    BY DEF SessionsInv, TaskTypes
<1>2. HoldsOwn(t)'
    BY <1>1 DEF HoldsOwn, Untouched, WorldGrows
<1>3. NotesTrue(t)'
    BY <1>1 DEF NotesTrue, Truthful, Untouched
<1>4. QED
    BY <1>2, <1>3

LEMMA TaskMoves ==
    ASSUME SessionsInv, NEW t \in Tasks, WorldTypes', WorldSound', WorldGrows, TaskTypes',
           \A x \in Tasks \ {t} : Untouched(x), HoldsOwn(t)', NotesTrue(t)'
    PROVE  SessionsInv'
    BY OthersKept DEF SessionsInv

LEMMA WorldStays ==
    ASSUME SessionsInv, UNCHANGED <<storeVars, pools>>
    PROVE  WorldTypes' /\ WorldSound' /\ WorldGrows
    BY DEF SessionsInv, storeVars, WorldTypes, WorldSound, WorldGrows

(* What get_for_connection finds is a session in its time, of that user    *)
(* and that connection.                                                    *)
LEMMA FoundIsOwn ==
    ASSUME SessionsInv, NEW u \in Users, NEW c, NEW s, GetForConnection(u, c, s), s # None
    PROVE  s \in registry \cap fresh /\ s \in SessionIds /\ conn[s] = c /\ user[s] = u
<1>1. PICK i \in DOMAIN byUser[u] : s = byUser[u][i] /\ Matches(s, c)
    BY DEF GetForConnection
<1>2. user[s] = u
    BY <1>1 DEF SessionsInv, WorldSound
<1>3. s \in SessionIds
    BY <1>1 DEF SessionsInv, WorldTypes, Matches
<1>4. QED
    BY <1>1, <1>2, <1>3 DEF Matches

(* The steps that leave the sessions and the pools as they are.            *)
LEMMA LoadConnectionKeeps ==
    ASSUME SessionsInv, NEW t \in Tasks, LoadConnection(t)
    PROVE  SessionsInv'
<1>1. TaskTypes /\ HoldsOwn(t) /\ NotesTrue(t) /\ pc[t] = "load"
    BY DEF SessionsInv, LoadConnection
<1>2. TaskTypes'
    BY <1>1 DEF TaskTypes, LoadConnection, Goto, Answer, Kept, Places, Replies
<1>3. \A x \in Tasks \ {t} : Untouched(x)
    BY <1>1 DEF TaskTypes, Untouched, LoadConnection, Goto, Answer, Kept
<1>4. HoldsOwn(t)'
    BY <1>1 DEF TaskTypes, HoldsOwn, LoadConnection, Goto, Answer, Kept, sessionVars, storeVars
<1>5. NotesTrue(t)'
    BY <1>1 DEF TaskTypes, NotesTrue, Truthful, LoadConnection, Goto, Answer, Kept
<1>6. QED
    BY <1>2, <1>3, <1>4, <1>5, WorldStays, TaskMoves DEF sessionVars, LoadConnection

LEMMA CheckPoolKeeps ==
    ASSUME SessionsInv, NEW t \in Tasks, CheckPool(t)
    PROVE  SessionsInv'
<1>1. TaskTypes /\ HoldsOwn(t) /\ NotesTrue(t) /\ pc[t] = "check"
    BY DEF SessionsInv, CheckPool
<1>2. TaskTypes'
    BY <1>1 DEF TaskTypes, CheckPool, Goto, Answer, Kept, Places, Replies, Statuses, Outcomes
<1>3. \A x \in Tasks \ {t} : Untouched(x)
    BY <1>1 DEF TaskTypes, Untouched, CheckPool, Goto, Answer, Kept
<1>4. HoldsOwn(t)'
    BY <1>1 DEF TaskTypes, HoldsOwn, CheckPool, Goto, Answer, Kept, sessionVars, storeVars
<1>5. NotesTrue(t)'
    BY <1>1 DEF TaskTypes, NotesTrue, Truthful, CheckPool, Goto, Answer, Kept
<1>6. QED
    BY <1>2, <1>3, <1>4, <1>5, WorldStays, TaskMoves DEF sessionVars, CheckPool

LEMMA RecheckKeeps ==
    ASSUME SessionsInv, NEW t \in Tasks, Recheck(t)
    PROVE  SessionsInv'
<1>1. TaskTypes /\ HoldsOwn(t) /\ NotesTrue(t) /\ pc[t] = "recheck"
    BY DEF SessionsInv, Recheck
<1>2. TaskTypes'
    BY <1>1 DEF TaskTypes, Recheck, Goto, Answer, Kept, Places, Replies, Statuses, Outcomes
<1>3. \A x \in Tasks \ {t} : Untouched(x)
    BY <1>1 DEF TaskTypes, Untouched, Recheck, Goto, Answer, Kept
<1>4. HoldsOwn(t)'
    BY <1>1 DEF TaskTypes, HoldsOwn, Recheck, Goto, Answer, Kept, sessionVars, storeVars
<1>5. NotesTrue(t)'
    BY <1>1 DEF TaskTypes, NotesTrue, Truthful, Recheck, Goto, Answer, Kept
<1>6. QED
    BY <1>2, <1>3, <1>4, <1>5, WorldStays, TaskMoves DEF sessionVars, Recheck

LEMMA LogRejectedKeeps ==
    ASSUME SessionsInv, NEW t \in Tasks, LogRejected(t)
    PROVE  SessionsInv'
<1>1. TaskTypes /\ HoldsOwn(t) /\ NotesTrue(t) /\ pc[t] = "logRejected"
    BY DEF SessionsInv, LogRejected
<1>2. TaskTypes'
    BY <1>1 DEF TaskTypes, LogRejected, Goto, Answer, Kept, Places, Replies, Statuses, Outcomes, SaveHistory
<1>3. \A x \in Tasks \ {t} : Untouched(x)
    BY <1>1 DEF TaskTypes, Untouched, LogRejected, Goto, Answer, Kept, SaveHistory
<1>4. HoldsOwn(t)'
    BY <1>1 DEF TaskTypes, HoldsOwn, LogRejected, Goto, Answer, Kept, sessionVars, storeVars, SaveHistory
<1>5. NotesTrue(t)'
    BY <1>1 DEF TaskTypes, NotesTrue, Truthful, LogRejected, Goto, Answer, Kept, SaveHistory
<1>6. QED
    BY <1>2, <1>3, <1>4, <1>5, WorldStays, TaskMoves DEF sessionVars, LogRejected

LEMMA LogResultKeeps ==
    ASSUME SessionsInv, NEW t \in Tasks, LogResult(t)
    PROVE  SessionsInv'
<1>1. TaskTypes /\ HoldsOwn(t) /\ NotesTrue(t) /\ pc[t] = "log"
    BY DEF SessionsInv, LogResult
<1>2. TaskTypes'
    BY <1>1 DEF TaskTypes, LogResult, Goto, Answer, Kept, Places, Replies, Statuses, Outcomes, SaveHistory
<1>3. \A x \in Tasks \ {t} : Untouched(x)
    BY <1>1 DEF TaskTypes, Untouched, LogResult, Goto, Answer, Kept, SaveHistory
<1>4. HoldsOwn(t)'
    BY <1>1 DEF TaskTypes, HoldsOwn, LogResult, Goto, Answer, Kept, sessionVars, storeVars, SaveHistory
<1>5. NotesTrue(t)'
    BY <1>1 DEF TaskTypes, NotesTrue, Truthful, LogResult, Goto, Answer, Kept, SaveHistory
<1>6. QED
    BY <1>2, <1>3, <1>4, <1>5, WorldStays, TaskMoves DEF sessionVars, LogResult

LEMMA DisconnectKeeps ==
    ASSUME SessionsInv, NEW t \in Tasks, Disconnect(t)
    PROVE  SessionsInv'
<1>1. TaskTypes /\ HoldsOwn(t) /\ NotesTrue(t) /\ pc[t] # "idle"
    BY DEF SessionsInv, Disconnect
<1>2. /\ pc' = [pc EXCEPT ![t] = "idle"] /\ reply' = [reply EXCEPT ![t] = "none"]
      /\ ran' = ran \/ ran' = [ran EXCEPT ![t] = TRUE]
      /\ UNCHANGED <<storeVars, pools, reqUser, reqConn, held, asked, result, logged>>
    BY DEF Disconnect, StopWaiting, Goto, Kept
<1>3. TaskTypes'
    BY <1>1, <1>2 DEF TaskTypes, Places, Replies
<1>4. \A x \in Tasks \ {t} : Untouched(x)
    BY <1>1, <1>2 DEF TaskTypes, Untouched
<1>5. HoldsOwn(t)'
    BY <1>1, <1>2 DEF TaskTypes, HoldsOwn, storeVars
<1>6. NotesTrue(t)'
    BY <1>1, <1>2 DEF TaskTypes, NotesTrue, Truthful
<1>7. QED
    BY <1>2, <1>3, <1>4, <1>5, <1>6, WorldStays, TaskMoves

LEMMA GuardKeeps ==
    ASSUME SessionsInv, NEW t \in Tasks, Guard(t)
    PROVE  SessionsInv'
<1>1. TaskTypes /\ HoldsOwn(t) /\ NotesTrue(t) /\ pc[t] = "guard"
    BY DEF SessionsInv, Guard
<1>2. TaskTypes'
  <2>1. ASSUME NEW m \in menu
        PROVE  [stmt |-> m[1], max |-> MaxRowsOf(m[2])] \in Asked
    <3>1. m[1] \in Statements /\ m[2] \in Nat
      BY <2>1 DEF SessionsInv, WorldTypes
    <3>2. MaxRowsOf(m[2]) \in 0..RowCap
      BY <3>1, ExecutionAssumption DEF MaxRowsOf, Lesser
    <3>3. QED
      BY <3>1, <3>2 DEF Asked
  <2>2. asked' \in [Tasks -> Asked]
    BY <1>1, <2>1 DEF TaskTypes, Guard
  <2>3. QED
    BY <1>1, <2>2 DEF TaskTypes, Guard, Goto, Answer, Kept, Places, Replies, Statuses, Outcomes
<1>3. \A x \in Tasks \ {t} : Untouched(x)
    BY <1>1 DEF TaskTypes, Untouched, Guard, Goto, Answer, Kept
<1>4. HoldsOwn(t)'
    BY <1>1 DEF TaskTypes, HoldsOwn, Guard, Goto, Answer, Kept, sessionVars, storeVars
<1>5. NotesTrue(t)'
    BY <1>1 DEF TaskTypes, NotesTrue, Truthful, Guard, Goto, Answer, Kept
<1>6. QED
    BY <1>2, <1>3, <1>4, <1>5, WorldStays, TaskMoves DEF sessionVars, Guard

(* Whatever the statement and the engine, a run ends in one of three ways. *)
LEMMA StatementsEnd ==
    ASSUME NEW s, NEW e \in Engines, NEW max
    PROVE  Dispatch(s, e, max).outcome \in {"ok", "error", "panic"}
<1>1. \A rows, cut : Raw(rows, cut).outcome = "ok"
    BY DEF Raw
<1>2. Failed.outcome = "error" /\ Panicked.outcome = "panic"
    BY DEF Failed, Panicked
<1>3. QED
    BY <1>1, <1>2
       DEF Dispatch, Engines, RunOracle, RunSqlServer, RunPostgres, RunMySql, RunSqlite, RunMongo,
           RunRedis, SqlServerQuery, FetchAll, OracleCursor, MongoCursor, CountRow

LEMMA RunKeeps ==
    ASSUME SessionsInv, NEW t \in Tasks, Run(t)
    PROVE  SessionsInv'
<1>1. TaskTypes /\ HoldsOwn(t) /\ NotesTrue(t) /\ pc[t] = "run"
    BY DEF SessionsInv, Run
<1>0. reqConn[t] \in pools /\ RawOf(t).outcome \in {"ok", "error", "panic"}
  <2>1. held[t] \in SessionIds /\ reqConn[t] = conn[held[t]] /\ reqConn[t] \in Connections
    BY <1>1, SessionsAssumption DEF TaskTypes, HoldsOwn
  <2>2. reqConn[t] \in pools
    BY <1>1, <2>1 DEF SessionsInv, WorldSound, HoldsOwn
  <2>3. engine[reqConn[t]] \in Engines
    BY <2>1 DEF SessionsInv, WorldTypes
  <2>4. QED
    BY <2>2, <2>3, StatementsEnd DEF RawOf
<1>2. TaskTypes'
  <2>1. ran' \in [Tasks -> BOOLEAN]
    BY <1>1, <1>0 DEF TaskTypes, Run, StopWaiting
  <2>2. result' \in [Tasks -> Outcomes]
    BY <1>1, <1>0 DEF TaskTypes, Run, Outcomes
  <2>3. pc' \in [Tasks -> Places] /\ reply' \in [Tasks -> Replies]
    BY <1>1 DEF TaskTypes, Run, Goto, Answer, Places, Replies
  <2>4. UNCHANGED <<reqUser, reqConn, held, asked, logged>>
    BY DEF Run, Kept
  <2>5. QED
    BY <1>1, <2>1, <2>2, <2>3, <2>4 DEF TaskTypes
<1>3. \A x \in Tasks \ {t} : Untouched(x)
    BY <1>1 DEF TaskTypes, Untouched, Run, StopWaiting, Goto, Answer, Kept
<1>4. HoldsOwn(t)'
    BY <1>1 DEF TaskTypes, HoldsOwn, Run, Goto, Answer, Kept, sessionVars, storeVars
<1>5. NotesTrue(t)'
    BY <1>1, <1>0 DEF TaskTypes, NotesTrue, Truthful, Run, Goto, Answer, Kept
<1>6. QED
    BY <1>2, <1>3, <1>4, <1>5, WorldStays, TaskMoves DEF Run

(* Arrivals, which clear what the slot's last request left.                *)
LEMMA OpenKeeps ==
    ASSUME SessionsInv, NEW t \in Tasks, NEW u \in Users, NEW c \in Connections,
           Open(t, u, c) \/ Execute(t, u, c)
    PROVE  SessionsInv'
<1>1. TaskTypes /\ pc[t] = "idle"
    BY DEF SessionsInv, Open, Execute, Arrive
<1>2. Arrive(t, u, c) /\ UNCHANGED <<sessionVars, pools>>
    BY DEF Open, Execute
<1>3. PICK s \in SessionIds \cup {None}, place \in {"idle", "load", "recheck"},
           said \in {"none", "session", "noSession"} :
         /\ GetForConnection(u, c, s)
         /\ held' = [held EXCEPT ![t] = s]
         /\ pc' = [pc EXCEPT ![t] = place] /\ reply' = [reply EXCEPT ![t] = said]
         /\ \/ s # None /\ place = "idle" /\ said = "session"
            \/ s = None /\ place = "load" /\ said = "none"
            \/ s # None /\ place = "recheck" /\ said = "none"
            \/ s = None /\ place = "idle" /\ said = "noSession"
    BY DEF Open, Execute, Goto, Answer
<1>4. s # None => s \in SessionIds /\ conn[s] = c /\ user[s] = u /\ user[s] # None
    BY <1>3, FoundIsOwn, SessionsAssumption
<1>5. TaskTypes'
    BY <1>1, <1>2, <1>3 DEF TaskTypes, Arrive, Places, Replies, Statuses, Outcomes, Asked
<1>6. \A x \in Tasks \ {t} : Untouched(x)
    BY <1>1, <1>2, <1>3 DEF TaskTypes, Untouched, Arrive
<1>7. HoldsOwn(t)'
    BY <1>1, <1>2, <1>3, <1>4 DEF TaskTypes, HoldsOwn, Arrive, sessionVars, storeVars
<1>8. NotesTrue(t)'
    BY <1>1, <1>2, <1>3 DEF TaskTypes, NotesTrue, Truthful, Arrive
<1>9. QED
    BY <1>2, <1>5, <1>6, <1>7, <1>8, WorldStays, TaskMoves DEF sessionVars
-----------------------------------------------------------------------------
(* The steps that change the sessions or the pools.                        *)
LEMMA BuildPoolKeeps ==
    ASSUME SessionsInv, NEW t \in Tasks, BuildPool(t)
    PROVE  SessionsInv'
<1>1. TaskTypes /\ HoldsOwn(t) /\ NotesTrue(t) /\ pc[t] = "build"
    BY DEF SessionsInv, BuildPool
<1>2. /\ reqConn[t] \in Connections
      /\ \/ pools' = pools \cup {reqConn[t]} /\ pc' = [pc EXCEPT ![t] = "create"] /\ reply' = reply
         \/ /\ pools' = pools /\ pc' = [pc EXCEPT ![t] = "idle"]
            /\ reply' = [reply EXCEPT ![t] = "error"]
      /\ UNCHANGED <<sessionVars, reqUser, reqConn, held, asked, ran, result, logged>>
    BY <1>1 DEF BuildPool, Goto, Answer, Kept, HoldsOwn
<1>3. WorldTypes' /\ WorldSound' /\ WorldGrows
    BY <1>2 DEF SessionsInv, WorldTypes, WorldSound, WorldGrows, sessionVars, storeVars
<1>4. TaskTypes'
    BY <1>1, <1>2 DEF TaskTypes, Places, Replies
<1>5. \A x \in Tasks \ {t} : Untouched(x)
    BY <1>1, <1>2 DEF TaskTypes, Untouched
<1>6. HoldsOwn(t)'
    BY <1>1, <1>2 DEF TaskTypes, HoldsOwn, sessionVars, storeVars
<1>7. NotesTrue(t)'
    BY <1>1, <1>2 DEF TaskTypes, NotesTrue, Truthful
<1>8. QED
    BY <1>3, <1>4, <1>5, <1>6, <1>7, TaskMoves DEF sessionVars

LEMMA CreateSessionKeeps ==
    ASSUME SessionsInv, NEW t \in Tasks, CreateSession(t)
    PROVE  SessionsInv'
<1>1. TaskTypes /\ HoldsOwn(t) /\ NotesTrue(t) /\ pc[t] = "create" /\ WorldTypes /\ WorldSound
    BY DEF SessionsInv, CreateSession
<1>2. /\ reqUser[t] \in Users /\ reqUser[t] # None
      /\ reqConn[t] \in Connections /\ reqConn[t] \in pools
    BY <1>1, SessionsAssumption DEF HoldsOwn
<1>3. PICK s \in SessionIds : Insert(s, reqUser[t], reqConn[t]) /\ held' = [held EXCEPT ![t] = s]
    BY DEF CreateSession
<1>4. /\ pc' = [pc EXCEPT ![t] = "index"]
      /\ UNCHANGED <<pools, reqUser, reqConn, asked, ran, result, logged, reply>>
    BY DEF CreateSession, Goto, Kept
<1>5. /\ user[s] = None /\ user' = [user EXCEPT ![s] = reqUser[t]]
      /\ conn' = [conn EXCEPT ![s] = reqConn[t]]
      /\ registry' = registry \cup {s} /\ fresh' = fresh \cup {s}
      /\ UNCHANGED <<engine, menu, gone, byUser>>
    BY <1>3 DEF Insert
<1>6. WorldTypes'
    BY <1>1, <1>2, <1>4, <1>5 DEF WorldTypes
<1>7. WorldGrows
    BY <1>1, <1>4, <1>5 DEF WorldTypes, WorldGrows
<1>8. WorldSound'
  <2>1. \A x \in SessionIds : user'[x] # None => conn'[x] \in pools'
    BY <1>1, <1>2, <1>4, <1>5 DEF WorldTypes, WorldSound
  <2>2. \A x \in registry' : user'[x] # None
    BY <1>1, <1>2, <1>5 DEF WorldTypes, WorldSound
  <2>3. ASSUME NEW u \in Users, NEW i \in DOMAIN byUser[u]
        PROVE  user'[byUser[u][i]] = u
    <3>1. byUser[u][i] \in SessionIds /\ user[byUser[u][i]] = u /\ u # None
      BY <1>1, <2>3, SessionsAssumption DEF WorldTypes, WorldSound
    <3>2. QED
      BY <1>1, <1>5, <3>1 DEF WorldTypes
  <2>4. QED
    BY <1>5, <2>1, <2>2, <2>3 DEF WorldSound
<1>9. TaskTypes'
    BY <1>1, <1>3, <1>4 DEF TaskTypes, Places
<1>10. \A x \in Tasks \ {t} : Untouched(x)
    BY <1>1, <1>3, <1>4 DEF TaskTypes, Untouched
<1>11. HoldsOwn(t)'
  <2>1. user'[s] = reqUser[t] /\ conn'[s] = reqConn[t]
    BY <1>1, <1>5 DEF WorldTypes
  <2>2. /\ held'[t] = s /\ pc'[t] = "index" /\ reqUser'[t] = reqUser[t] /\ reqConn'[t] = reqConn[t]
        /\ s # None
    BY <1>1, <1>3, <1>4, SessionsAssumption DEF TaskTypes
  <2>3. QED
    BY <1>2, <2>1, <2>2 DEF HoldsOwn
<1>12. NotesTrue(t)'
    BY <1>1, <1>4 DEF TaskTypes, NotesTrue, Truthful
<1>13. QED
    BY <1>6, <1>7, <1>8, <1>9, <1>10, <1>11, <1>12, TaskMoves

LEMMA IndexSessionKeeps ==
    ASSUME SessionsInv, NEW t \in Tasks, IndexSession(t)
    PROVE  SessionsInv'
<1> DEFINE s == held[t]
<1>1. TaskTypes /\ HoldsOwn(t) /\ NotesTrue(t) /\ pc[t] = "index" /\ WorldTypes /\ WorldSound
    BY DEF SessionsInv, IndexSession
<1>2. s \in SessionIds /\ user[s] \in Users
    BY <1>1, SessionsAssumption DEF TaskTypes, HoldsOwn
<1>3. /\ pc' = [pc EXCEPT ![t] = "idle"] /\ reply' = [reply EXCEPT ![t] = "session"]
      /\ byUser' = [byUser EXCEPT ![user[s]] = Append(@, s)]
      /\ UNCHANGED <<engine, menu, gone, registry, user, conn, fresh, pools>>
      /\ UNCHANGED <<reqUser, reqConn, held, asked, ran, result, logged>>
    BY DEF IndexSession, Answer, Goto, Push, Kept
<1>4. WorldTypes' /\ WorldGrows
    BY <1>1, <1>2, <1>3 DEF WorldTypes, WorldGrows
<1>5. WorldSound'
  <2>1. ASSUME NEW u \in Users, NEW i \in DOMAIN byUser'[u]
        PROVE  user[byUser'[u][i]] = u
    <3>1. byUser[u] \in Seq(SessionIds) /\ \A j \in DOMAIN byUser[u] : user[byUser[u][j]] = u
      BY <1>1 DEF WorldTypes, WorldSound
    <3>2. CASE u = user[s]
      <4>1. byUser'[u] = Append(byUser[u], s)
        BY <1>1, <1>2, <1>3, <3>2 DEF WorldTypes
      <4>2. byUser'[u][i] = s \/ (i \in DOMAIN byUser[u] /\ byUser'[u][i] = byUser[u][i])
        <5> DEFINE list == byUser[u]
        <5>1. /\ list \in Seq(SessionIds) /\ i \in DOMAIN Append(list, s)
              /\ byUser'[u] = Append(list, s)
          BY <2>1, <3>1, <4>1
        <5> HIDE DEF list
        <5>2. i \in 1..(Len(list) + 1) /\ Len(list) \in Nat
          BY <1>2, <5>1
        <5>3. CASE i = Len(list) + 1
          BY <1>2, <5>1, <5>3
        <5>4. CASE i \in 1..Len(list)
          <6>1. i \in DOMAIN list /\ Append(list, s)[i] = list[i]
            BY <1>2, <5>1, <5>2, <5>4
          <6>2. QED
            BY <5>1, <6>1 DEF list
        <5>5. QED
          BY <5>2, <5>3, <5>4
      <4>3. QED
        BY <3>1, <3>2, <4>2
    <3>3. CASE u # user[s]
      BY <1>1, <1>2, <1>3, <2>1, <3>1, <3>3 DEF WorldTypes
    <3>4. QED
      BY <3>2, <3>3
  <2>2. QED
    BY <1>1, <1>3, <2>1 DEF WorldSound
<1>6. TaskTypes'
    BY <1>1, <1>3 DEF TaskTypes, Places, Replies
<1>7. \A x \in Tasks \ {t} : Untouched(x)
    BY <1>1, <1>3 DEF TaskTypes, Untouched
<1>8. HoldsOwn(t)'
    BY <1>1, <1>3 DEF TaskTypes, HoldsOwn
<1>9. NotesTrue(t)'
    BY <1>1, <1>3 DEF TaskTypes, NotesTrue, Truthful
<1>10. QED
    BY <1>4, <1>5, <1>6, <1>7, <1>8, <1>9, TaskMoves

LEMMA CloseKeeps ==
    ASSUME SessionsInv, NEW t \in Tasks, NEW s \in SessionIds, Close(t, s)
    PROVE  SessionsInv'
<1>1. TaskTypes /\ WorldTypes /\ WorldSound
    BY DEF SessionsInv
<1>2. /\ s \in registry /\ user[s] # None /\ s # None
      /\ Arrive(t, None, None) /\ held' = [held EXCEPT ![t] = s]
      /\ pc' = [pc EXCEPT ![t] = "remove"] /\ reply' = [reply EXCEPT ![t] = "none"]
      /\ fresh' = fresh \ {s}
      /\ UNCHANGED <<engine, menu, gone, registry, user, conn, byUser, pools>>
    BY <1>1, SessionsAssumption DEF Close, Goto, WorldSound
<1>3. WorldTypes' /\ WorldSound' /\ WorldGrows
    BY <1>1, <1>2 DEF WorldTypes, WorldSound, WorldGrows
<1>4. TaskTypes'
    BY <1>1, <1>2 DEF TaskTypes, Arrive, Places, Replies, Statuses, Outcomes, Asked
<1>5. \A x \in Tasks \ {t} : Untouched(x)
    BY <1>1, <1>2 DEF TaskTypes, Untouched, Arrive
<1>6. HoldsOwn(t)'
    BY <1>1, <1>2 DEF TaskTypes, HoldsOwn, Arrive
<1>7. NotesTrue(t)'
    BY <1>1, <1>2 DEF TaskTypes, NotesTrue, Truthful, Arrive
<1>8. QED
    BY <1>3, <1>4, <1>5, <1>6, <1>7, TaskMoves

LEMMA RemoveClosedKeeps ==
    ASSUME SessionsInv, NEW t \in Tasks, RemoveClosed(t)
    PROVE  SessionsInv'
<1>1. TaskTypes /\ HoldsOwn(t) /\ NotesTrue(t) /\ pc[t] = "remove" /\ WorldTypes /\ WorldSound
    BY DEF SessionsInv, RemoveClosed
<1>2. /\ pc' = [pc EXCEPT ![t] = "idle"] /\ reply' = [reply EXCEPT ![t] = "closed"]
      /\ registry' = registry \ {held[t]} /\ fresh' = fresh \ {held[t]}
      /\ UNCHANGED <<engine, menu, gone, user, conn, byUser, pools>>
      /\ UNCHANGED <<reqUser, reqConn, held, asked, ran, result, logged>>
    BY DEF RemoveClosed, Answer, Goto, Kept
<1>3. WorldTypes' /\ WorldSound' /\ WorldGrows
    BY <1>1, <1>2 DEF WorldTypes, WorldSound, WorldGrows
<1>4. TaskTypes'
    BY <1>1, <1>2 DEF TaskTypes, Places, Replies
<1>5. \A x \in Tasks \ {t} : Untouched(x)
    BY <1>1, <1>2 DEF TaskTypes, Untouched
<1>6. HoldsOwn(t)'
    BY <1>1, <1>2 DEF TaskTypes, HoldsOwn
<1>7. NotesTrue(t)'
    BY <1>1, <1>2 DEF TaskTypes, NotesTrue, Truthful
<1>8. QED
    BY <1>3, <1>4, <1>5, <1>6, <1>7, TaskMoves

LEMMA TouchAfterRunKeeps ==
    ASSUME SessionsInv, NEW t \in Tasks, TouchAfterRun(t)
    PROVE  SessionsInv'
<1>1. TaskTypes /\ HoldsOwn(t) /\ NotesTrue(t) /\ pc[t] = "touch" /\ WorldTypes /\ WorldSound
    BY DEF SessionsInv, TouchAfterRun
<1>2. /\ pc' = [pc EXCEPT ![t] = "log"]
      /\ fresh' = IF held[t] \in registry THEN fresh \cup {held[t]} ELSE fresh
      /\ UNCHANGED <<engine, menu, gone, registry, user, conn, byUser, pools>>
      /\ UNCHANGED <<reqUser, reqConn, held, asked, ran, result, logged, reply>>
    BY DEF TouchAfterRun, Touch, Goto, Kept
<1>3. WorldTypes' /\ WorldSound' /\ WorldGrows
    BY <1>1, <1>2 DEF WorldTypes, WorldSound, WorldGrows
<1>4. TaskTypes'
    BY <1>1, <1>2 DEF TaskTypes, Places
<1>5. \A x \in Tasks \ {t} : Untouched(x)
    BY <1>1, <1>2 DEF TaskTypes, Untouched
<1>6. HoldsOwn(t)'
    BY <1>1, <1>2 DEF TaskTypes, HoldsOwn
<1>7. NotesTrue(t)'
    BY <1>1, <1>2 DEF TaskTypes, NotesTrue, Truthful
<1>8. QED
    BY <1>3, <1>4, <1>5, <1>6, <1>7, TaskMoves

(* Time and deletions touch no request.                                    *)
LEMMA WorldMoves ==
    ASSUME SessionsInv, UNCHANGED requestVars,
           fresh' \subseteq fresh, gone' \subseteq Connections,
           UNCHANGED <<engine, menu, registry, user, conn, byUser, pools>>
    PROVE  SessionsInv'
<1>1. TaskTypes /\ WorldTypes /\ WorldSound
    BY DEF SessionsInv
<1>2. WorldTypes' /\ WorldSound' /\ WorldGrows
    BY <1>1 DEF WorldTypes, WorldSound, WorldGrows
<1>3. TaskTypes'
    BY <1>1 DEF TaskTypes, requestVars
<1>4. \A x \in Tasks : Untouched(x)
    BY DEF Untouched, requestVars
<1>5. QED
    BY <1>2, <1>3, <1>4, OthersKept DEF SessionsInv

LEMMA SessionsInvStep == SessionsInv /\ [Next]_vars => SessionsInv'
<1> SUFFICES ASSUME SessionsInv, [Next]_vars PROVE SessionsInv'
    OBVIOUS
<1>1. ASSUME NEW t \in Tasks, RequestStep(t) PROVE SessionsInv'
    BY <1>1, LoadConnectionKeeps, CheckPoolKeeps, BuildPoolKeeps, CreateSessionKeeps,
       IndexSessionKeeps, RemoveClosedKeeps, RecheckKeeps, GuardKeeps, LogRejectedKeeps, RunKeeps,
       TouchAfterRunKeeps, LogResultKeeps
       DEF RequestStep
<1>2. gone \subseteq Connections
    BY DEF SessionsInv, WorldTypes
<1>3. ASSUME NEW s \in SessionIds, TimeRunsOut(s) PROVE SessionsInv'
    BY <1>2, <1>3, WorldMoves DEF TimeRunsOut
<1>4. ASSUME NEW c \in Connections, DeleteConnection(c) PROVE SessionsInv'
    BY <1>2, <1>4, WorldMoves DEF DeleteConnection
<1>7. ASSUME NEW c \in Connections, LooseEnds(c) PROVE SessionsInv'
    BY <1>2, <1>7, WorldMoves DEF LooseEnds, storeVars
<1>5. CASE UNCHANGED vars
    BY <1>2, <1>5, WorldMoves DEF vars, requestVars
<1>6. QED
    BY <1>1, <1>3, <1>4, <1>5, <1>7, OpenKeeps, CloseKeeps, DisconnectKeeps DEF Next

LEMMA SessionsInvInit == Init => SessionsInv
<1> SUFFICES ASSUME Init PROVE SessionsInv
    OBVIOUS
<1>1. WorldTypes
    BY SessionsAssumption DEF Init, WorldTypes
<1>2. WorldSound
    BY DEF Init, WorldSound
<1>3. TaskTypes
    BY DEF Init, TaskTypes, Places, Outcomes, Statuses, Asked, Replies
<1>4. \A t \in Tasks : HoldsOwn(t) /\ NotesTrue(t)
    BY DEF Init, HoldsOwn, NotesTrue, Truthful
<1>5. QED
    BY <1>1, <1>2, <1>3, <1>4 DEF SessionsInv

(* Sessions and requests are sound in every reachable state.               *)
THEOREM SessionsInvariant == Spec => []SessionsInv
    BY SessionsInvInit, SessionsInvStep, PTL DEF Spec

(* What blocking threads are left with are statements for connections.     *)
LEMMA LooseTyped ==
    ASSUME SessionsInv, loose \subseteq Connections, [Next]_vars
    PROVE  loose' \subseteq Connections
<1>1. ASSUME NEW t \in Tasks, Run(t) \/ Disconnect(t) PROVE loose' \subseteq Connections
  <2>1. loose' = loose \/ (pc[t] = "run" /\ loose' = loose \cup {reqConn[t]})
    BY <1>1 DEF Run, Disconnect, StopWaiting
  <2>2. pc[t] = "run" => reqConn[t] \in Connections
    BY DEF SessionsInv, HoldsOwn
  <2>3. QED
    BY <2>1, <2>2
<1>2. ASSUME NEW t \in Tasks, RequestStep(t), ~Run(t) PROVE loose' = loose
    BY <1>2
       DEF RequestStep, LoadConnection, CheckPool, BuildPool, CreateSession, Insert, IndexSession,
           Push, RemoveClosed, Recheck, Guard, LogRejected, TouchAfterRun, Touch, LogResult,
           sessionVars
<1>3. QED
    BY <1>1, <1>2
       DEF Next, Open, Execute, Close, TimeRunsOut, DeleteConnection, LooseEnds, sessionVars, vars

(* Every variable has its type.                                            *)
THEOREM SessionsTypeCorrect == Spec => []TypeOK
<1>1. SessionsInv /\ loose \subseteq Connections => TypeOK
  <2>1. TaskTypes => \A t \in Tasks : asked[t] = Nothing \/ (/\ asked[t].stmt \in Statements
                                                             /\ asked[t].max <= RowCap)
    BY ExecutionAssumption DEF TaskTypes, Asked
  <2>2. QED
    BY <2>1 DEF SessionsInv, WorldTypes, TaskTypes, TypeOK, Places, Outcomes, Statuses
<1>2. Init => loose \subseteq Connections
    BY DEF Init
<1>3. SessionsInv /\ loose \subseteq Connections /\ [Next]_vars => (loose \subseteq Connections)'
    BY LooseTyped
<1>4. QED
    BY <1>1, <1>2, <1>3, SessionsInvariant, PTL DEF Spec

(* No statement is refused for want of a pool.                             *)
THEOREM SessionsHavePools == Spec => []SessionHasPool
<1>1. SessionsInv => SessionHasPool
    BY DEF SessionsInv, WorldTypes, WorldSound, NotesTrue, SessionHasPool
<1>2. QED
    BY <1>1, SessionsInvariant, PTL

(* Requests work under sessions of their own user and connection.          *)
THEOREM SessionsAreOwn == Spec => []SessionIsOwn
<1>1. SessionsInv => SessionIsOwn
    BY DEF SessionsInv, HoldsOwn, SessionIsOwn
<1>2. QED
    BY <1>1, SessionsInvariant, PTL

(* The answer of execute tells what happened.                              *)
THEOREM RepliesAreTrue == Spec => []ReplyTruthful
<1>1. SessionsInv => ReplyTruthful
    BY DEF SessionsInv, NotesTrue, Truthful, ReplyTruthful
<1>2. QED
    BY <1>1, SessionsInvariant, PTL

(* A closed session never comes back.                                      *)
THEOREM ClosedForGood == Spec => ClosedStaysClosed
<1>1. ASSUME [Next]_vars, NEW s \in SessionIds, user[s] # None, s \notin registry
      PROVE  s \notin registry'
  <2>1. ASSUME NEW t \in Tasks, RequestStep(t) PROVE s \notin registry'
    BY <1>1, <2>1
       DEF RequestStep, LoadConnection, CheckPool, BuildPool, CreateSession, Insert, IndexSession,
           Push, RemoveClosed, Recheck, Guard, LogRejected, Run, TouchAfterRun, Touch, LogResult,
           sessionVars, storeVars
  <2>2. QED
    BY <1>1, <2>1
       DEF Next, Open, Execute, Close, Disconnect, TimeRunsOut, DeleteConnection, LooseEnds, sessionVars, storeVars, vars
<1>2. [Next]_vars =>
        [\A s \in SessionIds : user[s] # None /\ s \notin registry => s \notin registry']_vars
    BY <1>1
<1>3. QED
    BY <1>2, PTL DEF Spec, ClosedStaysClosed

(* A step of any request, of time or of a deletion leaves it quiet.        *)
LEMMA QuietStays ==
    ASSUME SessionsInv, [Next]_vars, NEW c \in Connections, Quiet(c)
    PROVE  Quiet(c)'
<1>1. TaskTypes /\ WorldTypes /\ WorldSound /\ \A t \in Tasks : HoldsOwn(t)
    BY DEF SessionsInv
<1>2. /\ c \in gone
      /\ c \notin loose
      /\ \A s \in registry \cap fresh : conn[s] # c
      /\ \A t \in Tasks : reqConn[t] = c =>
            pc[t] \notin {"check", "build", "create", "index", "recheck", "guard", "run", "touch"}
    BY DEF Quiet
<1>3. c \in gone'
  <2>1. ASSUME NEW t \in Tasks, RequestStep(t) PROVE gone' = gone
    BY <2>1
       DEF RequestStep, LoadConnection, CheckPool, BuildPool, CreateSession, Insert, IndexSession,
           Push, RemoveClosed, Recheck, Guard, LogRejected, Run, TouchAfterRun, Touch, LogResult,
           sessionVars, storeVars
  <2>2. QED
    BY <1>2, <2>1
       DEF Next, Open, Execute, Close, Disconnect, TimeRunsOut, DeleteConnection, LooseEnds, sessionVars, storeVars, vars
<1>4. ASSUME registry' \cap fresh' \subseteq registry \cap fresh, conn' = conn
      PROVE  \A s \in registry' \cap fresh' : conn'[s] # c
    BY <1>2, <1>4
<1>5. \A s \in registry' \cap fresh' : conn'[s] # c
  <2>1. ASSUME NEW t \in Tasks, CreateSession(t) PROVE \A s \in registry' \cap fresh' : conn'[s] # c
    <3>1. pc[t] = "create" /\ reqConn[t] # c
      BY <1>2, <2>1 DEF CreateSession
    <3>2. PICK s \in SessionIds : Insert(s, reqUser[t], reqConn[t])
      BY <2>1 DEF CreateSession
    <3>3. ASSUME NEW x \in registry' \cap fresh' PROVE conn'[x] # c
      <4>1. x = s \/ x \in registry \cap fresh
        BY <1>1, <3>2, <3>3 DEF Insert, WorldTypes, WorldSound
      <4>2. CASE x = s
        BY <1>1, <3>1, <3>2, <4>2 DEF Insert, WorldTypes
      <4>3. CASE x # s
        BY <1>1, <1>2, <3>2, <4>1, <4>3 DEF Insert, WorldTypes
      <4>4. QED
        BY <4>2, <4>3
    <3>4. QED
      BY <3>3
  <2>2. ASSUME NEW t \in Tasks, TouchAfterRun(t) PROVE \A s \in registry' \cap fresh' : conn'[s] # c
    <3>1. pc[t] = "touch" /\ reqConn[t] # c
      BY <1>2, <2>2 DEF TouchAfterRun
    <3>2. conn[held[t]] # c
      BY <1>1, <3>1, SessionsAssumption DEF HoldsOwn
    <3>3. QED
      BY <1>2, <2>2, <3>2 DEF TouchAfterRun, Touch
  <2>3. ASSUME NEW t \in Tasks, RequestStep(t), ~CreateSession(t), ~TouchAfterRun(t)
        PROVE  registry' \cap fresh' \subseteq registry \cap fresh /\ conn' = conn
    BY <2>3
       DEF RequestStep, LoadConnection, CheckPool, BuildPool, IndexSession, Push, RemoveClosed,
           Recheck, Guard, LogRejected, Run, LogResult, sessionVars, storeVars
  <2>4. CASE ~ \E t \in Tasks : RequestStep(t)
    <3>1. registry' \cap fresh' \subseteq registry \cap fresh /\ conn' = conn
      BY <2>4
         DEF Next, Open, Execute, Close, Disconnect, TimeRunsOut, DeleteConnection, LooseEnds, sessionVars, storeVars, vars
    <3>2. QED
      BY <1>4, <3>1
  <2>5. QED
    BY <1>4, <2>1, <2>2, <2>3, <2>4
<1>6. ASSUME NEW t \in Tasks, reqConn'[t] = c
      PROVE  pc'[t] \notin {"check", "build", "create", "index", "recheck", "guard", "run", "touch"}
  <2> DEFINE Loud == {"check", "build", "create", "index", "recheck", "guard", "run", "touch"}
  <2>1. ASSUME NEW x \in Tasks, NEW u \in Users, NEW d \in Connections,
               Open(x, u, d) \/ Execute(x, u, d)
        PROVE  pc'[t] \notin Loud
    <3>1. CASE x # t
      <4>1. pc'[t] = pc[t] /\ reqConn'[t] = reqConn[t]
        BY <1>1, <2>1, <3>1 DEF TaskTypes, Open, Execute, Arrive, Goto, Answer
      <4>2. QED
        BY <1>2, <1>6, <4>1
    <3>2. CASE x = t
      <4>1. d = c
        BY <1>1, <1>6, <2>1, <3>2 DEF TaskTypes, Open, Execute, Arrive
      <4>2. \A s : GetForConnection(u, d, s) => s = None
        BY <1>2, <4>1, FoundIsOwn
      <4>3. pc'[t] \in {"idle", "load"}
        BY <1>1, <2>1, <3>2, <4>2 DEF TaskTypes, Open, Execute, Arrive, Goto, Answer
      <4>4. QED
        BY <4>3
    <3>3. QED
      BY <3>1, <3>2
  <2>2. ASSUME NEW x \in Tasks, NEW s \in SessionIds, Close(x, s) PROVE pc'[t] \notin Loud
    BY <1>1, <1>2, <1>6, <2>2, SessionsAssumption DEF TaskTypes, Close, Arrive, Goto
  <2>3. ASSUME NEW x \in Tasks, RequestStep(x) \/ Disconnect(x) PROVE pc'[t] \notin Loud
    <3>1. reqConn' = reqConn
      BY <2>3
         DEF RequestStep, LoadConnection, CheckPool, BuildPool, CreateSession, IndexSession,
             RemoveClosed, Recheck, Guard, LogRejected, Run, TouchAfterRun, LogResult, Kept,
             Disconnect
    <3>2. pc[t] \notin Loud
      BY <1>2, <1>6, <3>1
    <3>3. CASE x # t
      <4>1. pc'[t] = pc[t]
        BY <1>1, <2>3, <3>3
           DEF TaskTypes, RequestStep, LoadConnection, CheckPool, BuildPool, CreateSession,
               IndexSession, RemoveClosed, Recheck, Guard, LogRejected, Run, TouchAfterRun,
               LogResult, SaveHistory, Disconnect, Goto, Answer
      <4>2. QED
        BY <3>2, <4>1
    <3>4. CASE x = t
      <4>1. pc[t] \in {"load", "remove", "logRejected", "log"}
        BY <2>3, <3>2, <3>4
           DEF RequestStep, LoadConnection, CheckPool, BuildPool, CreateSession, IndexSession,
               RemoveClosed, Recheck, Guard, LogRejected, Run, TouchAfterRun, LogResult, Disconnect
      <4>2. LoadConnection(t) \/ RemoveClosed(t) \/ LogRejected(t) \/ LogResult(t) \/ Disconnect(t)
        BY <2>3, <3>4, <4>1
           DEF RequestStep, CheckPool, BuildPool, CreateSession, IndexSession, Recheck, Guard, Run,
               TouchAfterRun
      <4>3. pc'[t] = "idle"
        BY <1>1, <1>2, <1>6, <3>1, <4>2
           DEF TaskTypes, LoadConnection, RemoveClosed, LogRejected, LogResult, SaveHistory,
               Disconnect, Goto, Answer
      <4>4. QED
        BY <4>3
    <3>5. QED
      BY <3>3, <3>4
  <2>4. CASE pc' = pc /\ reqConn' = reqConn
    BY <1>2, <1>6, <2>4
  <2>5. QED
    BY <2>1, <2>2, <2>3, <2>4 DEF Next, TimeRunsOut, DeleteConnection, LooseEnds, requestVars, vars
<1>8. c \notin loose'
  <2>1. ASSUME NEW t \in Tasks, Run(t) \/ Disconnect(t) PROVE c \notin loose'
    <3>1. loose' = loose \/ (pc[t] = "run" /\ loose' = loose \cup {reqConn[t]})
      BY <2>1 DEF Run, Disconnect, StopWaiting
    <3>2. pc[t] = "run" => reqConn[t] # c
      BY <1>2
    <3>3. QED
      BY <1>2, <3>1, <3>2
  <2>2. ASSUME NEW t \in Tasks, RequestStep(t), ~Run(t) PROVE loose' = loose
    BY <2>2
       DEF RequestStep, LoadConnection, CheckPool, BuildPool, CreateSession, Insert, IndexSession,
           Push, RemoveClosed, Recheck, Guard, LogRejected, TouchAfterRun, Touch, LogResult,
           sessionVars
  <2>3. QED
    BY <1>2, <2>1, <2>2
       DEF Next, Open, Execute, Close, TimeRunsOut, DeleteConnection, LooseEnds, sessionVars, vars
<1>7. QED
    BY <1>3, <1>5, <1>6, <1>8 DEF Quiet

(* Once a deleted connection is quiet it stays so: nothing opens it again  *)
(* and no statement reaches its database, a statement that outlives its    *)
(* request on a blocking thread counted as one that may.                   *)
THEOREM DeletedIsQuiet == Spec => DeletedThenQuiet
<1>1. SessionsInv /\ [Next]_vars => [\A c \in Connections : Quiet(c) => Quiet(c)']_vars
    BY QuietStays
<1>2. QED
    BY <1>1, SessionsInvariant, PTL DEF Spec, DeletedThenQuiet
-----------------------------------------------------------------------------
(* The events of an execution.                                             *)

LEMMA DivideNat ==
    ASSUME NEW m \in Nat, NEW b \in Nat \ {0}
    PROVE  /\ m \div b \in Nat
           /\ b * (m \div b) <= m
           /\ m < b * (m \div b) + b
    OBVIOUS

LEMMA TimesMonotone ==
    ASSUME NEW b \in Nat, NEW i \in Nat, NEW j \in Nat, i <= j
    PROVE  b * i <= b * j /\ b * i \in Nat /\ b * j \in Nat
    OBVIOUS

LEMMA TimesStep ==
    ASSUME NEW b \in Nat, NEW i \in Nat
    PROVE  b * (i + 1) = b * i + b /\ i * b = b * i /\ (i - 1) * b = b * i - b
    OBVIOUS

(* How many events there are, and where each of them ends.                 *)
EventCount(n) == (n + Batch - 1) \div Batch

LEMMA EventBounds ==
    ASSUME NEW n \in Nat, NEW i \in 1..EventCount(n)
    PROVE  /\ EventCount(n) \in Nat
           /\ (i - 1) * Batch \in 0..(n - 1)
           /\ i < EventCount(n) => (i - 1) * Batch + Batch < n
           /\ i = EventCount(n) => (i - 1) * Batch + Batch >= n
<1> DEFINE N == EventCount(n)
<1>1. /\ Batch \in Nat \ {0} /\ n + Batch - 1 \in Nat
    BY ExecutionAssumption
<1>2. N \in Nat /\ Batch * N <= n + Batch - 1 /\ n + Batch - 1 < Batch * N + Batch
    BY <1>1, DivideNat DEF EventCount
<1>3. i \in Nat /\ i >= 1 /\ i <= N /\ i - 1 \in Nat
    BY <1>2
<1>4. Batch * i \in Nat /\ Batch * N \in Nat /\ Batch * i <= Batch * N
    BY <1>1, <1>2, <1>3, TimesMonotone
<1>5. (i - 1) * Batch = Batch * i - Batch /\ Batch * (i - 1) \in Nat /\ (i - 1) * Batch = Batch * (i - 1)
    BY <1>1, <1>3, TimesStep, TimesMonotone
<1>6. i < N => Batch * i + Batch <= Batch * N
  <2>1. SUFFICES ASSUME i < N PROVE Batch * i + Batch <= Batch * N
      OBVIOUS
  <2>2. i + 1 \in Nat /\ i + 1 <= N
      BY <1>2, <1>3, <2>1
  <2>3. Batch * (i + 1) <= Batch * N
      BY <1>1, <1>2, <2>2, TimesMonotone
  <2>4. Batch * (i + 1) = Batch * i + Batch
      BY <1>1, <1>3, TimesStep
  <2>5. QED
      BY <2>3, <2>4
<1> DEFINE p == Batch * i
           q == Batch * N
           f == (i - 1) * Batch
<1>7. p \in Nat /\ q \in Nat /\ f \in Nat /\ p <= q /\ f = p - Batch /\ q <= n + Batch - 1
      /\ n + Batch - 1 < q + Batch /\ (i < N => p + Batch <= q) /\ (i = N => p = q)
    BY <1>2, <1>4, <1>5, <1>6
<1> HIDE DEF N, p, q, f
<1>8. f \in 0..(n - 1) /\ (i < N => f + Batch < n) /\ (i = N => f + Batch >= n)
    BY <1>1, <1>7
<1>9. QED
    BY <1>2, <1>8 DEF N, f

(* Each event begins where the one before it ended, holds one to Batch     *)
(* rows, and the last ends with the result.                                *)
LEMMA BatchesPartition ==
    ASSUME NEW S, NEW rows \in Seq(S), NEW b, b = Batches(rows)
    PROVE  /\ \A i \in DOMAIN b :
                /\ b[i].offset = IF i = 1 THEN 0 ELSE b[i - 1].offset + Len(b[i - 1].rows)
                /\ Len(b[i].rows) \in 1..Batch
                /\ \A j \in DOMAIN b[i].rows :
                      /\ b[i].offset + j \in 1..Len(rows)
                      /\ b[i].rows[j] = rows[b[i].offset + j]
           /\ Len(rows) = IF b = <<>> THEN 0 ELSE b[Len(b)].offset + Len(b[Len(b)].rows)
<1> DEFINE n == Len(rows)
           N == EventCount(n)
           First(i) == (i - 1) * Batch
           Last(i) == Lesser(First(i) + Batch, n)
<1>1. n \in Nat /\ Batch \in Nat \ {0} /\ (n + Batch - 1) \in Nat
    BY ExecutionAssumption
<1>2. N \in Nat
    BY <1>1, DivideNat DEF EventCount
<1>3. b = [i \in 1..N |-> [offset |-> First(i), rows |-> SubSeq(rows, First(i) + 1, Last(i))]]
    BY DEF Batches, EventCount
<1>4. DOMAIN b = 1..N /\ Len(b) = N
    BY <1>2, <1>3
<1>5. \A i \in 1..N : b[i].offset = First(i) /\ b[i].rows = SubSeq(rows, First(i) + 1, Last(i))
    BY <1>3
<1>6. ASSUME NEW i \in 1..N
      PROVE  /\ i \in Nat /\ First(i) \in 0..(n - 1)
             /\ i < N => First(i) + Batch < n
             /\ i = N => First(i) + Batch >= n
    BY <1>1, <1>2, EventBounds
<1>7. ASSUME NEW i \in 1..N
      PROVE  Last(i) \in 1..n /\ Last(i) > First(i) /\ Last(i) <= First(i) + Batch
    BY <1>1, <1>6 DEF Lesser
<1>8. ASSUME NEW i \in 1..N
      PROVE  /\ Len(b[i].rows) = Last(i) - First(i)
             /\ DOMAIN b[i].rows = 1..(Last(i) - First(i))
             /\ \A j \in 1..(Last(i) - First(i)) : b[i].rows[j] = rows[First(i) + j]
  <2> DEFINE m == First(i) + 1
             l == Last(i)
  <2>1. m \in 1..n /\ l \in 1..n /\ m <= l /\ l - m + 1 = l - First(i)
      BY <1>6, <1>7, <1>1
  <2>2. \A k \in m..l : rows[k] \in S
      BY <2>1, <1>1
  <2>3. /\ SubSeq(rows, m, l) \in Seq(S)
        /\ Len(SubSeq(rows, m, l)) = IF m <= l THEN l - m + 1 ELSE 0
        /\ \A k \in 1..(l - m + 1) : SubSeq(rows, m, l)[k] = rows[m + k - 1]
      <3> HIDE DEF m, l
      <3> QED
      BY <2>1, <2>2, SubSeqProperties
  <2>4. b[i].rows = SubSeq(rows, m, l)
      BY <1>5
  <2>5. \A j \in 1..(l - m + 1) : m + j - 1 = First(i) + j
      BY <2>1, <1>6, <1>1
  <2>6. QED
      BY <2>1, <2>3, <2>4, <2>5
<1>9. ASSUME NEW i \in 1..N
      PROVE  b[i].offset = IF i = 1 THEN 0 ELSE b[i - 1].offset + Len(b[i - 1].rows)
  <2>1. CASE i = 1
    BY <1>1, <1>5, <2>1
  <2>2. CASE i # 1
    <3>1. i - 1 \in 1..N /\ i - 1 < N /\ First(i) = First(i - 1) + Batch
      <4>1. i - 1 \in 1..N /\ i - 1 < N /\ i - 1 \in Nat
        BY <1>2, <2>2
      <4>2. ((i - 1) - 1) * Batch = Batch * (i - 1) - Batch /\ (i - 1) * Batch = Batch * (i - 1)
        BY <1>1, <4>1, TimesStep
      <4>3. Batch * (i - 1) \in Nat
        BY <1>1, <4>1, TimesMonotone
      <4>4. QED
        BY <1>1, <4>1, <4>2, <4>3
    <3>2. Last(i - 1) = First(i - 1) + Batch /\ First(i - 1) \in Nat
      BY <1>1, <1>6, <3>1 DEF Lesser
    <3>3. b[i - 1].offset = First(i - 1) /\ Len(b[i - 1].rows) = Last(i - 1) - First(i - 1)
      BY <1>5, <1>8, <3>1
    <3>4. QED
      BY <1>1, <1>5, <2>2, <3>1, <3>2, <3>3
  <2>3. QED
    BY <2>1, <2>2
<1>10. Len(rows) = IF b = <<>> THEN 0 ELSE b[Len(b)].offset + Len(b[Len(b)].rows)
  <2>1. CASE N = 0
    <3>1. b = <<>>
      BY <1>3, <2>1
    <3>2. n = 0
      <4>1. Batch * N <= n + Batch - 1 /\ n + Batch - 1 < Batch * N + Batch
        BY <1>1, DivideNat DEF EventCount
      <4>2. Batch * N = 0
        BY <1>1, <2>1
      <4>3. QED
        BY <1>1, <4>1, <4>2
    <3>3. QED
      BY <3>1, <3>2
  <2>2. CASE N # 0
    <3>1. N \in 1..N /\ b # <<>>
      BY <1>2, <1>4, <2>2
    <3>2. Last(N) = n /\ First(N) \in Nat
      BY <1>1, <1>6, <3>1 DEF Lesser
    <3>3. b[N].offset = First(N) /\ Len(b[N].rows) = Last(N) - First(N)
      BY <1>5, <1>8, <3>1
    <3>4. QED
      BY <1>1, <1>4, <3>1, <3>2, <3>3
  <2>3. QED
    BY <2>1, <2>2
<1>11. ASSUME NEW i \in 1..N
       PROVE  /\ Len(b[i].rows) \in 1..Batch
              /\ \A j \in DOMAIN b[i].rows :
                      /\ b[i].offset + j \in 1..Len(rows)
                      /\ b[i].rows[j] = rows[b[i].offset + j]
  <2>1. First(i) \in Nat /\ Last(i) \in 1..n /\ Last(i) > First(i) /\ Last(i) <= First(i) + Batch
    BY <1>1, <1>6, <1>7
  <2>2. b[i].offset = First(i)
    BY <1>5
  <2>3. /\ Len(b[i].rows) = Last(i) - First(i)
        /\ DOMAIN b[i].rows = 1..(Last(i) - First(i))
        /\ \A j \in 1..(Last(i) - First(i)) : b[i].rows[j] = rows[First(i) + j]
    BY <1>8
  <2> HIDE DEF First, Last, N
  <2>4. Len(b[i].rows) \in 1..Batch
    BY <1>1, <2>1, <2>3
  <2>5. ASSUME NEW j \in DOMAIN b[i].rows
        PROVE  b[i].offset + j \in 1..Len(rows) /\ b[i].rows[j] = rows[b[i].offset + j]
    BY <1>1, <2>1, <2>2, <2>3
  <2>6. QED
    BY <2>4, <2>5
<1> HIDE DEF N
<1>12. ASSUME NEW i \in DOMAIN b
       PROVE  /\ b[i].offset = IF i = 1 THEN 0 ELSE b[i - 1].offset + Len(b[i - 1].rows)
              /\ Len(b[i].rows) \in 1..Batch
              /\ \A j \in DOMAIN b[i].rows :
                    /\ b[i].offset + j \in 1..Len(rows)
                    /\ b[i].rows[j] = rows[b[i].offset + j]
    BY <1>4, <1>9, <1>11
<1>13. QED
    BY <1>10, <1>12

(* What an executor returns: the first rows of the result, cell by cell,   *)
(* or one row.                                                             *)
LEMMA FirstRowsAre ==
    ASSUME NEW rows \in Seq(STRING), NEW max \in Nat
    PROVE  /\ FirstRows(rows, max) \in Seq(STRING)
           /\ Len(FirstRows(rows, max)) = Lesser(max, Len(rows))
           /\ Lesser(max, Len(rows)) \in Nat
           /\ \A i \in 1..Lesser(max, Len(rows)) : FirstRows(rows, max)[i] = rows[i]
<1> DEFINE m == Lesser(Len(rows), max)
<1>1. m \in Nat /\ m <= Len(rows) /\ m = Lesser(max, Len(rows))
    BY DEF Lesser
<1>2. \A i \in 1..m : rows[i] \in STRING
    BY <1>1
<1> HIDE DEF m
<1>3. /\ SubSeq(rows, 1, m) \in Seq(STRING)
      /\ Len(SubSeq(rows, 1, m)) = IF 1 <= m THEN m - 1 + 1 ELSE 0
      /\ \A i \in 1..(m - 1 + 1) : SubSeq(rows, 1, m)[i] = rows[1 + i - 1]
    BY <1>1, <1>2, SubSeqProperties
<1>4. \A i \in 1..m : i \in 1..(m - 1 + 1) /\ 1 + i - 1 = i
    BY <1>1
<1>5. FirstRows(rows, max) = SubSeq(rows, 1, m)
    BY DEF FirstRows, m
<1>6. QED
    BY <1>1, <1>3, <1>4, <1>5

(* What Convert makes of a result: each cell with the number of its row.   *)
Shown(e) == Nat \X {Cell(e, x) : x \in STRING}

LEMMA ConvertIs ==
    ASSUME NEW types \in Seq(STRING), NEW e
    PROVE  /\ Convert(types, e) \in Seq(Shown(e))
           /\ Len(Convert(types, e)) = Len(types)
           /\ \A i \in 1..Len(types) : Convert(types, e)[i] = <<i, Cell(e, types[i])>>
<1>1. Convert(types, e) = [i \in 1..Len(types) |-> <<i, Cell(e, types[i])>>]
    BY DEF Convert
<1>2. \A i \in 1..Len(types) : i \in Nat /\ types[i] \in STRING
    OBVIOUS
<1>3. \A i \in 1..Len(types) : <<i, Cell(e, types[i])>> \in Shown(e)
    BY <1>2 DEF Shown
<1>4. Len(types) \in Nat
    OBVIOUS
<1>5. QED
    BY <1>1, <1>3, <1>4

(* The events of a result cut after max rows ...                           *)
LEMMA CutReports ==
    ASSUME NEW s, s.rows \in Seq(STRING), NEW e \in Engines, NEW max \in Nat,
           e # "redis", ~(e \in {"oracle", "sqlserver"} /\ ~IsQuery(s)),
           NEW raw, raw = Raw(Convert(FirstRows(s.rows, max), e), Len(s.rows) > max)
    PROVE  Reports(EventsOf(raw), s, e, max)
<1> DEFINE cut == FirstRows(s.rows, max)
           rows == Convert(cut, e)
           w == Lesser(max, Len(s.rows))
<1>1. s.rows \in Seq(STRING) /\ Len(s.rows) \in Nat
    OBVIOUS
<1>2. /\ cut \in Seq(STRING) /\ Len(cut) = w /\ w \in Nat
      /\ \A i \in 1..w : cut[i] = s.rows[i]
    BY <1>1, FirstRowsAre
<1>3. /\ rows \in Seq(Shown(e)) /\ Len(rows) = w
      /\ \A i \in 1..w : rows[i] = <<i, Cell(e, s.rows[i])>>
  <2> HIDE DEF cut, w
  <2>1. /\ rows \in Seq(Shown(e)) /\ Len(rows) = Len(cut)
        /\ \A i \in 1..Len(cut) : rows[i] = <<i, Cell(e, cut[i])>>
    BY <1>2, ConvertIs
  <2>2. QED
    BY <1>2, <2>1
<1> HIDE DEF cut, rows, w
<1>4. raw.rows = rows /\ raw.truncated = (Len(s.rows) > max)
    BY DEF Raw, rows, cut
<1> DEFINE b == Batches(rows)
           events == EventsOf(raw)
<1>5. events.batches = b /\ events.affected = w /\ events.truncated = (Len(s.rows) > max)
    BY <1>3, <1>4 DEF EventsOf
<1>6. /\ \A i \in DOMAIN b :
            /\ b[i].offset = IF i = 1 THEN 0 ELSE b[i - 1].offset + Len(b[i - 1].rows)
            /\ Len(b[i].rows) \in 1..Batch
            /\ \A j \in DOMAIN b[i].rows :
                  /\ b[i].offset + j \in 1..Len(rows)
                  /\ b[i].rows[j] = rows[b[i].offset + j]
      /\ Len(rows) = IF b = <<>> THEN 0 ELSE b[Len(b)].offset + Len(b[Len(b)].rows)
    BY <1>3, BatchesPartition
<1> HIDE DEF b, events
<1>7. \A i \in DOMAIN b : \A j \in DOMAIN b[i].rows :
          b[i].rows[j] = <<b[i].offset + j, Cell(e, s.rows[b[i].offset + j])>>
  <2>1. ASSUME NEW i \in DOMAIN b, NEW j \in DOMAIN b[i].rows
        PROVE  b[i].rows[j] = <<b[i].offset + j, Cell(e, s.rows[b[i].offset + j])>>
    <3>1. b[i].offset + j \in 1..w /\ b[i].rows[j] = rows[b[i].offset + j]
      BY <1>3, <1>6
    <3>2. QED
      BY <1>3, <3>1
  <2>2. QED
    BY <2>1
<1>8. events.truncated <=> ~(e \in {"oracle", "sqlserver"} /\ ~IsQuery(s)) /\ e # "redis"
                             /\ Len(s.rows) > max
    BY <1>5
<1>9. Reports(events, s, e, max)
    BY <1>3, <1>5, <1>6, <1>7, <1>8 DEF Reports, w
<1>10. QED
    BY <1>9 DEF events

(* ... and of one row.                                                     *)
LEMMA OneRowReports ==
    ASSUME NEW s, NEW e, NEW max, NEW cell, NEW raw, raw = Raw(<<<<1, cell>>>>, FALSE),
           \/ e \in {"oracle", "sqlserver"} /\ ~IsQuery(s) /\ cell = s.count
           \/ e = "redis" /\ cell = RedisValue(s)
    PROVE  Reports(EventsOf(raw), s, e, max)
<1> DEFINE rows == <<<<1, cell>>>>
           S == {<<1, cell>>}
           b == Batches(rows)
           events == EventsOf(raw)
<1>1. rows \in Seq(S) /\ Len(rows) = 1 /\ rows[1] = <<1, cell>>
    OBVIOUS
<1>2. raw.rows = rows /\ raw.truncated = FALSE
    BY DEF Raw
<1> HIDE DEF rows, S
<1>3. events.batches = b /\ events.affected = 1 /\ events.truncated = FALSE
    BY <1>1, <1>2 DEF EventsOf
<1>4. /\ \A i \in DOMAIN b :
            /\ b[i].offset = IF i = 1 THEN 0 ELSE b[i - 1].offset + Len(b[i - 1].rows)
            /\ Len(b[i].rows) \in 1..Batch
            /\ \A j \in DOMAIN b[i].rows :
                  /\ b[i].offset + j \in 1..Len(rows)
                  /\ b[i].rows[j] = rows[b[i].offset + j]
      /\ Len(rows) = IF b = <<>> THEN 0 ELSE b[Len(b)].offset + Len(b[Len(b)].rows)
    BY <1>1, BatchesPartition
<1> HIDE DEF b, events
<1>5. \A i \in DOMAIN b : \A j \in DOMAIN b[i].rows : b[i].rows[j] = <<1, cell>>
    BY <1>1, <1>4
<1>6. ASSUME e \in {"oracle", "sqlserver"}, ~IsQuery(s), cell = s.count
      PROVE  Reports(events, s, e, max)
    BY <1>1, <1>3, <1>4, <1>5, <1>6 DEF Reports
<1>7. ASSUME e = "redis", cell = RedisValue(s)
      PROVE  Reports(events, s, e, max)
    BY <1>1, <1>3, <1>4, <1>5, <1>7 DEF Reports
<1>8. QED
    BY <1>6, <1>7 DEF events

(* What an executor answers with "ok" adds up to its statement's result.   *)
LEMMA DispatchReports ==
    ASSUME NEW s, s.rows \in Seq(STRING), NEW e \in Engines, NEW max \in Nat,
           NEW raw, raw = Dispatch(s, e, max), raw.outcome = "ok"
    PROVE  Reports(EventsOf(raw), s, e, max)
<1> DEFINE Cut == Raw(Convert(FirstRows(s.rows, max), e), Len(s.rows) > max)
<1>1. Failed.outcome # "ok" /\ Panicked.outcome # "ok"
    BY DEF Failed, Panicked
<1>2. CASE e \in {"postgresql", "mysql", "sqlite"}
  <2>1. raw = FetchAll(s, e, max)
    BY <1>2 DEF Dispatch, RunPostgres, RunMySql, RunSqlite
  <2>2. raw = Cut
    BY <1>1, <2>1 DEF FetchAll
  <2>3. QED
    BY <1>2, <2>2, CutReports
<1>3. CASE e = "oracle"
  <2>1. raw = RunOracle(s, max)
    BY <1>3 DEF Dispatch
  <2>2. CASE IsQuery(s)
    <3>1. raw = Cut
      BY <1>1, <1>3, <2>1, <2>2 DEF RunOracle, OracleCursor
    <3>2. QED
      BY <1>3, <2>2, <3>1, CutReports
  <2>3. CASE ~IsQuery(s)
    <3>1. raw = Raw(<<<<1, s.count>>>>, FALSE)
      BY <1>1, <2>1, <2>3 DEF RunOracle, CountRow
    <3>2. QED
      BY <1>3, <2>3, <3>1, OneRowReports
  <2>4. QED
    BY <2>2, <2>3
<1>4. CASE e = "sqlserver"
  <2>1. raw = RunSqlServer(s, max)
    BY <1>4 DEF Dispatch
  <2>2. CASE IsQuery(s)
    <3>1. raw = Cut
      BY <1>1, <1>4, <2>1, <2>2 DEF RunSqlServer, SqlServerQuery, FetchAll
    <3>2. QED
      BY <1>4, <2>2, <3>1, CutReports
  <2>3. CASE ~IsQuery(s)
    <3>1. raw = Raw(<<<<1, s.count>>>>, FALSE)
      BY <1>1, <2>1, <2>3 DEF RunSqlServer, CountRow
    <3>2. QED
      BY <1>4, <2>3, <3>1, OneRowReports
  <2>4. QED
    BY <2>2, <2>3
<1>5. CASE e = "mongodb"
  <2>1. raw = Cut
    BY <1>1, <1>5 DEF Dispatch, RunMongo, MongoCursor
  <2>2. QED
    BY <1>5, <2>1, CutReports
<1>6. CASE e = "redis"
  <2>1. raw = Raw(<<<<1, RedisValue(s)>>>>, FALSE)
    BY <1>1, <1>6 DEF Dispatch, RunRedis
  <2>2. QED
    BY <1>6, <2>1, OneRowReports
<1>7. QED
    BY <1>2, <1>3, <1>4, <1>5, <1>6 DEF Engines

(* What a request is about to answer with is what its statement's executor *)
(* returned.                                                               *)
Asking == [stmt : Statements, max : 0..RowCap]

Faithful(t) ==
    /\ pc[t] \in {"run", "touch", "log"} => asked[t] \in Asking
    /\ pc[t] \in {"touch", "log"} /\ result[t] = "ok" => RawOf(t).outcome = "ok"
    /\ reply[t] = "completed" => /\ asked[t] \in Asking /\ reqConn[t] \in Connections
                                 /\ RawOf(t).outcome = "ok" /\ sent[t] = EventsOf(RawOf(t))

AnswersInv ==
    /\ DOMAIN sent = Tasks
    /\ \A t \in Tasks : Faithful(t)

LEMMA FaithfulKept ==
    ASSUME AnswersInv, NEW t \in Tasks, Untouched(t), asked'[t] = asked[t], sent'[t] = sent[t],
           engine' = engine
    PROVE  Faithful(t)'
<1>1. RawOf(t)' = RawOf(t)
    BY DEF RawOf, Untouched
<1>2. QED
    BY <1>1 DEF AnswersInv, Faithful, Untouched

(* A request that has nothing to say yet.                                  *)
LEMMA FaithfulSilent ==
    ASSUME NEW t \in Tasks, pc'[t] \notin {"run", "touch", "log"}, reply'[t] # "completed"
    PROVE  Faithful(t)'
    BY DEF Faithful

LEMMA ArrivalsAreFaithful ==
    ASSUME SessionsInv, AnswersInv, NEW t \in Tasks, NEW u \in Users, NEW c \in Connections,
           Open(t, u, c) \/ Execute(t, u, c)
    PROVE  AnswersInv'
<1>1. TaskTypes /\ DOMAIN sent = Tasks
    BY DEF SessionsInv, AnswersInv
<1>2. DOMAIN sent' = Tasks
    BY <1>1 DEF Open, Execute, Arrive
<1>3. ASSUME NEW x \in Tasks \ {t} PROVE Faithful(x)'
  <2>1. Untouched(x) /\ asked'[x] = asked[x] /\ sent'[x] = sent[x] /\ engine' = engine
    BY <1>1, <1>3 DEF TaskTypes, Untouched, Open, Execute, Arrive, Goto, Answer, sessionVars, storeVars
  <2>2. QED
    BY <2>1, FaithfulKept
<1>4. Faithful(t)'
  <2>1. pc'[t] \notin {"run", "touch", "log"} /\ reply'[t] # "completed"
    BY <1>1 DEF TaskTypes, Open, Execute, Arrive, Goto, Answer
  <2>2. QED
    BY <2>1, FaithfulSilent
<1>5. QED
    BY <1>2, <1>3, <1>4 DEF AnswersInv

LEMMA CloseIsFaithful ==
    ASSUME SessionsInv, AnswersInv, NEW t \in Tasks, NEW s \in SessionIds, Close(t, s)
    PROVE  AnswersInv'
<1>1. TaskTypes /\ DOMAIN sent = Tasks
    BY DEF SessionsInv, AnswersInv
<1>2. DOMAIN sent' = Tasks
    BY <1>1 DEF Close, Arrive
<1>3. ASSUME NEW x \in Tasks \ {t} PROVE Faithful(x)'
  <2>1. Untouched(x) /\ asked'[x] = asked[x] /\ sent'[x] = sent[x] /\ engine' = engine
    BY <1>1, <1>3 DEF TaskTypes, Untouched, Close, Arrive, Goto
  <2>2. QED
    BY <2>1, FaithfulKept
<1>4. Faithful(t)'
  <2>1. pc'[t] \notin {"run", "touch", "log"} /\ reply'[t] # "completed"
    BY <1>1 DEF TaskTypes, Close, Arrive, Goto
  <2>2. QED
    BY <2>1, FaithfulSilent
<1>5. QED
    BY <1>2, <1>3, <1>4 DEF AnswersInv

LEMMA StepsAreFaithful ==
    ASSUME SessionsInv, AnswersInv, NEW t \in Tasks, RequestStep(t) \/ Disconnect(t)
    PROVE  AnswersInv'
<1>1. /\ TaskTypes /\ WorldTypes /\ DOMAIN sent = Tasks
      /\ Faithful(t) /\ NotesTrue(t) /\ HoldsOwn(t)
    BY DEF SessionsInv, AnswersInv
<1>2. DOMAIN sent' = Tasks
    BY <1>1
       DEF RequestStep, LoadConnection, CheckPool, BuildPool, CreateSession, IndexSession,
           RemoveClosed, Recheck, Guard, LogRejected, Run, TouchAfterRun, LogResult, Disconnect, Kept
<1>3. engine' = engine /\ reqConn' = reqConn
    BY DEF RequestStep, LoadConnection, CheckPool, BuildPool, CreateSession, Insert, IndexSession, Push,
           RemoveClosed, Recheck, Guard, LogRejected, Run, TouchAfterRun, Touch, LogResult,
           Disconnect, Kept, sessionVars, storeVars
<1>4. ASSUME NEW x \in Tasks \ {t} PROVE Faithful(x)'
  <2>1. asked'[x] = asked[x] /\ sent'[x] = sent[x]
    BY <1>1, <1>4
       DEF TaskTypes, RequestStep, LoadConnection, CheckPool, BuildPool, CreateSession,
           IndexSession, RemoveClosed, Recheck, Guard, LogRejected, Run, TouchAfterRun, LogResult,
           Disconnect, Kept
  <2>2. pc'[x] = pc[x] /\ reply'[x] = reply[x]
    BY <1>1, <1>4
       DEF TaskTypes, RequestStep, LoadConnection, CheckPool, BuildPool, CreateSession,
           IndexSession, RemoveClosed, Recheck, Guard, LogRejected, Run, TouchAfterRun, LogResult,
           SaveHistory, Disconnect, Goto, Answer
  <2>3. result'[x] = result[x]
    BY <1>1, <1>4
       DEF TaskTypes, RequestStep, LoadConnection, CheckPool, BuildPool, CreateSession,
           IndexSession, RemoveClosed, Recheck, Guard, LogRejected, Run, TouchAfterRun, LogResult,
           Disconnect
  <2>4. RawOf(x)' = RawOf(x)
    BY <1>3, <2>1 DEF RawOf
  <2>5. QED
    BY <1>3, <2>1, <2>2, <2>3, <2>4 DEF AnswersInv, Faithful
<1>5. CASE Guard(t)
  <2>1. reply'[t] # "completed"
    BY <1>1, <1>5 DEF TaskTypes, NotesTrue, Guard, Goto, Answer
  <2>2. pc'[t] \in {"idle", "run", "logRejected"}
    BY <1>1, <1>5 DEF TaskTypes, Guard, Goto, Answer
  <2>3. ASSUME pc'[t] = "run" PROVE Faithful(t)'
    <3>1. PICK m \in menu : asked' = [asked EXCEPT ![t] = [stmt |-> m[1], max |-> MaxRowsOf(m[2])]]
      BY <1>1, <1>5, <2>3 DEF TaskTypes, Guard, Goto, Answer
    <3>2. m[1] \in Statements /\ m[2] \in Nat
      BY <1>1 DEF WorldTypes
    <3>3. MaxRowsOf(m[2]) \in 0..RowCap
      BY <3>2, ExecutionAssumption DEF MaxRowsOf, Lesser
    <3>4. asked'[t] \in Asking
      BY <1>1, <3>1, <3>2, <3>3 DEF TaskTypes, Asking
    <3>5. QED
      BY <2>1, <2>3, <3>4 DEF Faithful
  <2>4. ASSUME pc'[t] # "run" PROVE Faithful(t)'
    BY <2>1, <2>2, <2>4, FaithfulSilent
  <2>5. Faithful(t)'
    BY <2>3, <2>4
  <2>6. QED
    BY <1>2, <1>4, <2>5 DEF AnswersInv
<1>6. ASSUME asked' = asked PROVE RawOf(t)' = RawOf(t)
    BY <1>3, <1>6 DEF RawOf
<1>7. CASE Run(t)
  <2>1. asked' = asked /\ reply'[t] # "completed" /\ pc[t] = "run"
    BY <1>1, <1>7 DEF TaskTypes, NotesTrue, Run, Goto, Answer, Kept
  <2>2. result'[t] = "ok" => RawOf(t).outcome = "ok"
    BY <1>1, <1>7 DEF TaskTypes, Run
  <2>3. Faithful(t)'
    BY <1>1, <1>6, <2>1, <2>2 DEF Faithful
  <2>4. QED
    BY <1>2, <1>4, <2>3 DEF AnswersInv
<1>8. CASE TouchAfterRun(t)
  <2>1. /\ asked' = asked /\ result' = result /\ reply'[t] # "completed" /\ pc[t] = "touch"
    BY <1>1, <1>8 DEF NotesTrue, TouchAfterRun, Kept
  <2>2. Faithful(t)'
    BY <1>1, <1>6, <2>1 DEF Faithful
  <2>3. QED
    BY <1>2, <1>4, <2>2 DEF AnswersInv
<1>9. CASE LogResult(t)
  <2>1. pc[t] = "log" /\ pc'[t] = "idle" /\ asked' = asked /\ logged[t] = "none" /\ reply[t] = "none"
    BY <1>1, <1>9 DEF TaskTypes, NotesTrue, LogResult, SaveHistory, Answer, Goto
  <2>2. ASSUME reply'[t] = "completed" PROVE Faithful(t)'
    <3>1. result[t] = "ok" /\ logged'[t] = "success"
      BY <1>1, <1>9, <2>2 DEF TaskTypes, LogResult, SaveHistory, Answer
    <3>2. sent'[t] = EventsOf(RawOf(t))
      BY <1>1, <1>9, <3>1 DEF LogResult
    <3>3. RawOf(t).outcome = "ok" /\ asked[t] \in Asking /\ reqConn[t] \in Connections
      BY <1>1, <2>1, <3>1 DEF Faithful, HoldsOwn
    <3>4. QED
      BY <1>3, <1>6, <2>1, <3>2, <3>3 DEF Faithful
  <2>3. ASSUME reply'[t] # "completed" PROVE Faithful(t)'
    BY <2>1, <2>3, FaithfulSilent
  <2>4. Faithful(t)'
    BY <2>2, <2>3
  <2>5. QED
    BY <1>2, <1>4, <2>4 DEF AnswersInv
<1>10. CASE ~(Guard(t) \/ Run(t) \/ TouchAfterRun(t) \/ LogResult(t))
  <2>1. \/ LoadConnection(t) \/ CheckPool(t) \/ BuildPool(t) \/ CreateSession(t)
        \/ IndexSession(t) \/ RemoveClosed(t) \/ Recheck(t) \/ LogRejected(t) \/ Disconnect(t)
    BY <1>10 DEF RequestStep
  <2>2. pc'[t] \notin {"run", "touch", "log"}
    BY <1>1, <2>1
       DEF TaskTypes, LoadConnection, CheckPool, BuildPool, CreateSession, IndexSession,
           RemoveClosed, Recheck, LogRejected, SaveHistory, Disconnect, Goto, Answer
  <2>3. reply'[t] # "completed"
    BY <1>1, <2>1
       DEF TaskTypes, NotesTrue, LoadConnection, CheckPool, BuildPool, CreateSession, IndexSession,
           RemoveClosed, Recheck, LogRejected, SaveHistory, Disconnect, Goto, Answer
  <2>4. QED
    BY <1>2, <1>4, <2>2, <2>3, FaithfulSilent DEF AnswersInv
<1>11. QED
    BY <1>5, <1>7, <1>8, <1>9, <1>10

LEMMA AnswersInvStep == SessionsInv /\ AnswersInv /\ [Next]_vars => AnswersInv'
<1>1. SUFFICES ASSUME SessionsInv, AnswersInv, [Next]_vars PROVE AnswersInv'
    OBVIOUS
<1>2. ASSUME NEW s \in SessionIds, TimeRunsOut(s) PROVE AnswersInv'
    BY <1>1, <1>2, FaithfulKept DEF AnswersInv, TimeRunsOut, requestVars, Untouched
<1>3. ASSUME NEW c \in Connections, DeleteConnection(c) PROVE AnswersInv'
    BY <1>1, <1>3, FaithfulKept DEF AnswersInv, DeleteConnection, requestVars, Untouched
<1>6. ASSUME NEW c \in Connections, LooseEnds(c) PROVE AnswersInv'
    BY <1>1, <1>6, FaithfulKept DEF AnswersInv, LooseEnds, storeVars, requestVars, Untouched
<1>4. CASE UNCHANGED vars
    BY <1>1, <1>4, FaithfulKept DEF AnswersInv, vars, Untouched
<1>5. QED
    BY <1>1, <1>2, <1>3, <1>4, <1>6, ArrivalsAreFaithful, CloseIsFaithful, StepsAreFaithful DEF Next

(* Completed reports the result of its own statement, for every engine, of *)
(* any length and any cap: the events add up to what was wanted of it, row *)
(* for row.                                                                *)
THEOREM AnswersAddUp == Spec => []AnswerIsResult
<1>1. Init => AnswersInv
    BY DEF Init, AnswersInv, Faithful
<1>2. SessionsInv /\ AnswersInv => AnswerIsResult
  <2>1. SUFFICES ASSUME SessionsInv, AnswersInv, NEW t \in Tasks, reply[t] = "completed"
                 PROVE  Reports(sent[t], asked[t].stmt, engine[reqConn[t]], asked[t].max)
    BY DEF AnswerIsResult
  <2> DEFINE s == asked[t].stmt
             e == engine[reqConn[t]]
             max == asked[t].max
  <2>2. /\ asked[t] \in Asking /\ reqConn[t] \in Connections
        /\ RawOf(t).outcome = "ok" /\ sent[t] = EventsOf(RawOf(t))
    BY <2>1 DEF AnswersInv, Faithful
  <2>3. s.rows \in Seq(STRING) /\ max \in Nat
    BY <2>2, SessionsAssumption, ExecutionAssumption DEF Asking
  <2>4. e \in Engines
    BY <2>1, <2>2 DEF SessionsInv, WorldTypes
  <2>5. RawOf(t) = Dispatch(s, e, max)
    BY DEF RawOf
  <2> HIDE DEF s, e, max
  <2>6. Reports(EventsOf(RawOf(t)), s, e, max)
    BY <2>2, <2>3, <2>4, <2>5, DispatchReports
  <2>7. QED
    BY <2>2, <2>6 DEF s, e, max
<1>3. QED
    BY <1>1, <1>2, AnswersInvStep, SessionsInvariant, PTL DEF Spec
=============================================================================
