-------------------------- MODULE ConnectionsProofs --------------------------
(***************************************************************************)
(* Proofs about the connections of a workspace: their types, and what no   *)
(* overlap of requests does to names, unreadable rows and drivers.         *)
(***************************************************************************)
EXTENDS Connections, TLAPS

(* What a request that is under way has found and keeps: a connection to   *)
(* delete had an engine that can be read, and still has it.                *)
WorkSound(w) ==
    /\ w.at = "insert" => w.name \in Names /\ w.engine \in Accepted
    /\ w.at = "write" => w.id \in Connection /\ w.name \in Names
    /\ w.at = "delete" => /\ w.id \in Others
                          /\ status[w.id] # "absent"
                          /\ data[w.id].engine \in Readable

SchemaSound(r) ==
    req[r].at # "idle" =>
        /\ row # "absent"
        /\ data[Target].engine \in Readable
        /\ req[r].server \in Servers

ConnectionsInv ==
    /\ ConnectionsTypeOK
    /\ \A r \in Requests : WorkSound(work[r]) /\ SchemaSound(r)

-----------------------------------------------------------------------------
USE ConnectionsAssumption, CacheAssumption

LEMMA InitSound == ConnectionsInit => ConnectionsInv
<1> SUFFICES ASSUME ConnectionsInit PROVE ConnectionsInv
    OBVIOUS
<1>1. TypeOK
    BY DEF ConnectionsInit, Init, TypeOK, Versions, Places, Operations, Idle
<1>2. /\ status \in [Others -> {"absent", "active", "deleted"}]
      /\ data \in [Connection -> [name : Names \cup {None}, engine : Accepted \cup {None}]]
    BY DEF ConnectionsInit, NoData
<1>3. work \in [Requests -> [at : {"idle", "insert", "write", "delete"}, id : Connection \cup {None},
                              name : Names \cup {None}, engine : Accepted \cup {None}]]
    BY DEF ConnectionsInit, NoWork
<1>4. \A i \in Connection : Status(i) = "absent" <=> data[i] = NoData
    BY DEF ConnectionsInit, Init, Status, Connection
<1>5. \A r \in Requests : WorkSound(work[r]) /\ SchemaSound(r)
    BY DEF ConnectionsInit, Init, Idle, NoWork, WorkSound, SchemaSound
<1>6. QED
    BY <1>1, <1>2, <1>3, <1>4, <1>5 DEF ConnectionsInv, ConnectionsTypeOK

RequestType ==
    [at : Places, op : Operations \cup {"none"}, server : Servers \cup {None},
     got : Versions \cup {None}]

(* A step of module SchemaCache that takes one request to a place it is    *)
(* prepared for keeps ConnectionsInv.                                      *)
LEMMA RequestMoves ==
    ASSUME ConnectionsInv, UNCHANGED <<schema, status, data, work>>,
           NEW r \in Requests, NEW q \in RequestType, req' = [req EXCEPT ![r] = q],
           q.at = "store" => q.got \in Versions,
           q.at # "idle" => row # "absent" /\ data[Target].engine \in Readable /\ q.server \in Servers,
           row' = row \/ (row # "absent" /\ row' = "deleted"),
           cache' \in Versions \cup {None}, drivers' \subseteq Servers
    PROVE  ConnectionsInv'
<1>1. /\ TypeOK
      /\ \A x \in Requests : SchemaSound(x)
      /\ \A x \in Requests : WorkSound(work[x])
    BY DEF ConnectionsInv, ConnectionsTypeOK
<1>2. /\ req \in [Requests -> RequestType]
      /\ \A x \in Requests : req[x].at = "store" => req[x].got \in Versions
    BY <1>1 DEF TypeOK, RequestType
<1>3. /\ req' \in [Requests -> RequestType]
      /\ \A x \in Requests : req'[x].at = "store" => req'[x].got \in Versions
    BY <1>2
<1>4. TypeOK'
    BY <1>1, <1>3 DEF TypeOK, RequestType
<1>5. \A x \in Requests : req'[x] = IF x = r THEN q ELSE req[x]
    BY <1>2
<1>6. \A x \in Requests : SchemaSound(x)'
    BY <1>1, <1>5 DEF SchemaSound
<1>7. \A x \in Requests : WorkSound(work[x])'
    BY <1>1 DEF WorkSound
<1>8. \A i \in Connection : Status(i)' = "absent" <=> data'[i] = NoData
  <2>1. \A i \in Connection : Status(i)' = "absent" <=> Status(i) = "absent"
    BY DEF Status
  <2>2. QED
    BY <2>1 DEF ConnectionsInv, ConnectionsTypeOK
<1>9. QED
    BY <1>4, <1>6, <1>7, <1>8 DEF ConnectionsInv, ConnectionsTypeOK

(* So does one that ends the request,                                      *)
LEMMA RequestEnds ==
    ASSUME ConnectionsInv, UNCHANGED <<schema, status, data, work>>,
           NEW r \in Requests, End(r),
           row' = row \/ (row # "absent" /\ row' = "deleted"),
           cache' \in Versions \cup {None}, drivers' \subseteq Servers
    PROVE  ConnectionsInv'
<1>1. Idle \in RequestType /\ Idle.at = "idle"
    BY DEF Idle, RequestType, Places
<1>2. QED
    BY <1>1, RequestMoves DEF End

(* and one that sends it on.                                               *)
LEMMA RequestGoesOn ==
    ASSUME ConnectionsInv, UNCHANGED <<row, schema, status, data, work>>,
           NEW r \in Requests, NEW place \in Places, Goto(r, place),
           place # "store", req[r].at # "idle",
           cache' \in Versions \cup {None}, drivers' \subseteq Servers
    PROVE  ConnectionsInv'
<1> DEFINE q == [req[r] EXCEPT !.at = place]
<1>1. req[r] \in RequestType /\ SchemaSound(r)
    BY DEF ConnectionsInv, ConnectionsTypeOK, TypeOK, RequestType
<1>2. q \in RequestType /\ q.at = place /\ q.server = req[r].server
    BY ONLY <1>1, place \in Places DEF RequestType
<1>3. req' = [req EXCEPT ![r] = q]
    BY DEF Goto, ConnectionsInv, ConnectionsTypeOK, TypeOK
<1>4. row # "absent" /\ data[Target].engine \in Readable /\ q.server \in Servers
    BY <1>1, <1>2 DEF SchemaSound
<1>5. QED
    BY <1>2, <1>3, <1>4, RequestMoves

(* The steps of module SchemaCache keep ConnectionsInv.                    *)
LEMMA SchemaSteps == ConnectionsInv /\ SchemaStep => ConnectionsInv'
<1> SUFFICES ASSUME ConnectionsInv, SchemaStep PROVE ConnectionsInv'
    OBVIOUS
<1>0. UNCHANGED <<status, data, work>>
    BY DEF SchemaStep, table
<1>a. /\ cache \in Versions \cup {None} /\ None \in Versions \cup {None}
      /\ schema \in Versions /\ drivers \subseteq Servers
    BY DEF ConnectionsInv, ConnectionsTypeOK, TypeOK
<1>1. CASE Migrate \/ CacheExpires
  <2>1. UNCHANGED <<row, drivers, req>> /\ schema' \in Versions /\ cache' \in Versions \cup {None}
    BY <1>1, <1>a DEF Migrate, CacheExpires, Versions
  <2>2. TypeOK'
    BY <2>1 DEF ConnectionsInv, ConnectionsTypeOK, TypeOK
  <2>3. QED
    BY <1>0, <2>1, <2>2 DEF ConnectionsInv, ConnectionsTypeOK, WorkSound, SchemaSound, Status
<1>2. ASSUME NEW r \in Requests, Target \notin Unreadable,
             NEW s \in Servers, NEW op \in Operations, Ask(r, s, op)
      PROVE  ConnectionsInv'
  <2> DEFINE q == [at |-> IF op = "schema" THEN "read" ELSE "evict", op |-> op, server |-> s,
                   got |-> None]
  <2>1. data[Target].engine \in Readable
    BY <1>2 DEF Unreadable, Active, Status, Connection, Ask
  <2>2. q \in RequestType /\ q.at # "store" /\ q.server \in Servers
    BY DEF RequestType, Places
  <2>3. /\ req' = [req EXCEPT ![r] = q] /\ row = "active"
        /\ UNCHANGED <<row, schema, cache, drivers>>
    BY <1>2 DEF Ask, Arrive
  <2> HIDE DEF q
  <2>4. QED
    BY <1>0, <1>a, <2>1, <2>2, <2>3, RequestMoves
<1>3. ASSUME NEW r \in Requests, Evict(r) \/ DropDriver(r) \/ GetDriver(r)
      PROVE  ConnectionsInv'
  <2>1. \E place \in Places \ {"store"} : Goto(r, place)
    BY <1>3 DEF Evict, DropDriver, GetDriver, Places
  <2>2. req[r].at # "idle" /\ UNCHANGED <<row, schema>>
    BY <1>3 DEF Evict, DropDriver, GetDriver
  <2>3. cache' \in Versions \cup {None} /\ drivers' \subseteq Servers
    BY <1>3, <1>a DEF Evict, DropDriver, GetDriver
  <2>4. QED
    BY <1>0, <2>1, <2>2, <2>3, RequestGoesOn
<1>4. ASSUME NEW r \in Requests, CacheMiss(r) \/ Connect(r)
      PROVE  ConnectionsInv'
  <2>1. \E place \in Places \ {"store"} : Goto(r, place)
    BY <1>4 DEF CacheMiss, Connect, Places
  <2>2. req[r].at # "idle" /\ UNCHANGED <<row, schema, cache>>
    BY <1>4 DEF CacheMiss, Connect
  <2>3. drivers' \subseteq Servers
    BY <1>4, <1>a, <2>2 DEF CacheMiss, Connect, ConnectionsInv, SchemaSound
  <2>4. QED
    BY <1>0, <1>a, <2>1, <2>2, <2>3, RequestGoesOn
<1>5. ASSUME NEW r \in Requests, LoadRow(r)
      PROVE  ConnectionsInv'
  <2>1. \/ End(r)
        \/ \E place \in Places \ {"store"} : Goto(r, place)
    BY <1>5 DEF LoadRow, Places
  <2>2. req[r].at # "idle" /\ UNCHANGED <<row, schema, cache, drivers>>
    BY <1>5 DEF LoadRow
  <2>3. QED
    BY <1>0, <1>a, <2>1, <2>2, RequestGoesOn, RequestEnds
<1>6. ASSUME NEW r \in Requests, FetchSchema(r)
      PROVE  ConnectionsInv'
  <2> DEFINE q == [req[r] EXCEPT !.at = "store", !.got = schema]
  <2>1. req[r] \in RequestType /\ SchemaSound(r) /\ req[r].at # "idle"
    BY <1>6 DEF ConnectionsInv, ConnectionsTypeOK, TypeOK, RequestType, FetchSchema
  <2>2. q \in RequestType /\ q.got = schema /\ q.server = req[r].server
    BY ONLY <2>1, <1>a DEF RequestType, Places
  <2>3. req' = [req EXCEPT ![r] = q] /\ UNCHANGED <<row, schema, cache, drivers>>
    BY <1>6 DEF FetchSchema, ConnectionsInv, ConnectionsTypeOK, TypeOK
  <2> HIDE DEF q
  <2>4. QED
    BY <1>0, <1>a, <2>1, <2>2, <2>3, RequestMoves DEF SchemaSound
<1>7. ASSUME NEW r \in Requests, CacheHit(r) \/ Store(r) \/ Fail(r) \/ DeleteRow(r)
      PROVE  ConnectionsInv'
  <2>1. End(r) /\ UNCHANGED <<schema, drivers>>
    BY <1>7 DEF CacheHit, Store, Fail, DeleteRow
  <2>2. cache' \in Versions \cup {None}
    BY <1>7, <1>a DEF CacheHit, Store, Fail, DeleteRow, ConnectionsInv, ConnectionsTypeOK, TypeOK
  <2>3. row' = row \/ (row # "absent" /\ row' = "deleted")
    BY <1>7 DEF CacheHit, Store, Fail, DeleteRow, ConnectionsInv, SchemaSound
  <2>4. QED
    BY <1>0, <1>a, <2>1, <2>2, <2>3, RequestEnds
<1>8. QED
    BY <1>1, <1>2, <1>3, <1>4, <1>5, <1>6, <1>7 DEF SchemaStep, Step
-----------------------------------------------------------------------------
RowType == [name : Names \cup {None}, engine : Accepted \cup {None}]

WorkType ==
    [at : {"idle", "insert", "write", "delete"}, id : Connection \cup {None},
     name : Names \cup {None}, engine : Accepted \cup {None}]

LEMMA NoWorkIsWork == NoWork \in WorkType /\ NoWork.at = "idle"
    BY DEF NoWork, WorkType

(* A step that changes the work of one request and keeps of each row       *)
(* whether it is there, and of each that is there its engine, keeps        *)
(* ConnectionsInv.                                                         *)
LEMMA WorkMoves ==
    ASSUME ConnectionsInv, NEW r \in Requests, NEW w \in WorkType, Do(r, w),
           TypeOK', req' = req,
           status' \in [Others -> {"absent", "active", "deleted"}],
           data' \in [Connection -> RowType],
           row # "absent" => row' # "absent",
           \A i \in Others : status[i] # "absent" => status'[i] # "absent",
           \A i \in Connection : Status(i) # "absent" => data'[i].engine = data[i].engine,
           \A i \in Connection : Status(i)' = "absent" <=> data'[i] = NoData,
           WorkSound(w)'
    PROVE  ConnectionsInv'
<1>1. /\ work \in [Requests -> WorkType]
      /\ \A x \in Requests : WorkSound(work[x])
      /\ \A x \in Requests : SchemaSound(x)
    BY DEF ConnectionsInv, ConnectionsTypeOK, WorkType
<1>2. /\ work' \in [Requests -> WorkType]
      /\ \A x \in Requests : work'[x] = IF x = r THEN w ELSE work[x]
    BY <1>1 DEF Do
<1>3. \A i \in Others : Status(i) = status[i] /\ i \in Connection
    BY DEF Status, Connection
<1>4. Status(Target) = row /\ Target \in Connection
    BY DEF Status, Connection
<1>5. \A x \in Requests : WorkSound(work[x])'
  <2> SUFFICES ASSUME NEW x \in Requests PROVE WorkSound(work[x])'
    OBVIOUS
  <2>1. CASE x = r
    BY <1>2, <2>1 DEF WorkSound
  <2>2. CASE x # r
    BY <1>1, <1>2, <1>3, <2>2 DEF WorkSound
  <2>3. QED
    BY <2>1, <2>2
<1>6. \A x \in Requests : SchemaSound(x)'
    BY <1>1, <1>4 DEF SchemaSound
<1>7. QED
    BY <1>2, <1>5, <1>6 DEF ConnectionsInv, ConnectionsTypeOK, RowType, WorkType

(* In particular one that changes nothing else.                            *)
LEMMA OnlyWorkMoves ==
    ASSUME ConnectionsInv, NEW r \in Requests, NEW w \in WorkType, Do(r, w),
           UNCHANGED <<vars, status, data>>, WorkSound(w)
    PROVE  ConnectionsInv'
<1>1. TypeOK' /\ req' = req /\ row' = row
    BY DEF vars, ConnectionsInv, ConnectionsTypeOK, TypeOK
<1>2. WorkSound(w)'
    BY DEF WorkSound
<1>3. /\ status' \in [Others -> {"absent", "active", "deleted"}]
      /\ data' \in [Connection -> RowType]
      /\ \A i \in Connection : Status(i)' = "absent" <=> data'[i] = NoData
    BY <1>1 DEF ConnectionsInv, ConnectionsTypeOK, RowType, Status
<1>4. QED
    BY <1>1, <1>2, <1>3, WorkMoves

(* The steps of the other requests keep ConnectionsInv.                    *)
LEMMA RowSteps ==
    ASSUME ConnectionsInv, NEW r \in Requests, RowStep(r)
    PROVE  ConnectionsInv'
<1>0. /\ status \in [Others -> {"absent", "active", "deleted"}]
      /\ data \in [Connection -> RowType]
      /\ \A i \in Connection : Status(i) = "absent" <=> data[i] = NoData
      /\ work[r] \in WorkType /\ WorkSound(work[r])
      /\ TypeOK
    BY DEF ConnectionsInv, ConnectionsTypeOK, RowType, WorkType
<1>1. ASSUME NEW n \in Names, NEW e \in Accepted, List(r, n, e)
      PROVE  ConnectionsInv'
  <2> DEFINE w == [at |-> "insert", id |-> None, name |-> n, engine |-> e]
  <2>1. w \in WorkType /\ WorkSound(w)
    BY DEF WorkType, WorkSound
  <2>2. Do(r, w) /\ UNCHANGED <<vars, status, data>>
    BY <1>1 DEF List
  <2> HIDE DEF w
  <2>3. QED
    BY <2>1, <2>2, OnlyWorkMoves
<1>2. ASSUME NEW i \in Connection, NEW n \in Names, LoadFull(r, i, n)
      PROVE  ConnectionsInv'
  <2> DEFINE w == [at |-> "write", id |-> i, name |-> n, engine |-> None]
  <2>1. w \in WorkType /\ WorkSound(w)
    BY DEF WorkType, WorkSound
  <2>2. Do(r, w) /\ UNCHANGED <<vars, status, data>>
    BY <1>2 DEF LoadFull
  <2> HIDE DEF w
  <2>3. QED
    BY <2>1, <2>2, OnlyWorkMoves
<1>3. ASSUME NEW i \in Connection, BeginDelete(r, i)
      PROVE  ConnectionsInv'
  <2> DEFINE w == [NoWork EXCEPT !.at = "delete", !.id = i]
  <2>1. /\ i \in Others /\ status[i] = "active" /\ data[i].engine \in Readable
        /\ Do(r, w) /\ UNCHANGED <<vars, status, data>>
    BY <1>3 DEF BeginDelete, Found, Active, Unreadable, Status, Connection
  <2>2. w \in WorkType /\ WorkSound(w)
    BY <2>1 DEF WorkType, WorkSound, NoWork
  <2> HIDE DEF w
  <2>3. QED
    BY <2>1, <2>2, OnlyWorkMoves
<1>4. CASE Abandon(r)
  <2>1. WorkSound(NoWork)
    BY NoWorkIsWork DEF WorkSound
  <2>2. QED
    BY <1>4, <2>1, NoWorkIsWork, OnlyWorkMoves DEF Abandon
<1>5. CASE Insert(r)
  <2>1. /\ work[r].name \in Names /\ work[r].engine \in Accepted
        /\ Do(r, NoWork)
    BY <1>0, <1>5 DEF Insert, WorkSound
  <2> DEFINE d == [name |-> work[r].name, engine |-> work[r].engine]
  <2>2. d \in RowType /\ d # NoData
    BY <2>1 DEF RowType, NoData
  <2>3. PICK i \in Connection :
          /\ data' = [data EXCEPT ![i] = d]
          /\ \/ i = Target /\ Create /\ status' = status
             \/ /\ i # Target /\ status[i] = "absent"
                /\ status' = [status EXCEPT ![i] = "active"] /\ UNCHANGED vars
    BY <1>5 DEF Insert
  <2>4. Status(i) = "absent" /\ Status(i)' = "active"
    BY <1>0, <2>3 DEF Create, Status, Connection
  <2>5. \A j \in Connection : j # i => Status(j)' = Status(j)
    BY <1>0, <2>3 DEF Create, Status, Connection, vars
  <2>6. /\ TypeOK' /\ req' = req
        /\ row # "absent" => row' # "absent"
    BY <1>0, <2>3 DEF Create, vars, TypeOK
  <2>7. /\ status' \in [Others -> {"absent", "active", "deleted"}]
        /\ \A j \in Others : status[j] # "absent" => status'[j] # "absent"
    BY <1>0, <2>3 DEF Connection
  <2>8. /\ data' \in [Connection -> RowType]
        /\ \A j \in Connection : data'[j] = IF j = i THEN d ELSE data[j]
    BY <1>0, <2>2, <2>3
  <2>9. WorkSound(NoWork)'
    BY NoWorkIsWork DEF WorkSound
  <2>10. \A j \in Connection : Status(j) # "absent" => data'[j].engine = data[j].engine
    BY <2>4, <2>8
  <2>11. \A j \in Connection : Status(j)' = "absent" <=> data'[j] = NoData
    BY <1>0, <2>2, <2>4, <2>5, <2>8
  <2>12. QED
    BY <2>1, <2>6, <2>7, <2>8, <2>9, <2>10, <2>11, NoWorkIsWork, WorkMoves
<1>6. CASE Write(r)
  <2>1. /\ work[r].id \in Connection /\ work[r].name \in Names
        /\ Do(r, NoWork) /\ UNCHANGED <<vars, status>>
    BY <1>0, <1>6 DEF Write, WorkSound
  <2>2. /\ data' \in [Connection -> RowType]
        /\ \A j \in Connection : data'[j].engine = data[j].engine
        /\ \A j \in Connection : data'[j] # data[j] => j \in Active /\ data'[j].name \in Names
    BY <1>0, <1>6, <2>1 DEF Write, RowType
  <2>3. /\ TypeOK' /\ req' = req /\ row' = row
        /\ \A j \in Connection : Status(j)' = Status(j)
    BY <1>0, <2>1 DEF vars, TypeOK, Status
  <2>4. \A j \in Connection : Status(j)' = "absent" <=> data'[j] = NoData
    BY <1>0, <2>2, <2>3 DEF Active, NoData
  <2>5. WorkSound(NoWork)'
    BY NoWorkIsWork DEF WorkSound
  <2>6. QED
    BY <1>0, <2>1, <2>2, <2>3, <2>4, <2>5, NoWorkIsWork, WorkMoves
<1>7. CASE Remove(r)
  <2>1. /\ work[r].id \in Others /\ status[work[r].id] # "absent"
        /\ status' = [status EXCEPT ![work[r].id] = "deleted"]
        /\ Do(r, NoWork) /\ UNCHANGED <<vars, data>>
    BY <1>0, <1>7 DEF Remove, WorkSound
  <2>2. /\ status' \in [Others -> {"absent", "active", "deleted"}]
        /\ \A j \in Others : status'[j] = "absent" <=> status[j] = "absent"
    BY <1>0, <2>1
  <2>3. TypeOK' /\ req' = req /\ row' = row
    BY <1>0, <2>1 DEF vars, TypeOK
  <2>4. \A j \in Connection : Status(j)' = "absent" <=> data'[j] = NoData
    BY <1>0, <2>1, <2>2, <2>3 DEF Status, Connection
  <2>5. WorkSound(NoWork)'
    BY NoWorkIsWork DEF WorkSound
  <2>6. QED
    BY <1>0, <2>1, <2>2, <2>3, <2>4, <2>5, NoWorkIsWork, WorkMoves
<1>8. QED
    BY <1>1, <1>2, <1>3, <1>4, <1>5, <1>6, <1>7 DEF RowStep
-----------------------------------------------------------------------------
(* The inductive invariant of create, update, delete and the schema cache: *)
(* the types, and what each request under way relies on.                   *)
THEOREM ConnectionsInvariant == ConnectionsSpec => []ConnectionsInv
<1>1. ConnectionsInv /\ [ConnectionsNext]_allVars => ConnectionsInv'
  <2> SUFFICES ASSUME ConnectionsInv, [ConnectionsNext]_allVars PROVE ConnectionsInv'
    OBVIOUS
  <2>1. CASE UNCHANGED allVars
    BY <2>1 DEF allVars, vars, table, ConnectionsInv, ConnectionsTypeOK, TypeOK, WorkSound,
        SchemaSound, Status
  <2>2. QED
    BY <2>1, SchemaSteps, RowSteps DEF ConnectionsNext
<1>2. QED
    BY <1>1, InitSound, PTL DEF ConnectionsSpec

(* The cache and the drivers of a connection behave in a workspace with    *)
(* others as they do alone: every step of Connections is a step of         *)
(* SchemaCache or leaves its variables as they are.                        *)
THEOREM ConnectionsImplementCache == ConnectionsSpec => Spec
<1>1. ConnectionsInit => Init
    BY DEF ConnectionsInit
<1>2. [ConnectionsNext]_allVars => [Next]_vars
  <2> SUFFICES ASSUME [ConnectionsNext]_allVars PROVE [Next]_vars
    OBVIOUS
  <2>1. CASE SchemaStep
      BY <2>1 DEF SchemaStep, Next
  <2>2. ASSUME NEW r \in Requests, RowStep(r) PROVE Create \/ UNCHANGED vars
      BY <2>2 DEF RowStep, List, LoadFull, BeginDelete, Insert, Write, Remove, Abandon
  <2>3. QED
      BY <2>1, <2>2 DEF ConnectionsNext, Next, allVars
<1>3. QED
    BY <1>1, <1>2, PTL DEF ConnectionsSpec, Spec

(* Type correctness for any connections, names, engines and processes.     *)
THEOREM ConnectionsTypeCorrect == ConnectionsSpec => []ConnectionsTypeOK
<1>1. ConnectionsInv => ConnectionsTypeOK
    BY DEF ConnectionsInv
<1>2. QED
    BY <1>1, ConnectionsInvariant, PTL

(* What a step can do to the work of the requests: it is created, ended or *)
(* kept, and a creation starts only where the list could be read and the   *)
(* name is free.                                                           *)
LEMMA CreationsStart ==
    ASSUME ConnectionsInv, [ConnectionsNext]_allVars, NEW x \in Requests,
           work'[x].at = "insert", work'[x] # work[x]
    PROVE  Unreadable = {} /\ Called(work'[x].name) = {}
<1>1. work \in [Requests -> WorkType]
    BY DEF ConnectionsInv, ConnectionsTypeOK, WorkType
<1>2. \A w : \A r \in Requests : Do(r, w) => work'[x] = IF x = r THEN w ELSE work[x]
    BY <1>1 DEF Do
<1>3. work' # work
    OBVIOUS
<1>4. PICK r \in Requests : RowStep(r)
    BY <1>3 DEF ConnectionsNext, SchemaStep, table, allVars
<1>5. CASE \E n \in Names, e \in Accepted : List(r, n, e)
  <2>1. PICK n \in Names, e \in Accepted : List(r, n, e)
    BY <1>5
  <2>2. work'[x].name = n
    BY <1>2, <2>1 DEF List
  <2>3. QED
    BY <2>1, <2>2 DEF List, Listed, Called
<1>6. CASE ~ \E n \in Names, e \in Accepted : List(r, n, e)
  <2>1. \A w : Do(r, w) /\ w.at # "insert" => FALSE
    BY <1>2
  <2>2. ~Insert(r) /\ ~Write(r) /\ ~Remove(r) /\ ~Abandon(r)
    BY <2>1, NoWorkIsWork DEF Insert, Write, Remove, Abandon
  <2>3. \A i \in Connection : ~BeginDelete(r, i)
    BY <2>1 DEF BeginDelete, NoWork
  <2>4. \A i \in Connection, n \in Names : ~LoadFull(r, i, n)
    BY <2>1 DEF LoadFull
  <2>5. QED
    BY <1>4, <1>6, <2>2, <2>3, <2>4 DEF RowStep
<1>7. QED
    BY <1>5, <1>6

(* Once a name is taken no request comes to create another connection of   *)
(* that name, whatever else is under way.                                  *)
THEOREM NamesGainNoClash == ConnectionsSpec => TakenNameGainsNoClash
<1>1. ConnectionsInv /\ [ConnectionsNext]_allVars =>
        [\A n \in Names : Called(n) # {} =>
            \A r \in Requests : work'[r].at = "insert" /\ work'[r].name = n => work'[r] = work[r]]_allVars
    BY CreationsStart
<1>2. QED
    BY <1>1, ConnectionsInvariant, PTL DEF ConnectionsSpec, TakenNameGainsNoClash

(* A row that is there and cannot be read is never deleted, and no request *)
(* to create another one comes past it.                                    *)
THEOREM UnreadableForGood == ConnectionsSpec => UnreadableBlocks
<1>1. ASSUME ConnectionsInv, [ConnectionsNext]_allVars, NEW i \in Unreadable
      PROVE  i \in Unreadable'
  <2>0. /\ i \in Connection /\ Status(i) = "active" /\ data[i].engine \notin Readable
        /\ data \in [Connection -> RowType]
        /\ status \in [Others -> {"absent", "active", "deleted"}]
    BY <1>1 DEF ConnectionsInv, ConnectionsTypeOK, RowType, Unreadable, Active
  <2> SUFFICES Status(i)' = "active" /\ data'[i].engine = data[i].engine
    BY <2>0 DEF Unreadable, Active
  <2>1. CASE SchemaStep
    <3>1. UNCHANGED <<status, data>>
      BY <2>1 DEF SchemaStep, table
    <3>2. i = Target => \A r \in Requests : req[r].at = "idle"
      BY <1>1, <2>0 DEF ConnectionsInv, SchemaSound
    <3>3. i = Target => row' = row
      BY <2>0, <2>1, <3>2
         DEF SchemaStep, Migrate, CacheExpires, Ask, Step, Evict, DropDriver, DeleteRow, CacheHit,
             CacheMiss, GetDriver, LoadRow, Connect, FetchSchema, Store, Fail
    <3>4. QED
      BY <2>0, <3>1, <3>3 DEF Status
  <2>2. ASSUME NEW r \in Requests, RowStep(r)
        PROVE  Status(i)' = "active" /\ data'[i].engine = data[i].engine
    <3>1. CASE UNCHANGED <<vars, status, data>>
      BY <2>0, <3>1 DEF Status, vars
    <3>2. CASE Insert(r)
      BY <2>0, <3>2 DEF Insert, Create, Status, Connection, vars
    <3>3. CASE Write(r)
      BY <2>0, <3>3 DEF Write, Status, vars, RowType
    <3>4. CASE Remove(r)
      <4>1. WorkSound(work[r]) /\ work[r].at = "delete"
        BY <1>1, <2>2, <3>4 DEF Remove, ConnectionsInv
      <4>2. work[r].id # i
        BY <2>0, <4>1 DEF WorkSound
      <4>3. QED
        BY <2>0, <3>4, <4>2 DEF Remove, Status, vars, Connection
    <3>5. QED
      BY <2>2, <3>1, <3>2, <3>3, <3>4 DEF RowStep, List, LoadFull, BeginDelete, Abandon
  <2>3. CASE UNCHANGED allVars
    BY <2>0, <2>3 DEF allVars, vars, table, Status
  <2>4. QED
    BY <1>1, <2>1, <2>2, <2>3 DEF ConnectionsNext
<1>2. ConnectionsInv /\ [ConnectionsNext]_allVars =>
        [\A i \in Unreadable :
            /\ i \in Unreadable'
            /\ \A r \in Requests : work'[r].at = "insert" => work'[r] = work[r]]_allVars
    BY <1>1, CreationsStart
<1>3. QED
    BY <1>2, ConnectionsInvariant, PTL DEF ConnectionsSpec, UnreadableBlocks

(* No driver of a deleted connection joins a registry, save for a request  *)
(* that had loaded the row before.                                         *)
THEOREM DeletedConnectsNoMore == ConnectionsSpec => DeletedGainsNoDriver
<1>1. ASSUME ConnectionsInv, [ConnectionsNext]_allVars, row = "deleted"
      PROVE  drivers' \cup Connecting' \subseteq drivers \cup Connecting
  <2>0. req \in [Requests -> RequestType]
    BY <1>1 DEF ConnectionsInv, ConnectionsTypeOK, TypeOK, RequestType
  <2>1. CASE UNCHANGED <<drivers, req>>
    BY <2>1 DEF Connecting
  <2>2. ASSUME NEW r \in Requests,
               req'[r].at # "connect" \/ req'[r] = req[r],
               \A x \in Requests \ {r} : req'[x] = req[x],
               drivers' \subseteq drivers \cup (IF req[r].at = "connect" THEN {req[r].server} ELSE {})
        PROVE  drivers' \cup Connecting' \subseteq drivers \cup Connecting
    BY <2>2 DEF Connecting
  <2>3. ASSUME NEW r \in Requests, NEW s \in Servers, NEW op \in Operations, Ask(r, s, op)
        PROVE  FALSE
    BY <1>1, <2>3 DEF Ask
  <2>4. ASSUME NEW r \in Requests, Step(r) \/ Fail(r)
        PROVE  drivers' \cup Connecting' \subseteq drivers \cup Connecting
    <3>1. \A x \in Requests \ {r} : req'[x] = req[x]
      BY <2>0, <2>4
         DEF Step, Evict, DropDriver, DeleteRow, CacheHit, CacheMiss, GetDriver, LoadRow, Connect,
             FetchSchema, Store, Fail, Goto, End
    <3>2. req'[r].at # "connect"
      BY <1>1, <2>0, <2>4
         DEF Step, Evict, DropDriver, DeleteRow, CacheHit, CacheMiss, GetDriver, LoadRow, Connect,
             FetchSchema, Store, Fail, Goto, End, Idle, RequestType
    <3>3. drivers' \subseteq drivers \cup (IF req[r].at = "connect" THEN {req[r].server} ELSE {})
      BY <2>4
         DEF Step, Evict, DropDriver, DeleteRow, CacheHit, CacheMiss, GetDriver, LoadRow, Connect,
             FetchSchema, Store, Fail
    <3>4. QED
      BY <2>2, <3>1, <3>2, <3>3
  <2>5. CASE SchemaStep
    BY <2>1, <2>3, <2>4, <2>5 DEF SchemaStep, Migrate, CacheExpires
  <2>6. CASE \E r \in Requests : RowStep(r)
    BY <1>1, <2>1, <2>6
       DEF RowStep, List, LoadFull, BeginDelete, Insert, Create, Write, Remove, Abandon, vars
  <2>7. QED
    BY <1>1, <2>1, <2>5, <2>6 DEF ConnectionsNext, allVars, vars
<1>2. QED
    BY <1>1, ConnectionsInvariant, PTL DEF ConnectionsSpec, DeletedGainsNoDriver
=============================================================================
