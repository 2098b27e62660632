------------------------------- MODULE Drivers -------------------------------
(***************************************************************************)
(* A driver of features/connections/drivers connects to a user's database  *)
(* and reads its metadata (DatabaseDriver::connect and fetch_schema), as   *)
(* the database's own users create and drop objects.  One metadata query   *)
(* is one step: it sees the catalogue of that moment.  build_driver of     *)
(* use_cases.rs makes no SQLite driver yet; its code is modelled as it is. *)
(***************************************************************************)
EXTENDS Catalogs

CONSTANTS Servers,         \* the servers there may be: records with
                           \*   engine, flavour, banner, database,
                           \*   initial (the objects at first) and
                           \*   objects (those there may ever be),
                           \*   ddl (bound: objects created or dropped)
          SampleLimit,     \* keys of a Redis sample (100)
          SampleDocs,      \* documents of a MongoDB sample (100)
          MaxFaults        \* bound: queries that fail

(* What a database holds.  Only the parts of tables, collections and       *)
(* procedures belong to something; the documents of a collection, the      *)
(* columns of a key or an index are finite lists.                          *)
ObjectKinds ==
    {"table", "view", "matview", "column", "index", "fk", "constraint", "trigger", "function",
     "procedure", "argument", "sequence", "type", "extension", "event", "package", "job",
     "collection", "key"}
PartKinds == {"column", "index", "fk", "constraint", "trigger", "argument"}

IsList(s) == s = [i \in 1..Len(s) |-> s[i]] /\ Len(s) \in Nat

IsObject(o) ==
    /\ o = [kind |-> o.kind, schema |-> o.schema, name |-> o.name, on |-> o.on, keys |-> o.keys]
    /\ o.kind \in ObjectKinds
    /\ Child(o) <=> o.kind \in PartKinds
    /\ Child(o) => o.on = <<o.on[1], o.on[2]>>
    /\ IsList(o.keys)
    /\ o.kind = "collection" => \A n \in DOMAIN o.keys : IsList(o.keys[n])
    /\ o.kind = "fk" => \A i \in DOMAIN o.keys : o.keys[i] = <<o.keys[i][1], o.keys[i][2]>>

(* In MySQL a part is in its table's database; in Oracle it has its        *)
(* table's owner, but an index or a trigger may have another.              *)
OwnedWithTable(engine, o) ==
    (engine = "mysql" \/ (engine = "oracle" /\ o.kind \notin {"index", "trigger"})) =>
        (Child(o) => o.schema = o.on[1])

(* What a release does not have yet: PostgreSQL has procedures from 11 on, *)
(* SQL Server has sequences from 2012, MariaDB from 10.3, MySQL never.     *)
Exists(s, kind) ==
    LET v == Parse(s.banner) IN
    /\ s.engine = "postgresql" /\ kind = "procedure" => AtLeast(v, 11, 0)
    /\ s.engine = "mysql" /\ kind = "sequence" => s.flavour = "mariadb" /\ AtLeast(v, 10, 3)
    /\ s.engine = "sqlserver" /\ kind = "sequence" => v.major >= 11

ASSUME DriversAssumption ==
    /\ SampleLimit \in Nat \ {0} /\ SampleDocs \in Nat \ {0} /\ MaxFaults \in Nat
    /\ \A s \in Servers :
          /\ s.engine \in {"postgresql", "mysql", "sqlite", "oracle", "sqlserver", "mongodb", "redis"}
          /\ IsFiniteSet(s.objects) /\ s.initial \subseteq s.objects /\ s.ddl \in Nat
          /\ \A o \in s.objects : IsObject(o) /\ OwnedWithTable(s.engine, o) /\ Exists(s, o.kind)

VARIABLES server,
          catalog,         \* the objects of the database
          status,          \* of the driver
          caps,            \* the capabilities found by connect
          todo,            \* the chains of queries still to make
          got,             \* the rows read
          taken,           \* keys pushed to the sample
          answer,          \* the rows of the metadata returned
          faults, ddl,
          seen, stable,    \* the objects that were there at some moment, and
                           \* at every moment, of the fetch
          skipped          \* its queries that failed and were made nothing of

vars == <<server, catalog, status, caps, todo, got, taken, answer, faults, ddl, seen, stable, skipped>>

Engine == server.engine

Init ==
    /\ server \in Servers
    /\ catalog = server.initial
    /\ status = "closed"
    /\ caps = NoCapabilities
    /\ todo = {} /\ got = {} /\ taken = 0 /\ answer = {}
    /\ faults = 0 /\ ddl = 0
    /\ seen = {} /\ stable = {} /\ skipped = {}
-----------------------------------------------------------------------------
(* The driver of the server's engine.                                      *)

Work ==
    CASE Engine = "postgresql" -> PostgresWork(caps)
      [] Engine = "mysql" -> MySqlWork(caps)
      [] Engine = "sqlite" -> SqliteWork
      [] Engine = "oracle" -> OracleWork
      [] Engine = "sqlserver" -> SqlServerWork(caps)
      [] Engine = "mongodb" -> MongoWork
      [] Engine = "redis" -> RedisWork(caps)

(* The rows of a query on a database that holds these objects.             *)
Lists(o, objects) ==
    CASE Engine = "postgresql" ->
            IF o.kind \in ToSet(TableParts) THEN PostgresListsPart(o, objects)
                                            ELSE PostgresListsOther(o)
      [] Engine = "mysql" -> MySqlLists(o, server.database)
      [] Engine = "sqlite" -> SqliteLists(o)
      [] Engine = "oracle" -> OracleLists(o)
      [] Engine = "sqlserver" ->
            IF o.kind \in ToSet(TableParts) THEN SqlServerListsPart(o)
                                            ELSE SqlServerListsOther(o)
      [] Engine \in {"mongodb", "redis"} -> TRUE

(* What a row is filed under.  In SQLite a trigger is the catalogue's and  *)
(* a part was asked for by the name of its table, as is one of a           *)
(* collection.                                                             *)
Files(o, rows) ==
    IF ~Child(o) \/ Engine \in {"sqlite", "mongodb"} THEN {o.on}
    ELSE CASE Engine = "postgresql" -> PostgresFiles(o, rows)
           [] Engine = "mysql" -> MySqlFiles(o, rows)
           [] Engine = "oracle" -> OracleFiles(o, rows)
           [] Engine = "sqlserver" -> SqlServerFiles(o, rows)
           [] Engine = "redis" -> {}

(* What the driver makes of the columns in the row.                        *)
Columns(o) ==
    CASE Engine = "postgresql" /\ o.kind = "fk" -> PostgresForeignKey(o)
      [] Engine = "oracle" /\ o.kind = "index" -> OracleIndex(o)
      [] o.kind = "collection" -> {}
      [] OTHER -> ToSet(o.keys)

Row(o, on) == [o EXCEPT !.on = on, !.keys = Columns(o)]

(* The rows of query <<kind, of>>.                                         *)
Rows(q) ==
    UNION {{Row(o, on) : on \in Files(o, got)} :
              o \in {x \in catalog : /\ x.kind = q[1]
                                     /\ q[2] # Null => x.on[2] = q[2]
                                     /\ Lists(x, catalog)}}

(* What a query may answer: of a collection's documents, which are sampled. *)
Answers(q) ==
    LET named == {c \in catalog : c.kind = "collection" /\ c.name = q[2]}
    IN  IF q[1] = "field" /\ named # {}
        THEN UNION {{MongoFields(c, docs) : docs \in MongoSamples(c.keys, SampleDocs)} : c \in named}
        ELSE {Rows(q)}

(* The queries that a row gives rise to, row by row.                       *)
Follow(q, rows) ==
    LET names == SetToSeq({r.name : r \in rows})
    IN  CASE Engine = "sqlite" /\ q[1] = "table" -> EachOf(SqliteTableParts, names)
          [] Engine = "mongodb" /\ q[1] = "collection" -> EachOf(MongoCollectionParts, names)
          [] OTHER -> <<>>

Optional(q) ==
    \/ Engine = "mongodb" /\ q[1] \in MongoOptional
    \/ Engine = "redis" /\ q[1] \in RedisOptional

(* The schemas the answer has are those some object of a naming kind is    *)
(* in; what else is in no such schema is dropped.  Jobs are not grouped.   *)
Grouped(rows) ==
    LET In(naming) == {r \in rows : \/ r.kind = "job"
                                    \/ \E n \in rows : n.kind \in naming /\ n.schema = r.schema}
    IN  CASE Engine = "postgresql" -> In(PostgresNames)
          [] Engine = "oracle" -> In(OracleNames)
          [] Engine = "sqlserver" -> In(SqlServerNames)
          [] OTHER -> rows

(* The queries a server does not know: PostgreSQL itself has never had     *)
(* proisagg and prokind at once, compatible servers have; SQL Server lets  *)
(* no subquery refer to columns outside GROUP BY; Oracle 11.1 has no       *)
(* LISTAGG.                                                                *)
Rejects(q) ==
    \/ Engine = "postgresql" /\ server.flavour = "postgresql" /\ q[1] = "function"
    \/ Engine = "sqlserver" /\ q[1] = "index" /\ ~caps.string_agg
    \/ Engine = "oracle" /\ q[1] = "index" /\ server.flavour = "11.1" /\ caps.listagg
-----------------------------------------------------------------------------
(* connect, with detect_version.                                           *)
Connect ==
    /\ status = "closed"
    /\ \/ /\ status' = "ready" /\ caps' = Capabilities(server)
          /\ UNCHANGED faults
       \/ /\ faults < MaxFaults /\ faults' = faults + 1
          /\ UNCHANGED <<status, caps>>
    /\ UNCHANGED <<server, catalog, todo, got, taken, answer, ddl, seen, stable, skipped>>

Begin ==
    /\ status \in {"ready", "done", "failed"}
    /\ status' = "fetching"
    /\ todo' = Work
    /\ got' = {} /\ taken' = 0 /\ answer' = {}
    /\ seen' = catalog /\ stable' = catalog /\ skipped' = {}
    /\ UNCHANGED <<server, catalog, caps, faults, ddl>>

(* Chain s goes on with the queries rest.                                  *)
Continue(s, rest) == todo' = (todo \ {s}) \cup ({rest} \ {<<>>})

Query(s) ==
    /\ Head(s)[1] \notin {"scan", "key"} /\ ~Rejects(Head(s))
    /\ \E rows \in Answers(Head(s)) :
          /\ got' = got \cup rows
          /\ Continue(s, Follow(Head(s), rows) \o Tail(s))
    /\ UNCHANGED <<status, taken, faults, skipped>>

(* A wrong variant: the cursor is never moved.                              *)
ScanFromStart(s) ==
    /\ Head(s)[1] = "scan"
    /\ IF taken >= SampleLimit THEN Continue(s, <<>>)
       ELSE \E batch \in SUBSET catalog :
            LET keys == SetToSeq(batch)
            IN  Continue(s, [i \in DOMAIN keys |-> <<"key", keys[i]>>] \o <<Head(s)>>)
    /\ UNCHANGED <<status, got, taken, faults, skipped>>

(* SCAN answers with some keys, now and then with one it answered before,  *)
(* and when the iteration ends those that were there all along have all    *)
(* been answered.                                                          *)
Scan(s) ==
    /\ Head(s)[1] = "scan"
    /\ IF taken >= SampleLimit THEN Continue(s, <<>>)
       ELSE \E batch \in SUBSET catalog, last \in BOOLEAN :
            LET passed == Head(s)[2] \cup batch
                keys == SetToSeq(batch)
            IN  /\ IF last THEN stable \cap catalog \subseteq passed ELSE passed # Head(s)[2]
                /\ Continue(s, [i \in DOMAIN keys |-> <<"key", keys[i]>>]
                               \o (IF last THEN <<>> ELSE <<<<"scan", passed>>>>))
    /\ UNCHANGED <<status, got, taken, faults, skipped>>

(* A wrong variant: the limit is looked at between batches only.           *)
InspectWholeBatch(s) ==
    /\ Head(s)[1] = "key"
    /\ Continue(s, Tail(s))
    /\ taken' = taken + 1
    /\ got' = got \cup {Row(Head(s)[2], Head(s)[2].on)}
    /\ UNCHANGED <<status, faults, skipped>>

(* TYPE and TTL of one key; of one that is gone, or when TYPE fails, the   *)
(* type is unknown.                                                        *)
Inspect(s) ==
    /\ Head(s)[1] = "key"
    /\ IF taken >= SampleLimit THEN Continue(s, <<>>) /\ UNCHANGED <<got, taken, faults>>
       ELSE LET key == Head(s)[2] IN
            /\ Continue(s, Tail(s))
            /\ taken' = taken + 1
            /\ \/ /\ key \in catalog
                  /\ got' = got \cup {Row(key, key.on)}
                  /\ UNCHANGED faults
               \/ /\ \/ key \notin catalog /\ UNCHANGED faults
                     \/ faults < MaxFaults /\ faults' = faults + 1
                  /\ got' = got \cup {[key EXCEPT !.keys = {"unknown"}]}
    /\ UNCHANGED <<status, skipped>>

(* A query fails: try_join! drops the other futures, and ? the rest.       *)
Fail(s) ==
    /\ Head(s)[1] # "key"
    /\ \/ Rejects(Head(s)) /\ UNCHANGED faults
       \/ faults < MaxFaults /\ faults' = faults + 1
    /\ IF Optional(Head(s))
       THEN Continue(s, Tail(s)) /\ skipped' = skipped \cup {Head(s)} /\ UNCHANGED <<status, got>>
       ELSE status' = "failed" /\ todo' = {} /\ got' = {} /\ UNCHANGED skipped
    /\ UNCHANGED taken

Step(s) ==
    /\ s \in todo
    /\ Query(s) \/ Scan(s) \/ Inspect(s) \/ Fail(s)
    /\ UNCHANGED <<server, catalog, caps, answer, ddl, seen, stable>>

Finish ==
    /\ status = "fetching" /\ todo = {}
    /\ status' = "done"
    /\ answer' = Grouped(got)
    /\ got' = {}
    /\ UNCHANGED <<server, catalog, caps, todo, taken, faults, ddl, seen, stable, skipped>>
-----------------------------------------------------------------------------
(* The database's users.                                                   *)

Parent(o, objects) == {p \in objects : p.schema = o.on[1] /\ p.name = o.on[2]}

Changed ==
    /\ ddl < server.ddl /\ ddl' = ddl + 1
    /\ seen' = seen \cup catalog' /\ stable' = stable \cap catalog'
    /\ UNCHANGED <<server, status, caps, todo, got, taken, answer, faults, skipped>>

Create(o) ==
    /\ Child(o) => Parent(o, catalog) # {}
    /\ catalog' = catalog \cup {o}
    /\ Changed

Drop(o) ==
    /\ catalog' = {x \in catalog \ {o} : Child(x) => o \notin Parent(x, catalog)}
    /\ Changed

Ddl == \/ \E o \in server.objects \ catalog : Create(o)
       \/ \E o \in catalog : Drop(o)
-----------------------------------------------------------------------------
Next ==
    \/ Connect \/ Begin \/ Finish \/ Ddl
    \/ \E s \in todo : Step(s)

(* The server answers every query in the end, or the query fails.          *)
Spec == Init /\ [][Next]_vars /\ WF_vars(Finish) /\ WF_vars(\E s \in todo : Step(s))
-----------------------------------------------------------------------------
(* Properties.                                                             *)

(* The variables have their types; the sample never has more keys than was *)
(* asked for, however often SCAN answers the same one.                     *)
TypeOK ==
    /\ server \in Servers
    /\ catalog \subseteq server.objects
    /\ status \in {"closed", "ready", "fetching", "done", "failed"}
    /\ taken \in 0..SampleLimit
    /\ faults \in 0..MaxFaults /\ ddl \in 0..server.ddl
    /\ stable \subseteq seen
    /\ status # "fetching" => todo = {} /\ got = {}
    /\ status # "done" => answer = {}

Same(r, o) == r.kind = o.kind /\ r.schema = o.schema /\ r.name = o.name /\ r.on = o.on

(* A row of Oracle gives the owner of an index or a trigger as its         *)
(* table's.                                                                *)
Misfiled(r, o) ==
    /\ Engine = "oracle" /\ o.kind \in {"index", "trigger"} /\ o.schema # o.on[1]
    /\ r.kind = o.kind /\ r.schema = o.schema /\ r.name = o.name
    /\ r.on = <<o.schema, o.on[2]>>

(* Metadata never names an object that was not there at some moment of the *)
(* fetch that returned it, nor files it under another table of the same    *)
(* name, whatever is created and dropped between the queries: attaching    *)
(* rows to tables (schema.rs of the drivers).  The exception: Oracle's     *)
(* rows give the owner of an index or a trigger, and one on a table of     *)
(* another owner is filed under a table of that name of its own owner      *)
(* (oracle/queries.rs:61, 195, schema.rs:119, 236).                        *)
ReportedExisted ==
    \A r \in answer : \E o \in seen :
        \/ Same(r, o) \/ Misfiled(r, o)
        \/ /\ r.kind = "field" /\ o.kind = "collection" /\ r.on = <<o.schema, o.name>>
           /\ \E doc \in ToSet(o.keys) : r.name \in ToSet(doc)

(* The kinds of object a driver describes, on a release that has them.     *)
Described ==
    CASE Engine = "postgresql" ->
            {"table", "column", "index", "fk", "constraint", "trigger", "view", "matview",
             "function", "procedure", "sequence", "type", "extension"}
      [] Engine = "mysql" ->
            {"table", "column", "index", "fk", "constraint", "trigger", "view", "function",
             "procedure", "argument", "event", "sequence"}
      [] Engine = "sqlite" -> {"table", "column", "index", "fk", "view", "trigger"}
      [] Engine = "oracle" ->
            {"table", "column", "index", "fk", "constraint", "trigger", "view", "matview",
             "function", "procedure", "argument", "sequence", "type", "package", "job"}
      [] Engine = "sqlserver" ->
            {"table", "column", "index", "fk", "constraint", "trigger", "view", "function",
             "procedure", "argument", "sequence", "type", "job"}
      [] Engine = "mongodb" -> {"collection", "index", "view"}
      [] Engine = "redis" -> {"key"}

(* The schemas of the database's users, the system's own left out.         *)
OfUsers(schema) ==
    CASE Engine = "postgresql" -> schema \notin {"pg_catalog", "information_schema"}
      [] Engine = "mysql" -> schema = server.database
      [] Engine = "sqlite" -> schema # "sqlite_"
      [] Engine = "oracle" -> schema \notin {"SYS", "XDB", "MDSYS"}
      [] Engine = "sqlserver" -> schema # "shipped"
      [] Engine \in {"mongodb", "redis"} -> TRUE

(* What a part is a part of.                                               *)
Whole(o) ==
    IF Engine = "mongodb" THEN "collection" ELSE IF o.kind = "argument" THEN "procedure" ELSE "table"

(* What metadata is about: the users' objects, the parts of their tables,  *)
(* collections and procedures (the columns of views are left empty).       *)
InScope(o) ==
    /\ o.kind \in Described /\ OfUsers(o.schema)
    /\ Child(o) => \E p \in Parent(o, stable) : p.kind = Whole(o) /\ OfUsers(p.schema)

(* The kinds after whose schemas the answer is grouped.                    *)
Naming ==
    CASE Engine = "postgresql" -> {"table", "view", "function"}
      [] Engine = "oracle" -> {"table", "view", "matview", "function", "procedure", "package"}
      [] Engine = "sqlserver" -> {"table", "view", "function", "procedure"}
      [] OTHER -> {}

(* What the drivers do lose.                                               *)
KnownLoss(o) ==
    \* procedures are asked for from PostgreSQL 14 on (versions.rs:95), and 11 has them
    \/ Engine = "postgresql" /\ o.kind = "procedure" /\ ~AtLeast(Parse(server.banner), 14, 0)
    \* an index on expressions has no column to be joined with (postgres/queries.rs:91)
    \/ Engine = "postgresql" /\ o.kind = "index" /\ o.keys = <<>>
    \* the row has the owner of the index or trigger, not its table's (oracle/queries.rs:61, 195)
    \/ Engine = "oracle" /\ o.kind \in {"index", "trigger"} /\ o.schema # o.on[1]
    \* a schema without a table, view, ... is not in the answer (group_by_schema of each)
    \/ /\ Engine \in {"postgresql", "oracle", "sqlserver"} /\ o.kind # "job"
       /\ ~ \E n \in stable : n.kind \in Naming /\ n.schema = o.schema
    \* what a command does not answer is left empty (mongodb.rs:189)
    \/ Engine = "mongodb" /\ Child(o) /\ <<o.kind, o.on[2]>> \in skipped
    \* the sample of keys is full (redis/schema.rs:129)
    \/ Engine = "redis" /\ taken = SampleLimit

(* What the users of the database have in it throughout a fetch that       *)
(* succeeds is in the metadata, with the columns of indexes and foreign    *)
(* keys: nothing is lost because its row came before its table's, because  *)
(* a version's query was skipped, or because other objects came and went   *)
(* meanwhile.  The exceptions are those of KnownLoss, and the columns of   *)
(* Oracle's indexes, which the row has none for (oracle/schema.rs:126).    *)
StableIsReported ==
    status = "done" =>
        \A o \in stable : InScope(o) =>
            \/ \E r \in answer :
                  /\ Same(r, o)
                  /\ (o.kind = "fk" \/ (o.kind = "index" /\ Engine # "oracle")) =>
                        ToSet(o.keys) \subseteq r.keys
            \/ KnownLoss(o)

(* A field of a collection is called optional unless every document has it *)
(* or some document has it more than once, in the elements of an array     *)
(* (infer_document_schema, mongodb.rs).  Of a collection with more         *)
(* documents than are sampled nothing is promised: a field that is in all  *)
(* of the sample is called required.                                       *)
RequiredIsEverywhere ==
    \A r \in answer : r.kind = "field" /\ r.keys = {} =>
        \E c \in seen :
            /\ c.kind = "collection" /\ r.on = <<c.schema, c.name>>
            /\ \/ \A doc \in ToSet(c.keys) : r.name \in ToSet(doc)
               \/ \E doc \in ToSet(c.keys) : \E i, j \in DOMAIN doc :
                        i # j /\ doc[i] = r.name /\ doc[j] = r.name
               \/ Len(c.keys) > SampleDocs

(* A fetch ends: with the metadata, or with the error of a query.          *)
FetchEnds == status = "fetching" ~> status \in {"done", "failed"}
=============================================================================
