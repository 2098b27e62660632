------------------------------ MODULE Catalogs ------------------------------
(***************************************************************************)
(* How each driver reads the catalogue of its database: which queries      *)
(* fetch_schema makes and in what order (drivers/<engine>/mod.rs), what    *)
(* each query lists (queries.rs), what becomes of its rows and how they    *)
(* are grouped (schema.rs, mongodb.rs).  Operators only.                   *)
(*                                                                         *)
(* An object of a database is a record                                     *)
(*   kind    "table", "view", "column", "index", ...                       *)
(*   schema  the schema, or for Oracle the owner, it is in                 *)
(*   name                                                                  *)
(*   on      <<schema, name>> of the table or procedure it belongs to,     *)
(*           Null for none                                                 *)
(*   keys    the columns of an index, <<column, referenced column>> of     *)
(*           each pair of a foreign key, <<type>> of a Redis key           *)
(* A chain is the sequence of queries one future of try_join! makes, a     *)
(* query is <<kind, of>>: all objects of the kind, or those of one table.  *)
(***************************************************************************)
EXTENDS Versions, FiniteSets, SequencesExt

Null == "null"

Each(kinds) == [i \in DOMAIN kinds |-> <<kinds[i], Null>>]

(* The queries of the kinds about one name, then about the next.           *)
EachOf(kinds, names) ==
    [i \in 1..(Len(kinds) * Len(names)) |->
        <<kinds[((i - 1) % Len(kinds)) + 1], names[((i - 1) \div Len(kinds)) + 1]>>]

(* What a part is attached to: arguments are looked up among the           *)
(* procedures, other parts among the tables.                               *)
Holder(o) == IF o.kind = "argument" THEN "procedure" ELSE "table"

Child(o) == o.on # Null

(* A wrong variant: tables are told apart by their names only.             *)
TableOfAnySchema(o, schema, got) == {t \in got : t.kind = Holder(o) /\ t.name = o.on[2]}

(* The table, among the rows read before, whose name is in a part's row    *)
(* and whose schema is the one the row gives.                              *)
TableOf(o, schema, got) ==
    {t \in got : t.kind = Holder(o) /\ t.schema = schema /\ t.name = o.on[2]}

(* What a part's row is filed under, nothing when the table is not there:  *)
(* the row is dropped.                                                     *)
Under(tables) == {<<t.schema, t.name>> : t \in tables}

TableParts == <<"table", "column", "index", "fk", "constraint", "trigger">>
-----------------------------------------------------------------------------
(* PostgreSQL: eight futures share the pool.                               *)

(* A wrong variant: the columns come before the tables they are attached to. *)
PostgresColumnsFirst == Each(<<"column", "table", "index", "fk", "constraint", "trigger">>)

PostgresTables == Each(TableParts)

(* Below PostgreSQL 14 the procedures are not asked for.                   *)
PostgresOthers(caps) ==
    {"view", "matview", "function", "sequence", "type", "extension"}
        \cup (IF caps.procedures THEN {"procedure"} ELSE {})

PostgresWork(caps) == {PostgresTables} \cup {Each(<<k>>) : k \in PostgresOthers(caps)}

PostgresHidden == {"pg_catalog", "information_schema"}

(* Of a table's columns only, pg_class.relkind = 'r', those of views not.  *)
(* An index is joined with the columns it has: one on expressions alone    *)
(* has none.                                                               *)
PostgresListsPart(o, catalog) ==
    /\ o.schema \notin PostgresHidden
    /\ o.kind = "column" => TableOf(o, o.on[1], catalog) # {}
    /\ o.kind = "index" => o.keys # <<>>

PostgresListsOther(o) == o.kind = "extension" \/ o.schema \notin PostgresHidden

(* Each column of a foreign key is joined with each column it refers to.   *)
PostgresForeignKey(o) ==
    {<<o.keys[i][1], o.keys[j][2]>> : i, j \in DOMAIN o.keys}

(* The row's namespace and class are the table's.                          *)
PostgresFiles(o, got) == Under(TableOf(o, o.on[1], got))

PostgresNames == {"table", "view", "function"}
-----------------------------------------------------------------------------
(* MySQL and MariaDB: six futures, one database, no schemas.               *)

MySqlTables == Each(TableParts)

MySqlOthers(caps) ==
    {Each(<<"view">>), Each(<<"function">>), Each(<<"procedure", "argument">>), Each(<<"event">>)}
        \cup (IF caps.sequences THEN {Each(<<"sequence">>)} ELSE {})

MySqlWork(caps) == {MySqlTables} \cup MySqlOthers(caps)

MySqlLists(o, database) == o.schema = database

(* The database is the schema.                                             *)
MySqlFiles(o, got) ==
    {<<o.schema, t.name>> : t \in {t \in got : t.kind = Holder(o) /\ t.name = o.on[2]}}
-----------------------------------------------------------------------------
(* SQLite: three futures, a pool of one connection; the tables' parts are  *)
(* asked for table by table, each index by itself.                         *)

SqliteWork == {Each(<<"table">>), Each(<<"view">>), Each(<<"trigger">>)}

SqliteTableParts == <<"column", "index", "fk">>

(* Names that begin with sqlite_ are the engine's own; an index without a  *)
(* definition is that of a UNIQUE or PRIMARY KEY clause.                   *)
SqliteLists(o) == o.kind \in {"table", "index"} => o.schema # "sqlite_"
-----------------------------------------------------------------------------
(* Oracle: one blocking task, one connection.                              *)

OracleTables == Each(TableParts)

OracleWork ==
    {OracleTables \o Each(<<"view", "matview", "function", "procedure", "argument", "sequence",
                            "type", "package", "job">>)}

(* Three of the owners left out stand for all: SYS is in every list, XDB   *)
(* in those of ten and sixteen, MDSYS in that of sixteen.                  *)
OracleHidden(kind) ==
    CASE kind \in {"table", "column"} -> {"SYS", "XDB", "MDSYS"}
      [] kind \in {"argument", "job"} -> {"SYS"}
      [] OTHER -> {"SYS", "XDB"}

OracleLists(o) == o.schema \notin OracleHidden(o.kind)

(* The query has six columns, the row is read as if it had seven: the      *)
(* columns of an index come out empty.                                     *)
OracleIndex(o) == {}

(* The owner in the row is that of the index or trigger, not its table's.  *)
OracleFiles(o, got) == Under(TableOf(o, o.schema, got))

OracleNames == {"table", "view", "matview", "function", "procedure", "package"}
-----------------------------------------------------------------------------
(* SQL Server: one client for all.                                         *)

SqlServerTables == Each(TableParts)

SqlServerOthers(caps) ==
    Each(<<"view", "function", "procedure", "argument">>)
        \o (IF caps.sequences THEN Each(<<"sequence">>) ELSE <<>>)
        \o Each(<<"type", "job">>)

SqlServerWork(caps) == {SqlServerTables \o SqlServerOthers(caps)}

(* "shipped" is the schema of what is_ms_shipped marks; of constraints     *)
(* only checks are listed.                                                 *)
SqlServerListsPart(o) == o.kind = "fk" \/ o.schema # "shipped"

SqlServerListsOther(o) == o.kind \in {"sequence", "job"} \/ o.schema # "shipped"

SqlServerFiles(o, got) == Under(TableOf(o, o.on[1], got))

SqlServerNames == {"table", "view", "function", "procedure"}
-----------------------------------------------------------------------------
(* MongoDB: collections, each with its parts, then views, then statistics. *)

MongoWork == {Each(<<"collection", "view", "dbstats">>)}

MongoCollectionParts == <<"stats", "field", "index", "validator">>

(* A wrong variant: a field is counted in every document.                  *)
OccurrencesEverywhere(docs, path) == Len(docs)

(* A collection's keys are its documents, a document the sequence of the   *)
(* paths of its fields: a path is repeated when an array holds it in       *)
(* several elements, and each counts.                                      *)
Places(docs, path) ==
    UNION {{n} \X {i \in DOMAIN docs[n] : docs[n][i] = path} : n \in DOMAIN docs}

Occurrences(docs, path) == Cardinality(Places(docs, path))

(* $sample answers with all documents of a small collection, and of one    *)
(* with more than size documents with size of them, the same perhaps twice. *)
MongoSamples(docs, size) ==
    IF Len(docs) <= size THEN {docs} ELSE [1..size -> ToSet(docs)]

(* The fields of collection c, inferred from the sampled documents.        *)
MongoFields(c, sampled) ==
    {[kind |-> "field", schema |-> c.schema, name |-> path, on |-> <<c.schema, c.name>>,
      keys |-> IF Occurrences(sampled, path) < Len(sampled) THEN {"optional"} ELSE {}]
        : path \in UNION {ToSet(doc) : doc \in ToSet(sampled)}}

(* What could not be read of a collection is left empty.                   *)
MongoOptional == {"stats", "field", "index", "validator"}
-----------------------------------------------------------------------------
(* Redis: four INFO sections, the ACL, then the sample of keys.            *)

RedisInfo(caps) ==
    Each(<<"info_server", "info_keyspace", "info_memory", "info_replication">>)
        \o (IF caps.redis_acl THEN Each(<<"acl">>) ELSE <<>>)

RedisWork(caps) == {RedisInfo(caps) \o <<<<"scan", {}>>>>}

(* A type or a time to live that cannot be read is a default, and so is    *)
(* the list of users.                                                      *)
RedisOptional == {"acl", "key"}
=============================================================================
