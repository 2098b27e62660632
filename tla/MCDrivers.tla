------------------------------ MODULE MCDrivers ------------------------------
(***************************************************************************)
(* One small database for each engine, and releases on both sides of the   *)
(* version gates.                                                          *)
(***************************************************************************)
EXTENDS Drivers

Obj(kind, schema, name, on, keys) ==
    [kind |-> kind, schema |-> schema, name |-> name, on |-> on, keys |-> keys]

Server(engine, flavour, banner, database, initial, more) ==
    [engine |-> engine, flavour |-> flavour, banner |-> banner, database |-> database,
     initial |-> initial, objects |-> initial \cup more,
     ddl |-> IF flavour \in {"postgresql", "compatible", "mariadb"} THEN 1 ELSE 2]

Top(kind, schema, name) == Obj(kind, schema, name, Null, <<>>)
Of(kind, schema, name, table) == Obj(kind, schema, name, <<schema, table>>, <<>>)
Index(schema, name, table) == Obj("index", schema, name, <<schema, table>>, <<"c">>)
ForeignKey(schema, name, table) ==
    Obj("fk", schema, name, <<schema, table>>, <<<<"c", "x">>, <<"d", "y">>>>)

Tables(schema) == {Top("table", schema, "t"), Of("column", schema, "c", "t"), Index(schema, "i", "t")}

(* A compatible server: PostgreSQL itself rejects the query for functions. *)
Pg == Server("postgresql", "compatible", <<16, 2>>, Null,
             Tables("public") \cup {ForeignKey("public", "f", "t"),
                                    Obj("index", "public", "e", <<"public", "t">>, <<>>)},
             {Top("view", "app", "v"), Top("sequence", "app", "s")})

PgCatalog == Server("postgresql", "compatible", <<13, 9>>, Null,
                    {Top("table", "pg_catalog", "t"), Top("view", "public", "v"),
                     Top("procedure", "public", "p")},
                    {Of("column", "public", "c", "v")})

MySql == Server("mysql", "mysql", <<8, 0, 36>>, "app",
                Tables("app") \cup {Top("table", "other", "t")},
                {Top("procedure", "app", "p"), Of("argument", "app", "a", "p"),
                 Top("view", "app", "v"), Of("column", "app", "c", "v")})

MariaDb == Server("mysql", "mariadb", <<10, 6, 12>>, "app",
                  Tables("app"), {Top("sequence", "app", "s"), Top("event", "app", "e")})

Sqlite == Server("sqlite", "sqlite", <<3, 45, 1>>, Null,
                 Tables("main") \cup {Top("table", "sqlite_", "sequence")},
                 {Top("table", "main", "u"), Of("column", "main", "c", "u"),
                  Of("trigger", "main", "g", "u")})

(* HR has an index on APP's table and, perhaps, a table of that name.      *)
Oracle == Server("oracle", "19", <<19, 19, 0>>, Null,
                 Tables("APP") \cup {Top("view", "MDSYS", "v"), Top("table", "MDSYS", "m"),
                                     Top("table", "HR", "t"),
                                     Obj("index", "HR", "h", <<"APP", "t">>, <<"c">>)},
                 {Top("procedure", "APP", "p"), Of("argument", "APP", "a", "p"),
                  Top("sequence", "SEQ", "s"), Top("job", "APP", "j")})

SqlServer == Server("sqlserver", "2017", <<14, 0, 3456>>, Null,
                    Tables("dbo") \cup {ForeignKey("dbo", "f", "t"), Top("table", "shipped", "x")},
                    {Top("procedure", "dbo", "p"), Of("argument", "dbo", "a", "p"),
                     Top("sequence", "seq", "s"), Top("job", "msdb", "j")})

(* In c the field b is in one document twice and in the other not at all;  *)
(* k has more documents than are sampled.                                  *)
Mongo == Server("mongodb", "mongodb", <<7, 0, 5>>, Null,
                {Obj("collection", "db", "c", Null, <<<<"a", "b", "b">>, <<"a", "d">>>>),
                 Index("db", "i", "c")},
                {Obj("collection", "db", "k", Null, <<<<"a">>, <<"a">>, <<>>>>), Top("view", "db", "v")})

Key(name) == Obj("key", "db0", name, Null, <<"hash">>)

Redis == Server("redis", "redis", <<7, 2, 4>>, Null, {Key("k1"), Key("k2")}, {Key("k3")})
OldRedis == Server("redis", "redis", <<5, 0, 14>>, Null, {Key("k1")}, {})

(* Releases that reject a query: LISTAGG came with 11.2, but the banner     *)
(* "Oracle Database 11g ... Release 11.1" parses as 11, 11.                *)
SqlServer2016 == Server("sqlserver", "2016", <<13, 0, 5108>>, Null, Tables("dbo"), {})
Oracle11 == Server("oracle", "11.1", <<11, 11, 1>>, Null, Tables("APP"), {})
Oracle10 == Server("oracle", "10.2", <<10, 10, 2>>, Null, Tables("APP"), {})

MCServers == {Pg, PgCatalog, MySql, MariaDb, Sqlite, Oracle, SqlServer, Mongo, Redis, OldRedis,
              SqlServer2016, Oracle11, Oracle10}
=============================================================================
