------------------------------ MODULE Versions ------------------------------
(***************************************************************************)
(* What a driver learns of its server: drivers/versions.rs and the         *)
(* detect_version of each driver.  A banner is the sequence of the digit   *)
(* groups of the text the server answers; a capability that no metadata    *)
(* query reads is left out.  Operators only.                               *)
(***************************************************************************)
EXTENDS Naturals, Sequences

Part(banner, i) == IF i \in DOMAIN banner THEN banner[i] ELSE 0

(* The first three digit groups, wherever in the text they are: the "19"   *)
(* of "Oracle Database 19c ... Release 19.0.0.0.0" is the first of them.   *)
Parse(banner) ==
    [major |-> Part(banner, 1), minor |-> Part(banner, 2), patch |-> Part(banner, 3)]

AtLeast(v, major, minor) == v.major > major \/ (v.major = major /\ v.minor >= minor)

NoCapabilities == [procedures |-> FALSE, sequences |-> FALSE, string_agg |-> FALSE,
                   listagg |-> FALSE, redis_acl |-> FALSE]

(* proper CALL syntax                                                      *)
ForPostgres(v) ==
    [NoCapabilities EXCEPT !.procedures = AtLeast(v, 14, 0), !.sequences = TRUE,
                           !.string_agg = TRUE]

ForMySql(v) == [NoCapabilities EXCEPT !.procedures = TRUE]

ForMariaDb(v) ==
    [NoCapabilities EXCEPT !.procedures = TRUE, !.sequences = AtLeast(v, 10, 3),
                           !.string_agg = AtLeast(v, 10, 3)]

(* The two share the format of VERSION(); MariaDB's text names it.         *)
BuildCapabilities(v, mariadb) == IF mariadb THEN ForMariaDb(v) ELSE ForMySql(v)

ForSqlServer(v) ==
    [NoCapabilities EXCEPT !.procedures = TRUE, !.sequences = v.major >= 11,
                           !.string_agg = v.major >= 14]

ForOracle(v) ==
    [NoCapabilities EXCEPT !.procedures = TRUE, !.sequences = TRUE,
                           !.listagg = AtLeast(v, 11, 2)]

ForRedis(v) == [NoCapabilities EXCEPT !.redis_acl = AtLeast(v, 6, 0)]

Capabilities(server) ==
    LET v == Parse(server.banner) IN
    CASE server.engine = "postgresql" -> ForPostgres(v)
      [] server.engine = "mysql" -> BuildCapabilities(v, server.flavour = "mariadb")
      [] server.engine = "sqlserver" -> ForSqlServer(v)
      [] server.engine = "oracle" -> ForOracle(v)
      [] server.engine = "redis" -> ForRedis(v)
      [] server.engine \in {"sqlite", "mongodb"} -> NoCapabilities
=============================================================================
