------------------------------ MODULE Execution ------------------------------
(***************************************************************************)
(* What one statement goes through: the guard (features/query/guard.rs),   *)
(* the executor of each engine (executor.rs) and the events its rows are   *)
(* cut into (use_case.rs).  Operators only.                                *)
(*                                                                         *)
(* A statement is abstracted to what these tell apart:                     *)
(*   kind     what the parser makes of the first statement of the text     *)
(*   where    it has a WHERE clause                                        *)
(*   suspect  the text contains a pattern of check_injection               *)
(*   lead     the word the text begins with                                *)
(*   rows     what the user's database answers: the type of each row's     *)
(*            cell (one column stands for all)                             *)
(*   bad      the row whose transmission fails, 0 if none does             *)
(*   count    the rows it changes                                          *)
(***************************************************************************)
EXTENDS Naturals, Sequences

CONSTANTS Batch,     \* rows of one Rows event (500)
          RowCap     \* most rows a request may ask for (100,000)

ASSUME ExecutionAssumption == Batch \in Nat \ {0} /\ RowCap \in Nat

Null == "null"     \* Value::Null

(* DbType, and the values FromStr reads back from the column db_type;      *)
(* as_str writes "redis" and "sqlite" too.                                 *)
Engines == {"postgresql", "mysql", "mongodb", "redis", "sqlite", "sqlserver", "oracle"}
Readable == {"postgresql", "mysql", "sqlserver", "oracle", "mongodb"}

Lesser(m, n) == IF m <= n THEN m ELSE n

(* max_rows.unwrap_or(1_000).min(100_000)                                  *)
MaxRowsOf(asked) == Lesser(asked, RowCap)
-----------------------------------------------------------------------------
(* The guard.                                                              *)

Approved == "approved"

Parses(s) == s.kind \notin {"unparsable", "empty"}

StatementTypes == {"select", "insert", "update", "delete", "ddl", "other"}

(* A permission is the set of types it allows; anything else passes.       *)
Permitted(s, permission) == s.kind \in permission \cup {"other"}

DefaultPermission == {"select"}

Unbounded(s) == s.kind \in {"update", "delete"} /\ ~s.where

(* The stages in their order: the first that objects is the reason.        *)
Evaluate(s, engine, permission) ==
    IF engine \in {"mongodb", "redis"} THEN Approved
    ELSE IF ~Parses(s) THEN "parseFailure"
    ELSE IF ~Permitted(s, permission) THEN "insufficientPermission"
    ELSE IF Unbounded(s) THEN "unboundedMutation"
    ELSE IF s.suspect THEN "injectionSuspect"
    ELSE Approved
-----------------------------------------------------------------------------
(* Values: the column types whose cells each engine's conversion can read  *)
(* as the Rust type it asks for.                                           *)

(* sqlx reads an INT2 as no i32, a FLOAT4 as no f64 and a TIMESTAMP as no  *)
(* DateTime<Utc>; arrays and BYTEA are no String.                          *)
PgReads == {"int4", "int8", "float8", "bool", "json", "timestamptz", "date", "uuid", "numeric",
            "text"}

(* All cells are read as String, which numbers are not.                    *)
MySqlReads == {"text"}

OracleReads == {"int8", "numeric", "float8", "bool", "date", "timestamp", "timestamptz", "text",
                "blob"}

(* Int1, Int2 and Int4 are read as i32; a nullable integer is an Intn,     *)
(* which is read as &str.                                                  *)
SqlServerReads == {"bool", "int4", "int8", "float4", "float8", "timestamp", "uuid", "blob",
                   "text"}

RedisReads == {"int8", "text"}

Reads(engine) ==
    CASE engine = "postgresql" -> PgReads
      [] engine \in {"mysql", "sqlite"} -> MySqlReads
      [] engine = "oracle" -> OracleReads
      [] engine = "sqlserver" -> SqlServerReads
      [] engine = "redis" -> RedisReads
      [] engine = "mongodb" -> {"json"}

(* A cell that cannot be read, or that is NULL, is shown as Null.          *)
Cell(engine, type) == IF type \in Reads(engine) THEN type ELSE Null

(* tiberius' get panics instead.                                           *)
Panics(types) == \E i \in DOMAIN types : types[i] \notin SqlServerReads \cup {Null}
-----------------------------------------------------------------------------
(* Raw results.                                                            *)

Raw(rows, truncated) == [outcome |-> "ok", rows |-> rows, truncated |-> truncated]

Failed == [outcome |-> "error", rows |-> <<>>, truncated |-> FALSE]
Panicked == [outcome |-> "panic", rows |-> <<>>, truncated |-> FALSE]

(* Each row is its number in the result and its cell.                      *)
Convert(types, engine) == [i \in DOMAIN types |-> <<i, Cell(engine, types[i])>>]

FirstRows(rows, max) == SubSeq(rows, 1, Lesser(Len(rows), max))

(* The whole result is read, then cut: a row that cannot be read fails all. *)
FetchAll(s, engine, max) ==
    IF s.bad # 0 THEN Failed
    ELSE Raw(Convert(FirstRows(s.rows, max), engine), Len(s.rows) > max)

(* Rows are read one by one; the one after the last wanted is taken from   *)
(* the cursor but not looked at.                                           *)
OracleCursor(s, max) ==
    IF s.bad \in 1..max THEN Failed
    ELSE Raw(Convert(FirstRows(s.rows, max), "oracle"), Len(s.rows) > max)

(* ... or looked at: its failure is the failure of the whole.              *)
MongoCursor(s, max) ==
    IF s.bad \in 1..(max + 1) THEN Failed
    ELSE Raw(Convert(FirstRows(s.rows, max), "mongodb"), Len(s.rows) > max)

(* A changing statement answers with one row that holds the count.         *)
CountRow(s) == IF s.bad # 0 THEN Failed ELSE Raw(<<<<1, s.count>>>>, FALSE)

IsQuery(s) == s.lead \in {"select", "with", "("}

RunOracle(s, max) == IF IsQuery(s) THEN OracleCursor(s, max) ELSE CountRow(s)

(* The first result set of a query.                                        *)
SqlServerQuery(s, max) ==
    IF s.bad = 0 /\ Panics(FirstRows(s.rows, max)) THEN Panicked ELSE FetchAll(s, "sqlserver", max)

RunSqlServer(s, max) == IF IsQuery(s) THEN SqlServerQuery(s, max) ELSE CountRow(s)

RunPostgres(s, max) == FetchAll(s, "postgresql", max)

RunMySql(s, max) == FetchAll(s, "mysql", max)

RunSqlite(s, max) == FetchAll(s, "sqlite", max)

(* The text must be a JSON object that names a collection.                 *)
RunMongo(s, max) == IF Parses(s) THEN MongoCursor(s, max) ELSE Failed

(* One command, one value, which may be nil.                               *)
RedisValue(s) == IF s.rows = <<>> THEN Null ELSE Cell("redis", s.rows[1])

RunRedis(s) == IF s.bad # 0 THEN Failed ELSE Raw(<<<<1, RedisValue(s)>>>>, FALSE)

Dispatch(s, engine, max) ==
    CASE engine = "postgresql" -> RunPostgres(s, max)
      [] engine = "mysql" -> RunMySql(s, max)
      [] engine = "sqlite" -> RunSqlite(s, max)
      [] engine = "oracle" -> RunOracle(s, max)
      [] engine = "sqlserver" -> RunSqlServer(s, max)
      [] engine = "mongodb" -> RunMongo(s, max)
      [] engine = "redis" -> RunRedis(s)
-----------------------------------------------------------------------------
(* Events.                                                                 *)

Batches(rows) ==
    [i \in 1..((Len(rows) + Batch - 1) \div Batch) |->
        LET first == (i - 1) * Batch
        IN  [offset |-> first,
             rows |-> SubSeq(rows, first + 1, Lesser(first + Batch, Len(rows)))]]

EventsOf(raw) ==
    [batches |-> Batches(raw.rows), affected |-> Len(raw.rows), truncated |-> raw.truncated]

(* What events are an answer to a statement: each Rows event holds one to  *)
(* Batch rows and begins where the one before it ended; row for row they   *)
(* are what the database answered, as many as there are or as were asked   *)
(* for, and truncated says that there were more.  A statement an engine's  *)
(* module runs as a change answers with the one row that counts, and Redis *)
(* with one value.                                                         *)
Reports(events, s, e, max) ==
    LET b == events.batches
        end(i) == b[i].offset + Len(b[i].rows)
        counted == e \in {"oracle", "sqlserver"} /\ ~IsQuery(s)
        wanted == IF counted \/ e = "redis" THEN 1 ELSE Lesser(max, Len(s.rows))
    IN  /\ \A i \in DOMAIN b :
              /\ b[i].offset = IF i = 1 THEN 0 ELSE end(i - 1)
              /\ Len(b[i].rows) \in 1..Batch
              /\ \A j \in DOMAIN b[i].rows :
                    b[i].rows[j] = IF counted THEN <<1, s.count>>
                                   ELSE IF e = "redis" THEN <<1, RedisValue(s)>>
                                   ELSE LET k == b[i].offset + j IN <<k, Cell(e, s.rows[k])>>
        /\ wanted = IF b = <<>> THEN 0 ELSE end(Len(b))
        /\ events.affected = wanted
        /\ events.truncated <=> ~counted /\ e # "redis" /\ Len(s.rows) > max
=============================================================================
