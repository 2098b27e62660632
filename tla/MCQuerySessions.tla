--------------------------- MODULE MCQuerySessions ---------------------------
(* QuerySessions on small instances.                                       *)
EXTENDS QuerySessions, TLC

CONSTANTS u1, u2, c1, c2, s1, s2, t1, t2

MCUsers == {u1, u2}
MCConnections == {c1, c2}
MCSessionIds == {s1, s2}
MCTasks == {t1, t2}

Stmt(kind, lead, rows, bad, count) ==
    [kind |-> kind, where |-> kind = "update", suspect |-> FALSE, lead |-> lead,
     rows |-> rows, bad |-> bad, count |-> count]

(* A result of one row more than may be asked for, of types that not every *)
(* engine converts, and a change, which reports what it changed and which  *)
(* not every permission allows.                                            *)
Long == Stmt("select", "select", <<"text", "int4", "int2", "text">>, 0, 0)
Change == Stmt("update", "update", <<>>, 0, 2)

MCStatements == {Long, Change}

(* Both connections are of one engine, or one is Oracle's and the other    *)
(* Redis', whose rows nothing can read back.                               *)
Of(e, s, max) == [engine |-> [c \in MCConnections |-> e], menu |-> {<<s, max>>}]

OracleAndRedis(o) ==
    [engine |-> [c \in MCConnections |-> IF c = o THEN "oracle" ELSE "redis"],
     menu |-> {<<Change, 4>>}]

MCLandscapes ==
    {Of("postgresql", Long, 4), Of("sqlserver", Long, 4)}
        \cup {OracleAndRedis(o) : o \in MCConnections}

(* All seven executors on every short result of four types.                *)
ASSUME \A e \in Engines, n \in 0..4, max \in 0..RowCap, lead \in {"select", "update"} :
         \A rows \in [1..n -> {"text", "int4", "int2", "json"}], bad \in 0..n :
            LET s == Stmt("select", lead, rows, bad, n)
                raw == Dispatch(s, e, max)
            IN  raw.outcome = "ok" => Reports(EventsOf(raw), s, e, max)

(* Requests are interchangeable, and so are users, connections and ids.    *)
Symmetric == Permutations(MCUsers) \cup Permutations(MCConnections)
             \cup Permutations(MCSessionIds) \cup Permutations(MCTasks)
=============================================================================
