---------------------------- MODULE MCConnections ----------------------------
(* Connections on a small instance: one engine that can be read, and one   *)
(* that can not.                                                           *)
EXTENDS Connections

CONSTANTS s1, s2, r1, r2, c1, c2, n1, n2

MCServers == {s1, s2}
MCRequests == {r1, r2}
MCOthers == {c2}
MCNames == {n1, n2}
MCAccepted == {"postgresql", "redis"}
=============================================================================
