---------------------------- MODULE MCOraclePool ----------------------------
(* Five threads, three connections.                                        *)
EXTENDS OraclePool, TLC

CONSTANTS t1, t2, t3, t4, t5

MCThreads == {t1, t2, t3, t4, t5}
=============================================================================
