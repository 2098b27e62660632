---------------------------- MODULE MCServerMain ----------------------------
(* ServerMain with one process and one decodable event.                    *)
EXTENDS ServerMain, TLC

CONSTANTS e1, w1

MCEvents == {e1}
MCWorkers == {w1}
=============================================================================
