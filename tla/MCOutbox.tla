------------------------------ MODULE MCOutbox ------------------------------
(* Outbox on a small instance.                                             *)
EXTENDS Outbox, TLC

CONSTANTS e1, e2, bad, w1, w2

MCEvents == {e1, e2, bad}
MCUndecodable == {bad}
MCWorkers == {w1, w2}
=============================================================================
