----------------------------- MODULE MCWorkspace -----------------------------
(* Workspace on a small instance.                                          *)
EXTENDS Workspace, TLC

CONSTANTS u1, u2, u3, r1, r2

MCUsers == {u1, u2, u3}
MCElsewhere == {u3}
MCRequests == {r1, r2}

MCMaxRows == (u1 :> 2) @@ (u2 :> 1) @@ (u3 :> 1)

TwoUsers == {u1, u2}
TwoMaxRows == (u1 :> 2) @@ (u2 :> 2)
=============================================================================
