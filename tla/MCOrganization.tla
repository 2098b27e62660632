--------------------------- MODULE MCOrganization ---------------------------
(* Organization, for TLC: three users, two invitations, two requests at a  *)
(* time.                                                                   *)
EXTENDS Organization, TLC

CONSTANTS u1, u2, u3, i1, i2, r1, r2

MCUsers == {u1, u2, u3}
MCInvitations == {i1, i2}
MCRequests == {r1, r2}

Symmetric == Permutations({u2, u3}) \cup Permutations(MCInvitations) \cup Permutations(MCRequests)
=============================================================================
