--------------------------- MODULE MCRefreshTokens ---------------------------
(* RefreshTokens on a small instance.                                      *)
EXTENDS RefreshTokens, TLC

CONSTANTS u1, u2, k1, k2, k3, r1, r2, r3

MCUsers == {u1, u2}
MCTokens == {k1, k2, k3}
MCRequests == {r1, r2, r3}

Symmetric == Permutations(MCUsers) \cup Permutations(MCTokens) \cup Permutations(MCRequests)
=============================================================================
