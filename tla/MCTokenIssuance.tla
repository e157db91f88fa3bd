--------------------------- MODULE MCTokenIssuance ---------------------------
(* Instances of TokenIssuance for TLC.                                       *)
EXTENDS TokenIssuance, TLC

CONSTANTS k1, k2, c1, c2, u1, r1, r2, offline, api

Symmetry == Permutations(Chain) \cup Permutations(Client) \cup Permutations(Request)
=============================================================================
