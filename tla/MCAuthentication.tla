-------------------------- MODULE MCAuthentication --------------------------
(* An instance of Authentication for TLC: two passwords of one user.           *)
EXTENDS Authentication, TLC

CONSTANTS r1, r2, l1, l2, u1, p1, p2

MCCreds == {u1} \X {p1, p2}

Symmetry == Permutations(Requests) \cup Permutations(Lookups)
=============================================================================
