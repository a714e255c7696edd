---------------------------- MODULE MCUserQuery -----------------------------
(* Small instances of UserQuery.                                            *)
EXTENDS UserQuery, TLC

CONSTANTS r1, r2, r3, u1, u2, u3, e1, e2

MCRequests == {r1, r2, r3}
MCUsers == {u1, u2, u3}
MCKnown == {u1, u2}
\* Two requests share their globals, and the third has its own.
MCTwoEnvs == {e1, e2}
MCShared == [r \in Requests |-> IF r = r3 THEN e2 ELSE e1]
MCSharedSymmetry == Permutations({r1, r2}) \cup Permutations(Known)
=============================================================================
