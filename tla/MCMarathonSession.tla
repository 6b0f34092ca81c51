------------------------- MODULE MCMarathonSession --------------------------
(* Instances of MarathonSession: two sessions and two calls are the fewest    *)
(* with two starts of one key and two steps of one session under way.         *)
EXTENDS MarathonSession, TLC

CONSTANTS s1, s2, k1, u1, u2, c1, c2

TwoSessions == {s1, s2}
OneKey == {k1}
TwoUsers == {u1, u2}
TwoCalls == {c1, c2}
Interchangeable ==
    Permutations(TwoSessions) \cup Permutations(TwoCalls) \cup Permutations(TwoUsers)
=============================================================================
