--------------------------- MODULE MCTokenRotation ---------------------------
(* An instance of TokenRotation: two sessions of one user, of which the limit *)
(* allows one, two calls at a time and tokens for a race of two rotations.    *)
EXTENDS TokenRotation, TLC

CONSTANTS t1, t2, t3, c1, c2

SomeTokens == {t1, t2, t3}
TwoCalls == {c1, c2}
Symmetric == Permutations(SomeTokens) \cup Permutations(TwoCalls)
=============================================================================
