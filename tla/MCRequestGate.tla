---------------------------- MODULE MCRequestGate ----------------------------
(* An instance of RequestGate: a script on a login path and a client that     *)
(* repeats a correlation id, two requests at a time, two users.               *)
EXTENDS RequestGate, TLC

CONSTANTS r1, r2, u1, u2, k1, k2, script, repeater

TwoRequests == {r1, r2}
TwoUsers == {u1, u2}
TwoSecrets == {k1, k2}
TwoFingerprints == {script, repeater}
OnlyScript == {script}
GateSymmetry == Permutations(TwoRequests) \cup Permutations(TwoSecrets)
                \cup Permutations(TwoUsers)
BothStores == {"memory", "redis"}
=============================================================================
