----------------------------- MODULE MCAuditLog -----------------------------
(* Three calls race for one session, so that one of them can lose two races;  *)
(* a fourth writes about another session.                                     *)
EXTENDS AuditLog

CONSTANTS c1, c2, c3, c4, s1, s2

FourCalls == {c1, c2, c3, c4}
TwoSessions == {s1, s2}
ThreeRacing == [c \in FourCalls |-> IF c = c4 THEN s2 ELSE s1]
=============================================================================
