----------------------------- MODULE MCRealtime ------------------------------
(* An instance of RealtimeClient: two publishers, and enough events for a gap *)
(* of MaxGap = 1 (3 in the code) that is recovered from and that closes too.  *)
EXTENDS RealtimeClient, TLC, FiniteSets

CONSTANTS p1, p2

TwoPublishers == {p1, p2}
PublisherSymmetry == Permutations(TwoPublishers)
AllModes == {"memory", "pubsub", "streams"}

(* Without Redis the instance is explored in full.  With it, two at a time of *)
(* breaks and failures so far and of events in the channel, recoveries and    *)
(* handlers under way; with streams an event in the channel counts twice.     *)
WireWeight == IF mode = "streams" THEN 2 ELSE 1
MishapsBounded ==
    \/ mode = "memory"
    \/ breaks + faults + WireWeight * Cardinality(wire)
       + Len(recoveries) + Len(saving) <= 2
=============================================================================
