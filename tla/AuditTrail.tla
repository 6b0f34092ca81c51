----------------------------- MODULE AuditTrail -----------------------------
(* What the audit trail promises its callers: per session one list of events, *)
(* to which append() adds at the end, at once and only once.  A call that     *)
(* fails may have recorded its event or not; one that returns has.            *)
EXTENDS Sequences

CONSTANTS
    Calls,      \* calls of append(), each with its own event
    Sessions,   \* sessions and jobs: the events of each form one trail
    SessionOf   \* the session a call writes about

VARIABLES trail, answer

-----------------------------------------------------------------------------
Init ==
    /\ trail = [s \in Sessions |-> <<>>]
    /\ answer = [c \in Calls |-> "none"]

Extend(c) ==
    trail' = [trail EXCEPT ![SessionOf[c]] = Append(@, c)]

Record(c) ==
    /\ answer[c] = "none"
    /\ Extend(c)
    /\ answer' = [answer EXCEPT ![c] = "recorded"]

Fail(c) ==
    /\ answer[c] = "none"
    /\ Extend(c) \/ UNCHANGED trail
    /\ answer' = [answer EXCEPT ![c] = "raised"]

Next == \E c \in Calls : Record(c) \/ Fail(c)

Spec == Init /\ [][Next]_<<trail, answer>>
=============================================================================
