----------------------------- MODULE JobLifecycle -----------------------------
(* What the background service promises the client that submits a job and     *)
(* polls its status, with no queue, worker, retry or breaker in sight: a job  *)
(* is open until it gets a verdict or is lost, and never opens again.         *)
CONSTANT Jobs

VARIABLES
    durable,   \* deferred and retried jobs have a queue to wait in
    open,      \* jobs somebody still has to act on
    lost,      \* jobs a fault took something from
    poll       \* what a client that asks for the job is told

Verdicts == {"COMPLETED", "DEAD_LETTERED", "CANCELLED"}

Init ==
    /\ durable \in BOOLEAN
    /\ open = {} /\ lost = {}
    /\ poll = [j \in Jobs |-> "unknown"]

Tell(j, answer) == poll' = [poll EXCEPT ![j] = answer]

Submit(j) ==
    /\ poll[j] = "unknown"
    /\ Tell(j, "pending")
    /\ open' = open \cup {j}
    /\ UNCHANGED <<durable, lost>>

(* Starting, retrying and deferring a job all replace a cancellation.         *)
Work(j) ==
    /\ j \in open
    /\ Tell(j, "pending")
    /\ UNCHANGED <<durable, open, lost>>

Decide(j) ==
    /\ j \in open
    /\ \E v \in Verdicts : Tell(j, v)
    /\ open' = open \ {j}
    /\ UNCHANGED <<durable, lost>>

(* A client may cancel whatever it has submitted, decided jobs too.           *)
Cancel(j) ==
    /\ poll[j] # "unknown"
    /\ Tell(j, "CANCELLED")
    /\ UNCHANGED <<durable, open, lost>>

(* A fault ends jobs without a verdict, or takes their dead-letter entry.     *)
Lose(J) ==
    /\ J \subseteq open
    /\ lost' = lost \cup J
    /\ open' \in {open, open \ J}
    /\ UNCHANGED <<durable, poll>>

(* Without a queue a deferred job is forgotten.                               *)
Forget(j) ==
    /\ ~durable /\ j \in open
    /\ open' = open \ {j}
    /\ UNCHANGED <<durable, lost, poll>>

Next ==
    \/ \E j \in Jobs : Submit(j) \/ Work(j) \/ Decide(j) \/ Cancel(j) \/ Forget(j)
    \/ \E J \in SUBSET Jobs : Lose(J)

Spec == Init /\ [][Next]_<<durable, open, lost, poll>>
=============================================================================
