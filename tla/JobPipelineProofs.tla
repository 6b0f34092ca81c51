-------------------------- MODULE JobPipelineProofs --------------------------
(* The job pipeline, for every set of jobs and workers, every deployment and  *)
(* every number of faults.                                                    *)
EXTENDS JobPipeline, FiniteSetTheorems, TLAPS

-----------------------------------------------------------------------------
(* What the helpers keep.                                                     *)
LEMMA BreakerTypes ==
    ASSUME NEW b \in Breaker
    PROVE  /\ FreshBreaker \in Breaker
           /\ AfterSuccess(b) \in Breaker
           /\ AfterFailure(b) \in Breaker
           /\ [b EXCEPT !.state = "half_open", !.successes = 0] \in Breaker
           /\ [b EXCEPT !.timer = "elapsed"] \in Breaker
<1> USE JobsAssumption DEF JobsAssumption, Breaker, FreshBreaker
<1>1. FreshBreaker \in Breaker
  OBVIOUS
<1>2. AfterSuccess(b) \in Breaker
  <2> DEFINE n == IF b.successes < SuccessThreshold THEN b.successes + 1
                                                    ELSE b.successes
  <2>1. n \in 0..SuccessThreshold
    OBVIOUS
  <2> HIDE DEF n
  <2>2. [b EXCEPT !.successes = n, !.failures = 0] \in Breaker
    <3>1. 0 \in 0..FailureThreshold
      OBVIOUS
    <3>2. QED BY <2>1, <3>1
  <2>3. [b EXCEPT !.successes = n] \in Breaker
    BY <2>1
  <2>4. AfterSuccess(b) =
          CASE b.state = "half_open" /\ n >= SuccessThreshold -> FreshBreaker
            [] b.state = "closed" -> [b EXCEPT !.successes = n, !.failures = 0]
            [] OTHER              -> [b EXCEPT !.successes = n]
    BY DEF AfterSuccess, n
  <2> HIDE DEF Breaker
  <2>5. QED BY <1>1, <2>2, <2>3, <2>4
<1>3. AfterFailure(b) \in Breaker
  <2> DEFINE n == IF b.failures < FailureThreshold THEN b.failures + 1
                                                   ELSE b.failures
  <2>1. n \in 0..FailureThreshold
    OBVIOUS
  <2> HIDE DEF n
  <2>2. [b EXCEPT !.failures = n, !.state = "open", !.timer = "running"] \in Breaker
    BY <2>1
  <2>3. [b EXCEPT !.failures = n] \in Breaker
    BY <2>1
  <2>4. AfterFailure(b) =
          IF b.state # "open" /\ (b.state = "half_open" \/ n >= FailureThreshold)
            THEN [b EXCEPT !.failures = n, !.state = "open", !.timer = "running"]
            ELSE [b EXCEPT !.failures = n]
    BY DEF AfterFailure, n
  <2> HIDE DEF Breaker
  <2>5. QED BY <2>2, <2>3, <2>4
<1>4. QED BY <1>1, <1>2, <1>3

(* A payload that rpush carries is a payload of the list afterwards, unless   *)
(* it was refused, and nothing else about the list changes.                   *)
LEMMA RpushTypes ==
    ASSUME NEW p \in Payload, NEW reply \in RpushReplies,
           queue \in Seq(Payload), faults \in 0..MaxFaults, lost \subseteq Jobs,
           Rpush(p, reply)
    PROVE  /\ queue' \in Seq(Payload)
           /\ faults' \in 0..MaxFaults
           /\ lost' \subseteq Jobs
<1> USE JobsAssumption DEF JobsAssumption
<1>1. p.job \in Jobs
  BY DEF Payload
<1>2. faults' \in 0..MaxFaults
  BY DEF Rpush, Happens, Inject
<1>3. lost' \subseteq Jobs
  BY <1>1 DEF Rpush
<1>4. queue' \in Seq(Payload)
  BY DEF Rpush, RpushReplies
<1>5. QED BY <1>2, <1>3, <1>4

LEMMA InjectTypes ==
    ASSUME NEW kind, faults \in 0..MaxFaults, Inject(kind)
    PROVE  faults' \in 0..MaxFaults
BY JobsAssumption DEF JobsAssumption, Inject

LEMMA PayloadTypes ==
    ASSUME TypeOK, NEW r \in Runners, pc[r] # "idle"
    PROVE  /\ load[r] \in Payload
           /\ JobOf(r) \in Jobs
           /\ load[r].attempts \in 0..MaxRetries - 1
           /\ Attempt(r) \in 1..MaxRetries
BY JobsAssumption DEF JobsAssumption, TypeOK, RunnerOK, Payload, JobOf, Attempt

LEMMA ProcessTypes ==
    ASSUME NEW r \in Runners
    PROVE  ProcessOf(r) \in Processes
BY DEF ProcessOf, Processes, Runners

LEMMA FinishTypes ==
    ASSUME RunnerOK, NEW r \in Runners, Finish(r)
    PROVE  RunnerOK'
BY DEF RunnerOK, Finish, Goto, Points

LEMMA TakeTypes ==
    ASSUME RunnerOK, NEW r \in Runners, NEW p \in Payload, Take(r, p)
    PROVE  RunnerOK'
BY DEF RunnerOK, Take, Goto, Points

LEMMA GotoTypes ==
    ASSUME RunnerOK, NEW r \in Runners, pc[r] # "idle",
           NEW point \in {"cancelling", "checked", "starting", "executing",
                          "deferred", "second_try", "third_try"},
           Goto(r, point), UNCHANGED <<load, outcome>>
    PROVE  RunnerOK'
BY DEF RunnerOK, Goto, Points

LEMMA StatusTypes ==
    ASSUME TypeOK, NEW j \in Jobs, NEW s \in Status, SetStatus(j, s)
    PROVE  status' \in [Jobs -> Status]
BY DEF TypeOK, SetStatus

-----------------------------------------------------------------------------
(* Every variable stays in its type.  Since a payload's attempts are at most  *)
(* MaxRetries - 1, this says that no job is ever attempted more than          *)
(* MaxRetries times by a delivery.                                            *)
LEMMA InitTypes == Init => TypeOK
<1> SUFFICES ASSUME Init PROVE TypeOK
  OBVIOUS
<1> USE JobsAssumption DEF JobsAssumption, Init
<1>1. FreshBreaker \in Breaker
  BY DEF FreshBreaker, Breaker
<1>2. breaker \in [Processes -> Breaker]
  BY <1>1
<1>3. /\ status \in [Jobs -> Status]
      /\ attempts \in [Jobs -> 0..MaxRetries]
      /\ deadLetter \in [Jobs -> 0..MaxRetries - 1 \cup {None}]
  BY DEF Status
<1>4. RunnerOK
  BY DEF RunnerOK, Points
<1>5. queue \in Seq(Payload)
  OBVIOUS
<1>6. QED BY <1>2, <1>3, <1>4, <1>5 DEF TypeOK

LEMMA RequestTypes ==
    ASSUME TypeOK, NEW j \in Jobs,
           \/ CreateJob(j) \/ DispatchToRedis(j) \/ DispatchAgain(j)
           \/ DispatchInline(j) \/ DispatchFails(j) \/ CancelJob(j)
           \/ MarkCancelled(j) \/ MarkerExpires(j)
    PROVE  TypeOK'
<1> USE JobsAssumption DEF JobsAssumption, Dispatching
<1>0. [job |-> j, attempts |-> 0] \in Payload
  BY DEF Payload
<1>1. CASE CreateJob(j)
  <2>1. status' \in [Jobs -> Status]
    BY <1>1, StatusTypes DEF CreateJob, Status, Pending
  <2>2. QED BY <1>1, <2>1 DEF CreateJob, TypeOK, RunnerOK, redis, runner
<1>2. CASE DispatchToRedis(j)
  <2>1. PICK reply \in RpushReplies : Rpush([job |-> j, attempts |-> 0], reply)
    BY <1>2 DEF DispatchToRedis
  <2>2. queue' \in Seq(Payload) /\ faults' \in 0..MaxFaults /\ lost' \subseteq Jobs
    BY <1>0, <2>1, RpushTypes DEF TypeOK
  <2>3. QED BY <1>2, <2>2 DEF DispatchToRedis, TypeOK, documents, runner, RunnerOK
<1>3. CASE DispatchInline(j)
  <2>1. j \in Runners
    BY DEF Runners
  <2>2. RunnerOK'
    BY <1>0, <1>3, <2>1, TakeTypes DEF DispatchInline, TypeOK
  <2>3. QED BY <1>3, <2>2 DEF DispatchInline, TypeOK, documents, redis
<1>4. CASE DispatchFails(j)
  BY <1>4, InjectTypes DEF DispatchFails, TypeOK, documents, redis, runner, RunnerOK
<1>5. CASE CancelJob(j)
  <2>1. status' \in [Jobs -> Status]
    BY <1>5, StatusTypes DEF CancelJob, Status, Final
  <2>2. QED BY <1>5, <2>1 DEF CancelJob, TypeOK, RunnerOK, redis, runner
<1>6. CASE MarkCancelled(j)
  BY <1>6, InjectTypes DEF MarkCancelled, TypeOK, documents, runner, RunnerOK
<1>7. CASE MarkerExpires(j)
  BY <1>7 DEF MarkerExpires, TypeOK, api, documents, runner, RunnerOK
<1>8. CASE DispatchAgain(j)
  <2>1. queue' \in Seq(Payload) /\ faults' \in 0..MaxFaults
    BY <1>0, <1>8, InjectTypes DEF DispatchAgain, RpushAgain, TypeOK
  <2>2. QED
    BY <1>8, <2>1 DEF DispatchAgain, NextTry, TypeOK, documents, runner, RunnerOK
<1>9. QED BY <1>1, <1>2, <1>3, <1>4, <1>5, <1>6, <1>7, <1>8

LEMMA ProcessJobTypes ==
    ASSUME TypeOK, NEW r \in Runners, ProcessJob(r)
    PROVE  TypeOK'
<1> USE JobsAssumption DEF JobsAssumption
<1>0. pc[r] # "idle"
  BY DEF ProcessJob, SeeMarker, DropCancelled, NotCancelled, DeferWhileOpen, Start, Call,
         CallRejected, TaskReturns, TaskRaises, Complete, CompleteRaises, Retry,
         StoreDeadLetter, Bury, Requeue, RequeueAgain, RetryInline, DeferInline,
         Pushing
<1>a. /\ load[r] \in Payload
      /\ JobOf(r) \in Jobs
      /\ load[r].attempts \in 0..MaxRetries - 1
      /\ Attempt(r) \in 1..MaxRetries
  BY <1>0, PayloadTypes
<1>b. ProcessOf(r) \in Processes
  BY ProcessTypes
<1>c. breaker[ProcessOf(r)] \in Breaker
  BY <1>b DEF TypeOK
<1>d. \A s \in Status : SetStatus(JobOf(r), s) => status' \in [Jobs -> Status]
  BY <1>a, StatusTypes
<1>1. CASE DropCancelled(r)
  <2>1. status' \in [Jobs -> Status]
    BY <1>1, <1>d DEF DropCancelled, Status, Final
  <2>2. attempts' \in [Jobs -> 0..MaxRetries]
    BY <1>1, <1>a DEF DropCancelled, TypeOK
  <2>3. QED
    BY <1>1, <2>1, <2>2, FinishTypes DEF DropCancelled, TypeOK, api, redis
<1>2. CASE NotCancelled(r)
  BY <1>0, <1>2, GotoTypes, InjectTypes
  DEF NotCancelled, TypeOK, api, documents, redis
<1>3. CASE DeferWhileOpen(r)
  <2>1. status' \in [Jobs -> Status]
    BY <1>3, <1>d DEF DeferWhileOpen, Status, Pending
  <2>2. QED
    BY <1>0, <1>3, <2>1, GotoTypes DEF DeferWhileOpen, TypeOK, api, redis
<1>4. CASE Start(r)
  <2>1. status' \in [Jobs -> Status]
    BY <1>4, <1>d DEF Start, Status, Pending
  <2>2. attempts' \in [Jobs -> 0..MaxRetries]
    BY <1>4, <1>a DEF Start, TypeOK
  <2>3. QED
    BY <1>0, <1>4, <2>1, <2>2, GotoTypes DEF Start, TypeOK, api, redis
<1>5. CASE Call(r)
  <2>1. breaker' \in [Processes -> Breaker]
    BY <1>5, <1>b, <1>c, BreakerTypes DEF Call, TypeOK
  <2>2. QED
    BY <1>0, <1>5, <2>1, GotoTypes DEF Call, TypeOK, api, documents, redis
<1>6. CASE CallRejected(r)
  <2>1. status' \in [Jobs -> Status]
    BY <1>6, <1>d DEF CallRejected, Status, Pending
  <2>2. QED
    BY <1>0, <1>6, <2>1, GotoTypes DEF CallRejected, TypeOK, api, redis
<1>7. CASE TaskReturns(r)
  <2>1. breaker' \in [Processes -> Breaker]
    BY <1>7, <1>b, <1>c, BreakerTypes DEF TaskReturns, TypeOK
  <2>2. RunnerOK'
    BY <1>0, <1>7 DEF TaskReturns, TypeOK, RunnerOK, AllOutcomes, Goto, Points
  <2>3. QED
    BY <1>7, <2>1, <2>2 DEF TaskReturns, TypeOK, api, documents, redis
<1>8. CASE TaskRaises(r)
  <2>1. breaker' \in [Processes -> Breaker]
    BY <1>8, <1>b, <1>c, BreakerTypes DEF TaskRaises, TypeOK
  <2>2. RunnerOK'
    BY <1>0, <1>8 DEF TaskRaises, TypeOK, RunnerOK, AllOutcomes, Goto, Points
  <2>3. QED
    BY <1>8, <2>1, <2>2 DEF TaskRaises, TypeOK, api, documents, redis
<1>9. CASE Complete(r)
  <2>1. status' \in [Jobs -> Status]
    BY <1>9, <1>d DEF Complete, Status, Final
  <2>2. result' \in [Jobs -> {"none", "report", "error"}]
    BY <1>9, <1>a DEF Complete, TypeOK, RunnerOK
  <2>3. QED
    BY <1>9, <2>1, <2>2, FinishTypes DEF Complete, TypeOK, api, redis
<1>10. CASE CompleteRaises(r)
  <2>1. status' \in [Jobs -> Status]
    BY <1>10, <1>d DEF CompleteRaises, TypeOK, Status, Final
  <2>2. result' \in [Jobs -> {"none", "report", "error"}]
    BY <1>10, <1>a DEF CompleteRaises, TypeOK, RunnerOK
  <2>3. RunnerOK'
    BY <1>0, <1>10 DEF CompleteRaises, TypeOK, RunnerOK, AllOutcomes, Goto, Points
  <2>4. QED
    BY <1>10, <2>1, <2>2, <2>3, InjectTypes DEF CompleteRaises, TypeOK, api, redis
<1>11. CASE Retry(r)
  <2>1. status' \in [Jobs -> Status]
    BY <1>11, <1>d DEF Retry, Status, Pending
  <2>2. attempts' \in [Jobs -> 0..MaxRetries]
    BY <1>11, <1>a DEF Retry, TypeOK
  <2>3. Attempt(r) \in 0..MaxRetries - 1
    BY <1>11, <1>a DEF Retry
  <2>4. [load[r] EXCEPT !.attempts = Attempt(r)] \in Payload
    BY <1>a, <2>3 DEF Payload
  <2>5. RunnerOK'
    BY <1>0, <1>11, <2>4 DEF Retry, TypeOK, RunnerOK, Goto, Points
  <2>6. QED
    BY <1>11, <2>1, <2>2, <2>5 DEF Retry, TypeOK, api, redis
<1>12. CASE StoreDeadLetter(r)
  <2>1. deadLetter' \in [Jobs -> 0..MaxRetries - 1 \cup {None}]
    BY <1>12, <1>a DEF StoreDeadLetter, TypeOK
  <2>2. RunnerOK'
    BY <1>0, <1>12 DEF StoreDeadLetter, TypeOK, RunnerOK, Goto, Points
  <2>3. faults' \in 0..MaxFaults /\ lost' \subseteq Jobs
    BY <1>12, <1>a, InjectTypes DEF StoreDeadLetter, TypeOK
  <2>4. QED
    BY <1>12, <2>1, <2>2, <2>3 DEF StoreDeadLetter, TypeOK, api, redis
<1>13. CASE Bury(r)
  <2>1. status' \in [Jobs -> Status]
    BY <1>13, <1>d DEF Bury, Status, Final
  <2>2. poisonPill' \subseteq Jobs
    BY <1>13, <1>a DEF Bury, TypeOK
  <2>3. QED
    BY <1>13, <2>1, <2>2, FinishTypes DEF Bury, TypeOK, api, redis
<1>14. CASE Requeue(r)
  <2>1. PICK reply \in RpushReplies :
          /\ Rpush(load[r], reply)
          /\ breaker' = IF Raises(reply) /\ r \in Workers
                          THEN [breaker EXCEPT ![r] = FreshBreaker]
                          ELSE breaker
    BY <1>14 DEF Requeue
  <2>2. breaker' \in [Processes -> Breaker]
    BY <1>c, <2>1, BreakerTypes DEF TypeOK
  <2>3. queue' \in Seq(Payload) /\ faults' \in 0..MaxFaults /\ lost' \subseteq Jobs
    BY <1>a, <2>1, RpushTypes DEF TypeOK
  <2>4. QED
    BY <1>14, <2>2, <2>3, FinishTypes DEF Requeue, TypeOK, api, documents
<1>15. CASE RetryInline(r)
  BY <1>a, <1>15, TakeTypes DEF RetryInline, TypeOK, api, documents, redis
<1>16. CASE DeferInline(r)
  BY <1>16, FinishTypes DEF DeferInline, TypeOK, api, documents, redis
<1>17. CASE SeeMarker(r)
  BY <1>0, <1>17, GotoTypes DEF SeeMarker, TypeOK, api, documents, redis
<1>18. CASE RequeueAgain(r)
  <2>1. queue' \in Seq(Payload) /\ faults' \in 0..MaxFaults
    BY <1>a, <1>18, InjectTypes DEF RequeueAgain, RpushAgain, TypeOK
  <2>2. RunnerOK'
    BY <1>0, <1>18, GotoTypes DEF RequeueAgain, NextTry, TypeOK
  <2>3. QED
    BY <1>18, <2>1, <2>2 DEF RequeueAgain, TypeOK, api, documents
<1>19. QED
  BY <1>1, <1>2, <1>3, <1>4, <1>5, <1>6, <1>7, <1>8, <1>9, <1>10, <1>11, <1>12,
     <1>13, <1>14, <1>15, <1>16, <1>17, <1>18
  DEF ProcessJob

LEMMA DeathTypes ==
    ASSUME TypeOK,
           \/ \E w \in Workers : Pop(w) \/ WorkerDies(w)
           \/ \E j \in Jobs : ThreadDies(j)
           \/ \E p \in Processes : RecoveryTimeout(p)
           \/ ApiDies
    PROVE  TypeOK'
<1> USE JobsAssumption DEF JobsAssumption
<1>a. ASSUME NEW r \in Runners PROVE Held(r) \subseteq Jobs
  BY PayloadTypes DEF Held
<1>b. FreshBreaker \in Breaker
  BY DEF FreshBreaker, Breaker
<1>1. ASSUME NEW w \in Workers, Pop(w) PROVE TypeOK'
  <2>1. /\ Head(queue) \in Payload
        /\ queue' \in Seq(Payload)
    BY <1>1 DEF Pop, TypeOK
  <2>2. w \in Runners
    BY DEF Runners
  <2>3. Head(queue).job \in Jobs
    BY <2>1 DEF Payload
  <2>4. RunnerOK'
    <3>1. CASE Take(w, Head(queue))
      BY <2>1, <2>2, <3>1, TakeTypes DEF TypeOK
    <3>2. CASE UNCHANGED runner
      BY <3>2 DEF TypeOK, runner, RunnerOK
    <3>3. QED BY <1>1, <3>1, <3>2 DEF Pop
  <2>5. faults' \in 0..MaxFaults /\ lost' \subseteq Jobs
    BY <1>1, <2>3, InjectTypes DEF Pop, TypeOK
  <2>6. QED BY <1>1, <2>1, <2>4, <2>5 DEF Pop, TypeOK, api, documents
<1>2. ASSUME NEW w \in Workers, WorkerDies(w) PROVE TypeOK'
  <2>1. w \in Runners /\ w \in Processes
    BY DEF Runners, Processes
  <2>2. breaker' \in [Processes -> Breaker]
    BY <1>2, <1>b, <2>1 DEF WorkerDies, TypeOK
  <2>3. lost' \subseteq Jobs
    BY <1>2, <1>a, <2>1 DEF WorkerDies, TypeOK
  <2>4. QED
    BY <1>2, <2>1, <2>2, <2>3, FinishTypes, InjectTypes
    DEF WorkerDies, TypeOK, api, documents, redis
<1>3. ASSUME NEW j \in Jobs, ThreadDies(j) PROVE TypeOK'
  <2>1. j \in Runners
    BY DEF Runners
  <2>2. lost' \subseteq Jobs
    BY <1>3, <1>a, <2>1 DEF ThreadDies, TypeOK
  <2>3. QED
    BY <1>3, <2>1, <2>2, FinishTypes, InjectTypes
    DEF ThreadDies, TypeOK, api, documents, redis
<1>4. ASSUME NEW p \in Processes, RecoveryTimeout(p) PROVE TypeOK'
  <2>1. breaker' \in [Processes -> Breaker]
    BY <1>4, BreakerTypes DEF RecoveryTimeout, TypeOK
  <2>2. QED
    BY <1>4, <2>1
    DEF RecoveryTimeout, TypeOK, api, documents, redis, runner, RunnerOK
<1>5. ASSUME ApiDies PROVE TypeOK'
  <2>1. breaker' \in [Processes -> Breaker]
    BY <1>5, <1>b DEF ApiDies, TypeOK, Processes
  <2>2. lost' \subseteq Jobs
    BY <1>5, <1>a DEF ApiDies, TypeOK, Runners
  <2>3. RunnerOK'
    BY <1>5 DEF ApiDies, TypeOK, RunnerOK, Points
  <2>4. QED
    BY <1>5, <2>1, <2>2, <2>3, InjectTypes
    DEF ApiDies, TypeOK, api, documents, redis
<1>6. QED BY <1>1, <1>2, <1>3, <1>4, <1>5

THEOREM TypeCorrect == Spec => []TypeOK
<1>1. TypeOK /\ [Next]_vars => TypeOK'
  <2> SUFFICES ASSUME TypeOK, [Next]_vars PROVE TypeOK'
    OBVIOUS
  <2>1. CASE UNCHANGED vars
    BY <2>1 DEF vars, TypeOK, RunnerOK
  <2>2. CASE Next
    BY <2>2, RequestTypes, ProcessJobTypes, DeathTypes DEF Next, Dispatch
  <2>3. QED BY <2>1, <2>2
<1>2. QED BY <1>1, InitTypes, PTL DEF Spec
-----------------------------------------------------------------------------
(* Who holds a job of the pipeline: deliveries are never lost by the service  *)
(* and, as long as no rpush is repeated, never doubled.                       *)

Busy(r) == pc[r] # "idle"
Queued(j) == \E n \in DOMAIN queue : queue[n].job = j
HeldBySome(j) == \E r \in Runners : Busy(r) /\ JobOf(r) = j

(* A step that at most takes deliveries away.                                 *)
NothingNew ==
    /\ \/ queue' = queue
       \/ queue # <<>> /\ queue' = Tail(queue)
    /\ \A r \in Runners : Busy(r)' => Busy(r) /\ JobOf(r)' = JobOf(r)
    /\ \A j \in Jobs : request'[j] # "served" => request[j] # "served"

-----------------------------------------------------------------------------
(* The steps of a runner, by what they do to the delivery it holds: keep it,  *)
(* end it, put it back in the list, or put a copy of it there.                *)
KeepsDelivery(r) ==
    /\ UNCHANGED <<deployment, queue, request>>
    /\ \A s \in Runners : Busy(s)' = Busy(s) /\ JobOf(s)' = JobOf(s)

EndsDelivery(r) ==
    /\ UNCHANGED <<deployment, queue, request>>
    /\ Finish(r)

LEMMA StepKinds ==
    ASSUME TypeOK, NEW r \in Runners, ProcessJob(r)
    PROVE  /\ Busy(r)
           /\ KeepsDelivery(r) \/ EndsDelivery(r) \/ Requeue(r) \/ RequeueAgain(r)
<1>1. CASE DropCancelled(r)
  BY <1>1 DEF DropCancelled, Busy, EndsDelivery, api, redis
<1>2. CASE NotCancelled(r)
  BY <1>2 DEF NotCancelled, Busy, KeepsDelivery, JobOf, Goto, api, redis, TypeOK, RunnerOK
<1>3. CASE DeferWhileOpen(r)
  BY <1>3 DEF DeferWhileOpen, Busy, KeepsDelivery, JobOf, Goto, api, redis, TypeOK, RunnerOK
<1>4. CASE Start(r)
  BY <1>4 DEF Start, Busy, KeepsDelivery, JobOf, Goto, api, redis, TypeOK, RunnerOK
<1>5. CASE Call(r)
  BY <1>5 DEF Call, Busy, KeepsDelivery, JobOf, Goto, api, redis, TypeOK, RunnerOK
<1>6. CASE CallRejected(r)
  BY <1>6 DEF CallRejected, Busy, KeepsDelivery, JobOf, Goto, api, redis, TypeOK, RunnerOK
<1>7. CASE TaskReturns(r)
  BY <1>7 DEF TaskReturns, Busy, KeepsDelivery, JobOf, Goto, api, redis, TypeOK, RunnerOK
<1>8. CASE TaskRaises(r)
  BY <1>8 DEF TaskRaises, Busy, KeepsDelivery, JobOf, Goto, api, redis, TypeOK, RunnerOK
<1>9. CASE Complete(r)
  BY <1>9 DEF Complete, Busy, EndsDelivery, api, redis
<1>10. CASE CompleteRaises(r)
  BY <1>10 DEF CompleteRaises, Busy, KeepsDelivery, JobOf, Goto, api, redis, TypeOK, RunnerOK
<1>11. CASE Retry(r)
  <2>1. load[r] \in Payload
    BY <1>11, PayloadTypes DEF Retry
  <2>2. load' = [load EXCEPT ![r] = [load[r] EXCEPT !.attempts = Attempt(r)]]
    BY <1>11 DEF Retry
  <2>3. [load[r] EXCEPT !.attempts = Attempt(r)].job = load[r].job
    BY <2>1 DEF Payload
  <2>4. \A s \in Runners : load'[s].job = load[s].job
    BY <2>2, <2>3 DEF TypeOK, RunnerOK
  <2>5. QED
    BY <1>11, <2>4
    DEF Retry, Busy, KeepsDelivery, JobOf, Goto, api, redis, TypeOK, RunnerOK
<1>12. CASE StoreDeadLetter(r)
  BY <1>12 DEF StoreDeadLetter, Busy, KeepsDelivery, JobOf, Goto, api, redis, TypeOK, RunnerOK
<1>13. CASE Bury(r)
  BY <1>13 DEF Bury, Busy, EndsDelivery, api, redis
<1>14. CASE Requeue(r) \/ RequeueAgain(r)
  BY <1>14 DEF Requeue, RequeueAgain, Pushing, Busy
<1>15. CASE RetryInline(r)
  BY <1>15 DEF RetryInline, Take, Busy, KeepsDelivery, JobOf, Goto, api, redis, TypeOK, RunnerOK
<1>16. CASE DeferInline(r)
  BY <1>16 DEF DeferInline, Busy, EndsDelivery, api, redis
<1>17. CASE SeeMarker(r)
  BY <1>17 DEF SeeMarker, Busy, KeepsDelivery, JobOf, Goto, api, redis, TypeOK, RunnerOK
<1>18. QED
  BY <1>1, <1>2, <1>3, <1>4, <1>5, <1>6, <1>7, <1>8, <1>9, <1>10, <1>11, <1>12,
     <1>13, <1>14, <1>15, <1>16, <1>17
  DEF ProcessJob

(* A try of rpush that another follows: the runner keeps what it holds.       *)
LEMMA PushingAgain ==
    ASSUME TypeOK, NEW r \in Runners, RequeueAgain(r)
    PROVE  /\ Busy(r) /\ load[r] \in Payload
           /\ queue' = Append(queue, load[r])
           /\ \A s \in Runners : Busy(s)' = Busy(s) /\ JobOf(s)' = JobOf(s)
<1>1. Busy(r)
  BY DEF RequeueAgain, Pushing, Busy
<1>2. QED
  BY <1>1, PayloadTypes
  DEF RequeueAgain, RpushAgain, Goto, NextTry, Busy, JobOf, TypeOK, RunnerOK

LEMMA EndingIsNothingNew ==
    ASSUME TypeOK, NEW r \in Runners, KeepsDelivery(r) \/ EndsDelivery(r)
    PROVE  NothingNew
<1>1. CASE KeepsDelivery(r)
  BY <1>1 DEF KeepsDelivery, NothingNew, Busy, JobOf
<1>2. CASE EndsDelivery(r)
  <2>1. ASSUME NEW s \in Runners, Busy(s)' PROVE Busy(s) /\ JobOf(s)' = JobOf(s)
    BY <1>2, <2>1 DEF EndsDelivery, Finish, Goto, Busy, JobOf, TypeOK, RunnerOK
  <2>2. QED BY <1>2, <2>1 DEF EndsDelivery, NothingNew, Busy, JobOf
<1>3. QED BY <1>1, <1>2

(* What the list holds after an Append and after a Tail.                      *)
LEMMA AppendJobs ==
    ASSUME NEW q \in Seq(Payload), NEW p \in Payload
    PROVE  /\ Append(q, p) \in Seq(Payload)
           /\ \A n \in DOMAIN q : n \in DOMAIN Append(q, p) /\ Append(q, p)[n] = q[n]
           /\ Len(q) + 1 \in DOMAIN Append(q, p) /\ Append(q, p)[Len(q) + 1] = p
           /\ \A n \in DOMAIN Append(q, p) : n \in DOMAIN q \/ n = Len(q) + 1
OBVIOUS

LEMMA TailJobs ==
    ASSUME NEW q \in Seq(Payload), q # <<>>
    PROVE  /\ Tail(q) \in Seq(Payload)
           /\ \A n \in DOMAIN Tail(q) :
                  n + 1 \in DOMAIN q /\ n + 1 # 1 /\ Tail(q)[n] = q[n + 1]
           /\ \A n \in DOMAIN q : n = 1 \/ (n - 1 \in DOMAIN Tail(q) /\ Tail(q)[n - 1] = q[n])
           /\ 1 \in DOMAIN q /\ Head(q) = q[1]
<1>1. Len(q) \in Nat /\ Len(q) # 0 /\ DOMAIN q = 1..Len(q)
  OBVIOUS
<1>2. Tail(q) \in Seq(Payload) /\ Len(Tail(q)) = Len(q) - 1
  OBVIOUS
<1>3. DOMAIN Tail(q) = 1..Len(q) - 1
  BY <1>1, <1>2
<1>4. \A n \in 1..Len(q) - 1 : Tail(q)[n] = q[n + 1]
  BY <1>1
<1>5. \A n \in DOMAIN Tail(q) :
          n + 1 \in DOMAIN q /\ n + 1 # 1 /\ Tail(q)[n] = q[n + 1]
  BY <1>1, <1>3, <1>4
<1>6. ASSUME NEW n \in DOMAIN q, n # 1
      PROVE  n - 1 \in DOMAIN Tail(q) /\ Tail(q)[n - 1] = q[n]
  <2>1. n - 1 \in 1..Len(q) - 1 /\ (n - 1) + 1 = n
    BY <1>1, <1>6
  <2>2. Tail(q)[n - 1] = q[(n - 1) + 1]
    BY <1>4, <2>1
  <2>3. QED BY <1>3, <2>1, <2>2
<1>7. \A n \in DOMAIN q : n = 1 \/ (n - 1 \in DOMAIN Tail(q) /\ Tail(q)[n - 1] = q[n])
  BY <1>6, Zenon
<1>8. 1 \in DOMAIN q /\ Head(q) = q[1]
  BY <1>1
<1>9. QED BY <1>2, <1>5, <1>7, <1>8, Zenon

-----------------------------------------------------------------------------
(* A background task of the API only ever runs the job it is named for.       *)
ThreadOwnsJob == \A j \in Jobs : Busy(j) => JobOf(j) = j

LEMMA ThreadOwnsJobInductive ==
    ASSUME TypeOK, ThreadOwnsJob, [Next]_vars
    PROVE  ThreadOwnsJob'
<1> USE JobsAssumption DEF JobsAssumption
<1>1. CASE UNCHANGED <<pc, load>>
  BY <1>1 DEF ThreadOwnsJob, Busy, JobOf
<1>2. ASSUME NEW j \in Jobs, DispatchInline(j) PROVE ThreadOwnsJob'
  BY <1>2 DEF DispatchInline, Take, Goto, ThreadOwnsJob, Busy, JobOf, TypeOK, RunnerOK, Runners
<1>3. ASSUME NEW j \in Jobs, ThreadDies(j) PROVE ThreadOwnsJob'
  BY <1>3 DEF ThreadDies, Finish, Goto, ThreadOwnsJob, Busy, JobOf, TypeOK, RunnerOK, Runners
<1>4. ASSUME NEW w \in Workers, Pop(w) \/ WorkerDies(w) PROVE ThreadOwnsJob'
  <2>1. \A j \in Jobs : pc'[j] = pc[j] /\ load'[j] = load[j]
    BY <1>4
    DEF Pop, WorkerDies, Take, Finish, Goto, TypeOK, RunnerOK, Runners, runner
  <2>2. QED BY <2>1 DEF ThreadOwnsJob, Busy, JobOf
<1>5. ASSUME NEW r \in Runners, ProcessJob(r) PROVE ThreadOwnsJob'
  <2>1. CASE KeepsDelivery(r)
    BY <2>1 DEF KeepsDelivery, ThreadOwnsJob, Runners
  <2>2. CASE Finish(r)
    BY <2>2 DEF Finish, Goto, ThreadOwnsJob, Busy, JobOf, TypeOK, RunnerOK, Runners
  <2>3. CASE RequeueAgain(r)
    BY <2>3, PushingAgain DEF ThreadOwnsJob, Runners
  <2>4. QED BY <1>5, <2>1, <2>2, <2>3, StepKinds DEF EndsDelivery, Requeue
<1>6. CASE ApiDies
  BY <1>6 DEF ApiDies, ThreadOwnsJob, Busy, JobOf, Runners
<1>7. QED
  BY <1>1, <1>2, <1>3, <1>4, <1>5, <1>6
  DEF Next, Dispatch, CreateJob, DispatchToRedis, DispatchAgain, DispatchFails,
      CancelJob, MarkCancelled, MarkerExpires, RecoveryTimeout, runner, vars

-----------------------------------------------------------------------------
(* With Redis, a job whose status promises more work has a delivery, unless a *)
(* fault destroyed it (NothingDropped): no branch of process_job or of the    *)
(* dispatch forgets to queue a job again.  No bound on deliveries is needed.  *)
LEMMA PendingAfterRequest ==
    ASSUME TypeOK, ThreadOwnsJob, NothingDropped, NEW j \in Jobs,
           \/ CreateJob(j) \/ DispatchToRedis(j) \/ DispatchAgain(j)
           \/ DispatchInline(j) \/ DispatchFails(j) \/ CancelJob(j)
           \/ MarkCancelled(j) \/ MarkerExpires(j)
    PROVE  NothingDropped'
<1> USE DEF Dispatching
<1>1. CASE CreateJob(j)
  BY <1>1 DEF CreateJob, NothingDropped, Delivered, SetStatus, HasRedis, TypeOK,
              JobOf, redis, runner
<1>2. CASE DispatchToRedis(j)
  <2>1. PICK reply \in RpushReplies : Rpush([job |-> j, attempts |-> 0], reply)
    BY <1>2 DEF DispatchToRedis
  <2> DEFINE p == [job |-> j, attempts |-> 0]
  <2>2. p \in Payload /\ p.job = j
    BY JobsAssumption DEF JobsAssumption, Payload
  <2> HIDE DEF p
  <2>3. \A n \in DOMAIN queue : n \in DOMAIN queue' /\ queue'[n] = queue[n]
    BY <2>1, <2>2, AppendJobs DEF Rpush, TypeOK, p
  <2>4. reply # "refused" => \E n \in DOMAIN queue' : queue'[n].job = j
    <3>1. \A q \in Seq(Payload) :
            /\ Append(q, p) \in Seq(Payload)
            /\ \E n \in DOMAIN Append(q, p) : Append(q, p)[n].job = j
      BY <2>2, AppendJobs
    <3>2. QED
      BY <2>1, <2>2, <3>1 DEF Rpush, RpushReplies, TypeOK, p
  <2>5. reply = "refused" => j \in lost'
    BY <2>1, <2>2 DEF Rpush, p
  <2>6. lost \subseteq lost'
    BY <2>1 DEF Rpush
  <2>7. QED
    BY <1>2, <2>3, <2>4, <2>5, <2>6
    DEF DispatchToRedis, NothingDropped, Delivered, HasRedis, TypeOK, JobOf,
        documents, runner
<1>3. CASE DispatchInline(j)
  <2>1. j \in Runners
    BY DEF Runners
  <2>2. \A r \in Runners : Busy(r) /\ JobOf(r) # j => Busy(r)' /\ JobOf(r)' = JobOf(r)
    BY <1>3, <2>1
    DEF DispatchInline, Take, Goto, ThreadOwnsJob, Busy, JobOf, TypeOK, RunnerOK
  <2>3. Busy(j)' /\ JobOf(j)' = j
    BY <1>3, <2>1
    DEF DispatchInline, Take, Goto, Busy, JobOf, TypeOK, RunnerOK
  <2>4. QED
    BY <1>3, <2>1, <2>2, <2>3
    DEF DispatchInline, NothingDropped, Delivered, HasRedis, TypeOK, Busy,
        documents, redis
<1>4. CASE DispatchFails(j)
  BY <1>4 DEF DispatchFails, NothingDropped, Delivered, HasRedis, TypeOK, JobOf,
              documents, redis, runner
<1>5. CASE CancelJob(j)
  BY <1>5 DEF CancelJob, NothingDropped, Delivered, SetStatus, Pending, HasRedis,
              TypeOK, JobOf, redis, runner
<1>6. CASE MarkCancelled(j)
  BY <1>6 DEF MarkCancelled, NothingDropped, Delivered, HasRedis, JobOf,
              documents, runner
<1>7. CASE MarkerExpires(j)
  BY <1>7 DEF MarkerExpires, NothingDropped, Delivered, HasRedis, JobOf,
              api, documents, runner
<1>8. CASE DispatchAgain(j)
  <2> DEFINE p == [job |-> j, attempts |-> 0]
  <2>1. p \in Payload
    BY JobsAssumption DEF JobsAssumption, Payload
  <2> HIDE DEF p
  <2>2. \A n \in DOMAIN queue : n \in DOMAIN queue' /\ queue'[n] = queue[n]
    BY <1>8, <2>1, AppendJobs DEF DispatchAgain, RpushAgain, TypeOK, p
  <2>3. /\ request'[j] \in Dispatching
        /\ \A k \in Jobs : k # j => request'[k] = request[k]
    BY <1>8 DEF DispatchAgain, NextTry, TypeOK
  <2>4. QED
    BY <1>8, <2>2, <2>3
    DEF DispatchAgain, NothingDropped, Delivered, HasRedis, JobOf, documents, runner
<1>9. QED BY <1>1, <1>2, <1>3, <1>4, <1>5, <1>6, <1>7, <1>8

(* The status a runner leaves behind when it ends a delivery is final, except *)
(* that without Redis a deferred job is just let go.                          *)
LEMMA PendingAfterProcessJob ==
    ASSUME TypeOK, NothingDropped, NEW r \in Runners, ProcessJob(r)
    PROVE  NothingDropped'
<1>1. CASE KeepsDelivery(r)
  <2>1. \A j \in Jobs : Delivered(j) => Delivered(j)'
    BY <1>1 DEF KeepsDelivery, Delivered, Busy
  <2>2. \A j \in Jobs : status'[j] # status[j] => j = JobOf(r)
    BY StepKinds
    DEF ProcessJob, SeeMarker, DropCancelled, NotCancelled, DeferWhileOpen, Start, Call,
        CallRejected, TaskReturns, TaskRaises, Complete, CompleteRaises, Retry,
        StoreDeadLetter, Bury, Requeue, RequeueAgain, RetryInline, DeferInline, SetStatus,
        documents, TypeOK
  <2>3. JobOf(r) \in Jobs => Delivered(JobOf(r))
    BY StepKinds DEF Delivered, Busy
  <2>4. lost \subseteq lost'
    BY DEF ProcessJob, SeeMarker, DropCancelled, NotCancelled, DeferWhileOpen, Start, Call,
        CallRejected, TaskReturns, TaskRaises, Complete, CompleteRaises, Retry,
        StoreDeadLetter, Bury, Requeue, RequeueAgain, RetryInline, DeferInline,
        Rpush
  <2>5. QED BY <1>1, <2>1, <2>2, <2>3, <2>4 DEF KeepsDelivery, NothingDropped, HasRedis
<1>2. CASE EndsDelivery(r) /\ ~Requeue(r)
  <2>1. pc'[r] = "idle" /\ \A s \in Runners : s # r => pc'[s] = pc[s] /\ JobOf(s)' = JobOf(s)
    BY <1>2 DEF EndsDelivery, Finish, Goto, JobOf, TypeOK, RunnerOK
  <2>2. \A j \in Jobs : j # JobOf(r) /\ Delivered(j) => Delivered(j)'
    BY <1>2, <2>1 DEF EndsDelivery, Delivered
  <2>3. pc[r] # "idle" /\ pc'[r] = "idle"
    BY <2>1, StepKinds DEF Busy
  <2>4. JobOf(r) \in Jobs
    BY <2>3, PayloadTypes
  <2>5. DropCancelled(r) \/ Complete(r) \/ Bury(r) \/ DeferInline(r)
    BY <1>2, <2>3
    DEF ProcessJob, SeeMarker, NotCancelled, DeferWhileOpen, Start, Call,
        CallRejected, TaskReturns, TaskRaises, CompleteRaises, Retry,
        StoreDeadLetter, RequeueAgain, NextTry, RetryInline, Take, Goto, TypeOK,
        RunnerOK
  <2>6. /\ lost' = lost
        /\ \A j \in Jobs : j # JobOf(r) => status'[j] = status[j]
        /\ HasRedis => status'[JobOf(r)] \notin Pending
    BY <2>4, <2>5
    DEF DropCancelled, Complete, Bury, DeferInline, SetStatus, documents, Pending,
        TypeOK
  <2>7. QED BY <1>2, <2>2, <2>6 DEF EndsDelivery, NothingDropped, HasRedis
<1>3. CASE Requeue(r)
  <2>1. PICK reply \in RpushReplies : Rpush(load[r], reply)
    BY <1>3 DEF Requeue
  <2>2. pc[r] # "idle" /\ load[r] \in Payload
    BY <1>3, PayloadTypes DEF Requeue, Pushing
  <2>3. \A n \in DOMAIN queue : n \in DOMAIN queue' /\ queue'[n] = queue[n]
    BY <2>1, <2>2, AppendJobs DEF Rpush, TypeOK
  <2>4. reply # "refused" => \E n \in DOMAIN queue' : queue'[n].job = JobOf(r)
    <3>1. \A q \in Seq(Payload) :
            /\ Append(q, load[r]) \in Seq(Payload)
            /\ \E n \in DOMAIN Append(q, load[r]) : Append(q, load[r])[n].job = JobOf(r)
      BY <2>2, AppendJobs DEF JobOf
    <3>2. QED
      BY <2>1, <2>2, <3>1 DEF Rpush, RpushReplies, TypeOK
  <2>5. reply = "refused" => JobOf(r) \in lost'
    BY <2>1 DEF Rpush, JobOf
  <2>6. lost \subseteq lost'
    BY <2>1 DEF Rpush
  <2>7. \A s \in Runners : s # r => pc'[s] = pc[s] /\ JobOf(s)' = JobOf(s)
    BY <1>3 DEF Requeue, Finish, Goto, JobOf, TypeOK, RunnerOK
  <2>8. \A j \in Jobs : Delivered(j) => Delivered(j)' \/ j \in lost'
    BY <1>3, <2>3, <2>4, <2>5, <2>7 DEF Requeue, Delivered, api
  <2>9. QED BY <1>3, <2>6, <2>8 DEF Requeue, NothingDropped, HasRedis, documents
<1>4. CASE RequeueAgain(r)
  <2>0. queue \in Seq(Payload) /\ load[r] \in Payload /\ queue' = Append(queue, load[r])
    BY <1>4, PushingAgain DEF TypeOK
  <2>1. \A n \in DOMAIN queue : n \in DOMAIN queue' /\ queue'[n] = queue[n]
    BY <2>0, AppendJobs
  <2>2. \A j \in Jobs : Delivered(j) => Delivered(j)'
    BY <1>4, <2>1, PushingAgain DEF RequeueAgain, Delivered, Busy, api
  <2>3. QED BY <1>4, <2>2 DEF RequeueAgain, NothingDropped, HasRedis, documents
<1>5. QED BY <1>1, <1>2, <1>3, <1>4, StepKinds

LEMMA PendingAfterDeath ==
    ASSUME TypeOK, NothingDropped,
           \/ \E w \in Workers : Pop(w) \/ WorkerDies(w)
           \/ \E j \in Jobs : ThreadDies(j)
           \/ ApiDies
    PROVE  NothingDropped'
<1> USE JobsAssumption DEF JobsAssumption
<1>1. ASSUME NEW w \in Workers, Pop(w) PROVE NothingDropped'
  <2>1. w \in Runners /\ pc[w] = "idle"
    BY <1>1 DEF Pop, Runners
  <2>2. \A n \in DOMAIN queue :
            \/ queue[n].job = Head(queue).job
            \/ \E m \in DOMAIN queue' : queue'[m] = queue[n]
    BY <1>1, TailJobs DEF Pop, TypeOK
  <2>3. \A s \in Runners : pc[s] # "idle" => pc'[s] = pc[s] /\ JobOf(s)' = JobOf(s)
    BY <1>1, <2>1 DEF Pop, Take, Goto, JobOf, runner, TypeOK, RunnerOK
  <2>4. \/ pc'[w] # "idle" /\ JobOf(w)' = Head(queue).job
        \/ Head(queue).job \in lost'
    BY <1>1, <2>1 DEF Pop, Take, Goto, JobOf, TypeOK, RunnerOK
  <2>5. lost \subseteq lost'
    BY <1>1 DEF Pop
  <2>6. \A j \in Jobs : Delivered(j) => Delivered(j)' \/ j \in lost'
    <3>1. SUFFICES ASSUME NEW j \in Jobs, Delivered(j)
                   PROVE  Delivered(j)' \/ j \in lost'
      OBVIOUS
    <3>2. CASE request[j] \in Dispatching
      BY <1>1, <3>2 DEF Pop, Delivered, api
    <3>3. CASE Queued(j)
      BY <2>1, <2>2, <2>4, <3>3 DEF Queued, Delivered
    <3>4. CASE HeldBySome(j)
      BY <2>3, <3>4 DEF HeldBySome, Busy, Delivered
    <3>5. QED BY <3>1, <3>2, <3>3, <3>4 DEF Delivered, Queued, HeldBySome, Busy
  <2>7. QED BY <1>1, <2>5, <2>6 DEF Pop, NothingDropped, HasRedis, documents
<1>2. ASSUME NEW r \in Runners, Finish(r), lost' = lost \cup Held(r),
             UNCHANGED <<deployment, request, status, queue>>
      PROVE  NothingDropped'
  <2>1. \A s \in Runners : s # r => pc'[s] = pc[s] /\ JobOf(s)' = JobOf(s)
    BY <1>2 DEF Finish, Goto, JobOf, TypeOK, RunnerOK
  <2>2. \A j \in Jobs : Delivered(j) => Delivered(j)' \/ j \in lost'
    BY <1>2, <2>1 DEF Delivered, Held
  <2>3. QED BY <1>2, <2>2 DEF NothingDropped, HasRedis
<1>3. ASSUME NEW w \in Workers, WorkerDies(w) PROVE NothingDropped'
  BY <1>2, <1>3 DEF WorkerDies, Runners, api, documents, redis
<1>4. ASSUME NEW j \in Jobs, ThreadDies(j) PROVE NothingDropped'
  BY <1>2, <1>4 DEF ThreadDies, Runners, api, documents, redis
<1>5. ASSUME ApiDies PROVE NothingDropped'
  <2>1. \A s \in Workers : pc'[s] = pc[s] /\ JobOf(s)' = JobOf(s)
    BY <1>5 DEF ApiDies, JobOf, Runners
  <2>2. \A s \in Jobs : pc[s] # "idle" => JobOf(s) \in lost'
    BY <1>5 DEF ApiDies, Held
  <2>3. lost \subseteq lost'
    BY <1>5 DEF ApiDies
  <2>4. \A j \in Jobs : Delivered(j) => Delivered(j)' \/ j \in lost'
    BY <1>5, <2>1, <2>2 DEF ApiDies, Delivered, Runners, api, redis
  <2>5. QED BY <1>5, <2>3, <2>4 DEF ApiDies, NothingDropped, HasRedis, documents
<1>6. QED BY <1>1, <1>3, <1>4, <1>5

THEOREM NothingDroppedHolds == Spec => []NothingDropped
<1>1. Init => ThreadOwnsJob /\ NothingDropped
  BY DEF Init, ThreadOwnsJob, NothingDropped, Pending, Busy, Runners
<1>2. TypeOK /\ ThreadOwnsJob /\ NothingDropped /\ [Next]_vars
        => (ThreadOwnsJob /\ NothingDropped)'
  <2> SUFFICES ASSUME TypeOK, ThreadOwnsJob, NothingDropped, [Next]_vars
               PROVE  ThreadOwnsJob' /\ NothingDropped'
    OBVIOUS
  <2>1. ThreadOwnsJob'
    BY ThreadOwnsJobInductive
  <2>2. CASE UNCHANGED <<deployment, request, status, queue, pc, load, lost>>
    BY <2>1, <2>2 DEF NothingDropped, Delivered, HasRedis, JobOf
  <2>3. CASE Next
    BY <2>1, <2>2, <2>3, PendingAfterRequest, PendingAfterProcessJob, PendingAfterDeath
    DEF Next, Dispatch, RecoveryTimeout, api, documents, redis, runner
  <2>4. QED BY <2>1, <2>2, <2>3 DEF vars
<1>3. QED BY <1>1, <1>2, TypeCorrect, PTL DEF Spec

-----------------------------------------------------------------------------
(* A job has one delivery at most (SingleDelivery), if no rpush is repeated.  *)
LEMMA ShorterQueueJobs ==
    ASSUME TypeOK,
           \/ queue' = queue
           \/ queue # <<>> /\ queue' = Tail(queue)
    PROVE  \A n \in DOMAIN queue' : \E m \in DOMAIN queue : queue'[n] = queue[m]
<1>1. CASE queue' = queue
  BY <1>1
<1>2. CASE queue # <<>> /\ queue' = Tail(queue)
  <2>1. \A n \in DOMAIN queue' : n + 1 \in DOMAIN queue /\ queue'[n] = queue[n + 1]
    BY <1>2, TailJobs DEF TypeOK
  <2>2. QED BY <2>1
<1>3. QED BY <1>1, <1>2

LEMMA ShorterQueue ==
    ASSUME TypeOK, SingleDelivery,
           \/ queue' = queue
           \/ queue # <<>> /\ queue' = Tail(queue)
    PROVE  /\ \A n \in DOMAIN queue' : \E m \in DOMAIN queue : queue'[n] = queue[m]
           /\ \A m, n \in DOMAIN queue' : queue'[m].job = queue'[n].job => m = n
<1>1. CASE queue' = queue
  BY <1>1 DEF SingleDelivery
<1>2. CASE queue # <<>> /\ queue' = Tail(queue)
  <2>1. \A n \in DOMAIN queue' : n + 1 \in DOMAIN queue /\ queue'[n] = queue[n + 1]
    BY <1>2, TailJobs DEF TypeOK
  <2>2. ASSUME NEW m \in DOMAIN queue', NEW n \in DOMAIN queue',
               queue'[m].job = queue'[n].job
        PROVE  m = n
    <3>1. m + 1 = n + 1
      BY <2>1, <2>2 DEF SingleDelivery
    <3>2. m \in Nat /\ n \in Nat
      BY <1>2, TailJobs DEF TypeOK
    <3>3. QED BY <3>1, <3>2
  <2>3. QED BY <2>2, ShorterQueueJobs
<1>3. QED BY <1>1, <1>2

LEMMA NothingNewKeepsSingle ==
    ASSUME TypeOK, SingleDelivery, NothingNew
    PROVE  SingleDelivery'
<1>1. /\ \A n \in DOMAIN queue' : \E m \in DOMAIN queue : queue'[n] = queue[m]
      /\ \A m, n \in DOMAIN queue' : queue'[m].job = queue'[n].job => m = n
  BY ShorterQueue DEF NothingNew
<1>2. QED BY <1>1 DEF SingleDelivery, NothingNew, Busy

LEMMA AddingKeepsSingle ==
    ASSUME TypeOK, SingleDelivery, NEW p \in Payload,
           queue' = Append(queue, p),
           ~Queued(p.job),
           \A r \in Runners : Busy(r)' =>
               Busy(r) /\ JobOf(r)' = JobOf(r) /\ JobOf(r) # p.job,
           \A j \in Jobs : request'[j] # "served" =>
               request[j] # "served" /\ j # p.job
    PROVE  SingleDelivery'
<1>1. \A n \in DOMAIN queue' :
          \/ n \in DOMAIN queue /\ queue'[n] = queue[n]
          \/ n = Len(queue) + 1 /\ queue'[n] = p
  BY AppendJobs DEF TypeOK
<1>2. QED BY <1>1 DEF SingleDelivery, Queued, Busy

LEMMA TakingKeepsSingle ==
    ASSUME TypeOK, SingleDelivery, NEW r \in Runners, NEW p \in Payload, Take(r, p),
           \/ queue' = queue
           \/ queue # <<>> /\ queue' = Tail(queue),
           \A n \in DOMAIN queue' : queue'[n].job # p.job,
           \A s \in Runners : Busy(s) /\ s # r => JobOf(s) # p.job,
           \A j \in Jobs : request'[j] # "served" =>
               request[j] # "served" /\ j # p.job
    PROVE  SingleDelivery'
<1>1. /\ \A n \in DOMAIN queue' : \E m \in DOMAIN queue : queue'[n] = queue[m]
      /\ \A m, n \in DOMAIN queue' : queue'[m].job = queue'[n].job => m = n
  BY ShorterQueue
<1>2. /\ JobOf(r)' = p.job
      /\ \A s \in Runners : s # r => Busy(s)' = Busy(s) /\ JobOf(s)' = JobOf(s)
  BY DEF Take, Goto, Busy, JobOf, TypeOK, RunnerOK
<1>3. QED BY <1>1, <1>2 DEF SingleDelivery, Busy

LEMMA RpushKinds ==
    ASSUME NEW p \in Payload, NEW reply \in RpushReplies, Rpush(p, reply)
    PROVE  queue' = queue \/ queue' = Append(queue, p)
BY DEF Rpush

LEMMA SingleDeliveryInductive ==
    ASSUME "duplicated" \notin Faults,
           TypeOK, SingleDelivery, [Next]_vars
    PROVE  SingleDelivery'
<1> USE JobsAssumption DEF JobsAssumption
<1>1. CASE UNCHANGED <<queue, pc, load, request>>
  BY <1>1 DEF SingleDelivery, JobOf
<1>2. ASSUME NEW j \in Jobs, CreateJob(j) \/ DispatchFails(j) PROVE SingleDelivery'
  <2>1. NothingNew
    BY <1>2 DEF CreateJob, DispatchFails, NothingNew, Busy, JobOf, redis, runner, TypeOK
  <2>2. QED BY <2>1, NothingNewKeepsSingle
<1>3. ASSUME NEW j \in Jobs, DispatchToRedis(j) PROVE SingleDelivery'
  <2> DEFINE p == [job |-> j, attempts |-> 0]
  <2>1. p \in Payload /\ p.job = j
    BY DEF Payload
  <2> HIDE DEF p
  <2>2. queue' = queue \/ queue' = Append(queue, p)
    BY <1>3, <2>1, RpushKinds DEF DispatchToRedis, p
  <2>3. ~Queued(j) /\ \A r \in Runners : Busy(r) => JobOf(r) # j
    BY <1>3 DEF DispatchToRedis, Dispatching, SingleDelivery, Queued, Busy
  <2>4. \A r \in Runners : Busy(r)' = Busy(r) /\ JobOf(r)' = JobOf(r)
    BY <1>3 DEF DispatchToRedis, runner, Busy, JobOf
  <2>5. \A k \in Jobs : request'[k] # "served" => request[k] # "served" /\ k # j
    BY <1>3 DEF DispatchToRedis, TypeOK
  <2>6. CASE queue' = queue
    <3>1. NothingNew
      BY <2>4, <2>5, <2>6 DEF NothingNew, Busy, JobOf
    <3>2. QED BY <3>1, NothingNewKeepsSingle
  <2>7. CASE queue' = Append(queue, p)
    <3>1. \A r \in Runners : Busy(r)' =>
              Busy(r) /\ JobOf(r)' = JobOf(r) /\ JobOf(r) # p.job
      BY <2>1, <2>3, <2>4 DEF Busy, JobOf
    <3>2. QED BY <2>1, <2>3, <2>5, <2>7, <3>1, AddingKeepsSingle
  <2>8. QED BY <2>2, <2>6, <2>7
<1>4. ASSUME NEW j \in Jobs, DispatchInline(j) PROVE SingleDelivery'
  <2> DEFINE p == [job |-> j, attempts |-> 0]
  <2>1. p \in Payload /\ p.job = j
    BY DEF Payload
  <2>2. Take(j, p) /\ j \in Runners /\ queue' = queue
    BY <1>4 DEF DispatchInline, Runners, redis
  <2> HIDE DEF p
  <2>3. \A n \in DOMAIN queue' : queue'[n].job # p.job
    BY <1>4, <2>1, <2>2 DEF DispatchInline, SingleDelivery
  <2>4. \A r \in Runners : Busy(r) => JobOf(r) # p.job
    BY <1>4, <2>1 DEF DispatchInline, SingleDelivery, Busy
  <2>5. \A k \in Jobs : request'[k] # "served" => request[k] # "served" /\ k # p.job
    BY <1>4, <2>1 DEF DispatchInline, TypeOK
  <2>6. QED BY <2>1, <2>2, <2>3, <2>4, <2>5, TakingKeepsSingle
<1>5. ASSUME NEW w \in Workers, Pop(w) PROVE SingleDelivery'
  <2>1. w \in Runners /\ queue # <<>> /\ queue' = Tail(queue) /\ request' = request
    BY <1>5 DEF Pop, Runners, api
  <2>2. CASE UNCHANGED runner
    <3>1. NothingNew
      BY <2>1, <2>2 DEF NothingNew, runner, Busy, JobOf
    <3>2. QED BY <3>1, NothingNewKeepsSingle
  <2>3. CASE Take(w, Head(queue))
    <3>1. Head(queue) \in Payload /\ Head(queue) = queue[1] /\ 1 \in DOMAIN queue
      BY <2>1, TailJobs DEF TypeOK
    <3>2. \A n \in DOMAIN queue' : queue'[n].job # Head(queue).job
      <4>1. SUFFICES ASSUME NEW n \in DOMAIN queue' PROVE queue'[n].job # Head(queue).job
        OBVIOUS
      <4>2. n + 1 \in DOMAIN queue /\ n + 1 # 1 /\ queue'[n] = queue[n + 1]
        BY <2>1, TailJobs DEF TypeOK
      <4>3. QED BY <3>1, <4>2 DEF SingleDelivery
    <3>3. \A s \in Runners : Busy(s) => JobOf(s) # Head(queue).job
      BY <3>1 DEF SingleDelivery, Busy
    <3>4. \A k \in Jobs : request[k] # "served" => k # Head(queue).job
      BY <3>1 DEF SingleDelivery
    <3>5. QED BY <2>1, <2>3, <3>1, <3>2, <3>3, <3>4, TakingKeepsSingle
  <2>4. QED BY <1>5, <2>2, <2>3 DEF Pop
<1>6. ASSUME NEW r \in Runners, Finish(r), UNCHANGED <<queue, request>>
      PROVE  SingleDelivery'
  <2>1. NothingNew
    BY <1>6, EndingIsNothingNew DEF EndsDelivery, NothingNew, Finish, Goto, Busy,
       JobOf, TypeOK, RunnerOK
  <2>2. QED BY <2>1, NothingNewKeepsSingle
<1>7. ASSUME NEW w \in Workers, WorkerDies(w) PROVE SingleDelivery'
  BY <1>6, <1>7 DEF WorkerDies, Runners, api, redis
<1>8. ASSUME NEW j \in Jobs, ThreadDies(j) PROVE SingleDelivery'
  BY <1>6, <1>8 DEF ThreadDies, Runners, api, redis
<1>9. CASE ApiDies
  <2>1. NothingNew
    BY <1>9 DEF ApiDies, NothingNew, Busy, JobOf, api, redis
  <2>2. QED BY <2>1, NothingNewKeepsSingle
<1>10. ASSUME NEW r \in Runners, ProcessJob(r) PROVE SingleDelivery'
  <2>1. CASE KeepsDelivery(r) \/ EndsDelivery(r)
    BY <2>1, EndingIsNothingNew, NothingNewKeepsSingle
  <2>2. CASE Requeue(r)
    <3>1. PICK reply \in RpushReplies : Rpush(load[r], reply)
      BY <2>2 DEF Requeue
    <3>2. Busy(r) /\ load[r] \in Payload
      BY <2>2, PayloadTypes DEF Requeue, Pushing, Busy
    <3>3. CASE queue' = queue
      BY <1>6, <2>2, <3>3 DEF Requeue, api
    <3>4. CASE queue' = Append(queue, load[r])
      <4>1. ~Queued(load[r].job)
        BY <3>2 DEF SingleDelivery, Queued, Busy, JobOf
      <4>2. \A s \in Runners : Busy(s)' =>
                Busy(s) /\ JobOf(s)' = JobOf(s) /\ JobOf(s) # load[r].job
        BY <2>2, <3>2
        DEF Requeue, Finish, Goto, Busy, JobOf, SingleDelivery, TypeOK, RunnerOK
      <4>3. \A k \in Jobs : request[k] # "served" => k # load[r].job
        BY <3>2 DEF SingleDelivery, Busy, JobOf
      <4>4. request' = request
        BY <2>2 DEF Requeue, api
      <4>5. QED BY <3>2, <3>4, <4>1, <4>2, <4>3, <4>4, AddingKeepsSingle
    <3>5. QED BY <3>1, <3>2, <3>3, <3>4, RpushKinds
  <2>3. ~RequeueAgain(r)
    BY DEF RequeueAgain, RpushAgain, Inject
  <2>4. QED BY <1>10, <2>1, <2>2, <2>3, StepKinds
<1>11. \A j \in Jobs : ~DispatchAgain(j)
  BY DEF DispatchAgain, RpushAgain, Inject
<1>12. QED
  BY <1>1, <1>2, <1>3, <1>4, <1>5, <1>7, <1>8, <1>9, <1>10, <1>11
  DEF Next, Dispatch, CancelJob, MarkCancelled, MarkerExpires, RecoveryTimeout,
      api, redis, runner, vars

THEOREM SingleDeliveryHolds ==
    ASSUME "duplicated" \notin Faults
    PROVE  Spec => []SingleDelivery
<1>1. Init => SingleDelivery
  BY DEF Init, SingleDelivery
<1>2. TypeOK /\ SingleDelivery /\ [Next]_vars => SingleDelivery'
  BY SingleDeliveryInductive
<1>3. QED BY <1>1, <1>2, TypeCorrect, PTL DEF Spec

-----------------------------------------------------------------------------
(* A job with nothing in flight stays so: no step brings a delivery into      *)
(* being but the POST that submits the job.                                   *)
InFlight(j) == request[j] # "served" \/ Queued(j) \/ HeldBySome(j)

LEMMA InFlightBefore ==
    ASSUME TypeOK, [Next]_vars
    PROVE  \A j \in Jobs : InFlight(j)' => InFlight(j)
<1> USE JobsAssumption DEF JobsAssumption
<1> DEFINE Goal == \A j \in Jobs : InFlight(j)' => InFlight(j)
<1>1. CASE UNCHANGED <<queue, pc, load, request>>
  BY <1>1 DEF InFlight, Queued, HeldBySome, Busy, JobOf
<1>2. ASSUME NothingNew PROVE Goal
  <2>1. \A n \in DOMAIN queue' : \E m \in DOMAIN queue : queue'[n] = queue[m]
    BY <1>2, ShorterQueueJobs DEF NothingNew
  <2>2. \A r \in Runners : Busy(r)' => Busy(r) /\ JobOf(r)' = JobOf(r)
    BY <1>2 DEF NothingNew, Busy, JobOf
  <2>3. QED
    BY <1>2, <2>1, <2>2 DEF NothingNew, InFlight, Queued, HeldBySome, Busy, JobOf
<1>3. ASSUME NEW p \in Payload, InFlight(p.job),
             queue' = queue \/ queue' = Append(queue, p),
             \A r \in Runners : Busy(r)' => Busy(r) /\ JobOf(r)' = JobOf(r),
             \A j \in Jobs : request'[j] # "served" => request[j] # "served"
      PROVE  Goal
  <2>1. \A n \in DOMAIN queue' :
            queue'[n] = p \/ (n \in DOMAIN queue /\ queue'[n] = queue[n])
    <3>1. queue \in Seq(Payload)
      BY DEF TypeOK
    <3>2. CASE queue' = queue
      BY <3>2
    <3>3. CASE queue' = Append(queue, p)
      BY <3>1, <3>3, AppendJobs
    <3>4. QED BY <1>3, <3>2, <3>3
  <2>2. QED
    BY <1>3, <2>1 DEF InFlight, Queued, HeldBySome, Busy, JobOf
<1>4. ASSUME NEW r \in Runners, NEW p \in Payload, Take(r, p), InFlight(p.job),
             \/ queue' = queue
             \/ queue # <<>> /\ queue' = Tail(queue),
             \A j \in Jobs : request'[j] # "served" => request[j] # "served"
      PROVE  Goal
  <2>1. \A n \in DOMAIN queue' : \E m \in DOMAIN queue : queue'[n] = queue[m]
    BY <1>4, ShorterQueueJobs
  <2>2. \A s \in Runners : Busy(s)' =>
            (s = r /\ JobOf(s)' = p.job) \/ (Busy(s) /\ JobOf(s)' = JobOf(s))
    BY <1>4 DEF Take, Goto, Busy, JobOf, TypeOK, RunnerOK
  <2>3. QED
    BY <1>4, <2>1, <2>2 DEF InFlight, Queued, HeldBySome, Busy, JobOf
<1>5. ASSUME NEW j \in Jobs, CreateJob(j) \/ DispatchFails(j) PROVE Goal
  BY <1>2, <1>5
  DEF CreateJob, DispatchFails, NothingNew, Busy, JobOf, redis, runner, TypeOK
<1>6. ASSUME NEW j \in Jobs, DispatchToRedis(j) \/ DispatchAgain(j) PROVE Goal
  <2> DEFINE p == [job |-> j, attempts |-> 0]
  <2>1. p \in Payload /\ p.job = j
    BY DEF Payload
  <2>2. InFlight(p.job)
    BY <1>6, <2>1 DEF DispatchToRedis, DispatchAgain, Dispatching, InFlight
  <2>3. queue' = queue \/ queue' = Append(queue, p)
    BY <1>6 DEF DispatchToRedis, DispatchAgain, Rpush, RpushAgain
  <2> HIDE DEF p
  <2>4. /\ \A r \in Runners : Busy(r)' => Busy(r) /\ JobOf(r)' = JobOf(r)
        /\ \A k \in Jobs : request'[k] # "served" => request[k] # "served"
    BY <1>6
    DEF DispatchToRedis, DispatchAgain, Dispatching, runner, Busy, JobOf, TypeOK
  <2>5. QED BY <1>3, <2>1, <2>2, <2>3, <2>4
<1>7. ASSUME NEW j \in Jobs, DispatchInline(j) PROVE Goal
  <2> DEFINE p == [job |-> j, attempts |-> 0]
  <2>1. p \in Payload /\ p.job = j
    BY DEF Payload
  <2>2. Take(j, p) /\ j \in Runners /\ queue' = queue
    BY <1>7 DEF DispatchInline, Runners, redis
  <2> HIDE DEF p
  <2>3. InFlight(p.job)
    BY <1>7, <2>1 DEF DispatchInline, InFlight
  <2>4. \A k \in Jobs : request'[k] # "served" => request[k] # "served"
    BY <1>7 DEF DispatchInline, TypeOK
  <2>5. QED BY <1>4, <2>1, <2>2, <2>3, <2>4
<1>8. ASSUME NEW w \in Workers, Pop(w) PROVE Goal
  <2>1. w \in Runners /\ queue # <<>> /\ queue' = Tail(queue) /\ request' = request
    BY <1>8 DEF Pop, Runners, api
  <2>2. CASE UNCHANGED runner
    BY <1>2, <2>1, <2>2 DEF NothingNew, runner, Busy, JobOf
  <2>3. CASE Take(w, Head(queue))
    <3>1. Head(queue) \in Payload /\ Head(queue) = queue[1] /\ 1 \in DOMAIN queue
      BY <2>1, TailJobs DEF TypeOK
    <3>2. InFlight(Head(queue).job)
      BY <3>1 DEF InFlight, Queued
    <3>3. QED BY <1>4, <2>1, <2>3, <3>1, <3>2
  <2>4. QED BY <1>8, <2>2, <2>3 DEF Pop
<1>9. ASSUME NEW r \in Runners, Finish(r), UNCHANGED <<queue, request>>
      PROVE  Goal
  BY <1>2, <1>9
  DEF NothingNew, Finish, Goto, Busy, JobOf, TypeOK, RunnerOK
<1>10. ASSUME NEW w \in Workers, WorkerDies(w) PROVE Goal
  BY <1>9, <1>10 DEF WorkerDies, Runners, api, redis
<1>11. ASSUME NEW j \in Jobs, ThreadDies(j) PROVE Goal
  BY <1>9, <1>11 DEF ThreadDies, Runners, api, redis
<1>12. CASE ApiDies
  BY <1>2, <1>12 DEF ApiDies, NothingNew, Busy, JobOf, api, redis
<1>13. ASSUME NEW r \in Runners, ProcessJob(r) PROVE Goal
  <2>1. CASE KeepsDelivery(r) \/ EndsDelivery(r)
    BY <1>2, <2>1, EndingIsNothingNew
  <2>2. CASE Requeue(r) \/ RequeueAgain(r)
    <3>1. Busy(r) /\ load[r] \in Payload
      BY <2>2, PayloadTypes DEF Requeue, RequeueAgain, Pushing, Busy
    <3>2. InFlight(load[r].job)
      BY <3>1 DEF InFlight, HeldBySome, JobOf
    <3>3. /\ \A s \in Runners : Busy(s)' => Busy(s) /\ JobOf(s)' = JobOf(s)
          /\ request' = request
      BY <2>2, <3>1
      DEF Requeue, RequeueAgain, Finish, Goto, Busy, JobOf, TypeOK, RunnerOK, api
    <3>4. queue' = queue \/ queue' = Append(queue, load[r])
      BY <2>2 DEF Requeue, RequeueAgain, Rpush, RpushAgain
    <3>5. QED BY <1>3, <3>1, <3>2, <3>3, <3>4
  <2>3. QED BY <1>13, <2>1, <2>2, StepKinds
<1>14. QED
  BY <1>1, <1>5, <1>6, <1>7, <1>8, <1>10, <1>11, <1>12, <1>13
  DEF Next, Dispatch, CancelJob, MarkCancelled, MarkerExpires, RecoveryTimeout,
      api, redis, runner, vars

(* Only a POST, a cancel and the runner that holds a job write its document.  *)
LEMMA StatusWriters ==
    ASSUME TypeOK, [Next]_vars, NEW j \in Jobs, status'[j] # status[j]
    PROVE  \/ CreateJob(j)
           \/ CancelJob(j) /\ status'[j] = "CANCELLED"
           \/ \E r \in Runners : ProcessJob(r) /\ Busy(r) /\ JobOf(r) = j
<1>1. CASE \E k \in Jobs : CreateJob(k) \/ CancelJob(k)
  BY <1>1 DEF CreateJob, CancelJob, SetStatus, TypeOK
<1>2. ASSUME NEW r \in Runners, ProcessJob(r)
      PROVE  Busy(r) /\ JobOf(r) = j
  <2>1. Busy(r)
    BY <1>2, StepKinds
  <2>2. status' = status \/ \E s \in Status : SetStatus(JobOf(r), s)
    BY <1>2
    DEF ProcessJob, SeeMarker, DropCancelled, NotCancelled, DeferWhileOpen, Start, Call,
        CallRejected, TaskReturns, TaskRaises, Complete, CompleteRaises, Retry,
        StoreDeadLetter, Bury, Requeue, RequeueAgain, RetryInline, DeferInline, documents,
        Status, Pending, Final
  <2>3. QED BY <2>1, <2>2 DEF SetStatus, TypeOK
<1>3. CASE \E k \in Jobs : \/ Dispatch(k) \/ DispatchAgain(k) \/ DispatchFails(k)
                           \/ MarkCancelled(k) \/ MarkerExpires(k) \/ ThreadDies(k)
  BY <1>3 DEF Dispatch, DispatchToRedis, DispatchInline, DispatchAgain, DispatchFails,
              MarkCancelled, MarkerExpires, ThreadDies, documents
<1>4. CASE \E w \in Workers : Pop(w) \/ WorkerDies(w)
  BY <1>4 DEF Pop, WorkerDies, documents
<1>5. CASE ApiDies \/ \E p \in Processes : RecoveryTimeout(p)
  BY <1>5 DEF ApiDies, RecoveryTimeout, documents
<1>6. QED BY <1>1, <1>2, <1>3, <1>4, <1>5 DEF Next, vars

-----------------------------------------------------------------------------
(* A dead-lettered job has nothing in flight; nor has a completed one, if the *)
(* COMPLETED write is never applied and then reported as failed.              *)
BuriedIsOver ==
    \A j \in Jobs : status[j] = "DEAD_LETTERED" => ~InFlight(j)

CompletedIsOver ==
    \A j \in Jobs : status[j] = "COMPLETED" => ~InFlight(j)

LEMMA EndedIsOver ==
    ASSUME TypeOK, SingleDelivery, NEW r \in Runners, NEW j,
           Busy(r), JobOf(r) = j, EndsDelivery(r)
    PROVE  ~InFlight(j)'
<1>1. /\ ~Busy(r)'
      /\ \A s \in Runners : s # r => Busy(s)' = Busy(s) /\ JobOf(s)' = JobOf(s)
  BY DEF EndsDelivery, Finish, Goto, Busy, JobOf, TypeOK, RunnerOK
<1>2. j \in Jobs
  BY PayloadTypes DEF Busy
<1>3. /\ request[j] = "served"
      /\ \A n \in DOMAIN queue : queue[n].job # j
      /\ \A s \in Runners : Busy(s) /\ JobOf(s) = j => s = r
  BY <1>2 DEF SingleDelivery, Busy
<1>4. QED
  BY <1>1, <1>3 DEF EndsDelivery, InFlight, Queued, HeldBySome, Busy, JobOf

(* The last write of a delivery.                                              *)
LEMMA FinalWriters ==
    ASSUME TypeOK, NEW r \in Runners, ProcessJob(r), NEW j \in Jobs,
           status'[j] # status[j]
    PROVE  /\ status'[j] = "DEAD_LETTERED" => Bury(r)
           /\ status'[j] = "COMPLETED" => Complete(r) \/ CompleteRaises(r)
<1>1. CASE Bury(r)
  BY <1>1 DEF Bury, SetStatus, TypeOK
<1>2. CASE Complete(r) \/ CompleteRaises(r)
  BY <1>2 DEF Complete, CompleteRaises, SetStatus, TypeOK
<1>3. CASE DropCancelled(r) \/ DeferWhileOpen(r) \/ Start(r) \/ CallRejected(r) \/ Retry(r)
  BY <1>3 DEF DropCancelled, DeferWhileOpen, Start, CallRejected, Retry, SetStatus, TypeOK
<1>4. CASE UNCHANGED status
  BY <1>4
<1>5. QED
  BY <1>1, <1>2, <1>3, <1>4
  DEF ProcessJob, SeeMarker, NotCancelled, Call, TaskReturns, TaskRaises,
      StoreDeadLetter, Requeue, RequeueAgain, RetryInline, DeferInline, documents

LEMMA BuriedIsOverInductive ==
    ASSUME TypeOK, SingleDelivery, BuriedIsOver, [Next]_vars
    PROVE  BuriedIsOver'
<1>1. SUFFICES ASSUME NEW j \in Jobs, status'[j] = "DEAD_LETTERED"
               PROVE  ~InFlight(j)'
  BY DEF BuriedIsOver
<1>2. CASE status[j] = "DEAD_LETTERED"
  BY <1>2, InFlightBefore DEF BuriedIsOver
<1>3. CASE status[j] # "DEAD_LETTERED"
  <2>1. ~CreateJob(j)
    BY <1>1 DEF CreateJob, SetStatus, TypeOK
  <2>2. PICK r \in Runners : ProcessJob(r) /\ Busy(r) /\ JobOf(r) = j
    BY <1>1, <1>3, <2>1, StatusWriters
  <2>3. Bury(r)
    BY <1>1, <1>3, <2>2, FinalWriters
  <2>4. QED BY <2>2, <2>3, EndedIsOver DEF Bury, EndsDelivery, api, redis
<1>4. QED BY <1>2, <1>3

LEMMA CompletedIsOverInductive ==
    ASSUME "late_write" \notin Faults,
           TypeOK, SingleDelivery, CompletedIsOver, [Next]_vars
    PROVE  CompletedIsOver'
<1>1. SUFFICES ASSUME NEW j \in Jobs, status'[j] = "COMPLETED"
               PROVE  ~InFlight(j)'
  BY DEF CompletedIsOver
<1>2. CASE status[j] = "COMPLETED"
  BY <1>2, InFlightBefore DEF CompletedIsOver
<1>3. CASE status[j] # "COMPLETED"
  <2>1. ~CreateJob(j)
    BY <1>1 DEF CreateJob, SetStatus, TypeOK
  <2>2. PICK r \in Runners : ProcessJob(r) /\ Busy(r) /\ JobOf(r) = j
    BY <1>1, <1>3, <2>1, StatusWriters
  <2>3. Complete(r)
    BY <1>1, <1>3, <2>2, FinalWriters DEF CompleteRaises, Inject
  <2>4. QED BY <2>2, <2>3, EndedIsOver DEF Complete, EndsDelivery, api, redis
<1>4. QED BY <1>2, <1>3

(* If no rpush is repeated and no COMPLETED write is applied and reported as  *)
(* failed, a final status is only ever replaced by a cancel request.          *)
THEOREM FinalStatusStandsHolds ==
    ASSUME "duplicated" \notin Faults, "late_write" \notin Faults
    PROVE  Spec => FinalStatusStands
<1>1. Init => SingleDelivery /\ BuriedIsOver /\ CompletedIsOver
  BY DEF Init, SingleDelivery, BuriedIsOver, CompletedIsOver
<1>2. TypeOK /\ SingleDelivery /\ BuriedIsOver /\ CompletedIsOver /\ [Next]_vars
        => (SingleDelivery /\ BuriedIsOver /\ CompletedIsOver)'
  BY SingleDeliveryInductive, BuriedIsOverInductive, CompletedIsOverInductive
<1>3. TypeOK /\ BuriedIsOver /\ CompletedIsOver /\ [Next]_vars
        => [\A j \in Jobs : status[j] \in {"COMPLETED", "DEAD_LETTERED"} =>
                status'[j] \in {status[j], "CANCELLED"}]_vars
  <2> SUFFICES ASSUME TypeOK, BuriedIsOver, CompletedIsOver, [Next]_vars,
                      NEW j \in Jobs,
                      status[j] \in {"COMPLETED", "DEAD_LETTERED"},
                      status'[j] # status[j]
               PROVE  status'[j] = "CANCELLED"
    OBVIOUS
  <2>1. ~InFlight(j)
    BY DEF BuriedIsOver, CompletedIsOver
  <2>2. ~CreateJob(j)
    BY <2>1 DEF InFlight, CreateJob
  <2>3. ~\E r \in Runners : Busy(r) /\ JobOf(r) = j
    BY <2>1 DEF InFlight, HeldBySome
  <2>4. QED BY <2>2, <2>3, StatusWriters
<1>4. QED BY <1>1, <1>2, <1>3, TypeCorrect, PTL DEF Spec, FinalStatusStands

-----------------------------------------------------------------------------
(* What a runner knows of its job between RUNNING and DEAD_LETTERED.          *)
Attempting == {"starting", "executing", "returned", "failed", "burying"}

AttemptsCounted ==
    \A r \in Runners : pc[r] \in Attempting => attempts[JobOf(r)] = Attempt(r)

BurialJustified ==
    \A r \in Runners : pc[r] = "burying" =>
        /\ outcome[r] = "poison" \/ Attempt(r) = MaxRetries
        /\ deadLetter[JobOf(r)] # None \/ JobOf(r) \in lost

(* A runner writes about its own job only.                                    *)
LEMMA RunnerFrame ==
    ASSUME TypeOK, NEW r \in Runners, ProcessJob(r)
    PROVE  /\ \A s \in Runners \ {r} :
                  pc'[s] = pc[s] /\ load'[s] = load[s] /\ outcome'[s] = outcome[s]
           /\ \A j \in Jobs \ {JobOf(r)} :
                  /\ attempts'[j] = attempts[j]
                  /\ deadLetter'[j] = deadLetter[j]
                  /\ j \in poisonPill => j \in poisonPill'
           /\ lost \subseteq lost'
<1> USE DEF TypeOK, RunnerOK, Goto, Finish, Take, documents
<1>1. CASE \/ SeeMarker(r) \/ DropCancelled(r) \/ NotCancelled(r) \/ DeferWhileOpen(r)
           \/ Start(r) \/ Call(r) \/ CallRejected(r)
  BY <1>1 DEF SeeMarker, DropCancelled, NotCancelled, DeferWhileOpen, Start, Call, CallRejected
<1>2. CASE TaskReturns(r) \/ TaskRaises(r) \/ Complete(r) \/ CompleteRaises(r)
  BY <1>2 DEF TaskReturns, TaskRaises, Complete, CompleteRaises
<1>3. CASE Retry(r) \/ StoreDeadLetter(r) \/ Bury(r)
  BY <1>3 DEF Retry, StoreDeadLetter, Bury
<1>4. CASE Requeue(r) \/ RequeueAgain(r) \/ RetryInline(r) \/ DeferInline(r)
  BY <1>4 DEF Requeue, RequeueAgain, Rpush, RetryInline, DeferInline
<1>5. QED BY <1>1, <1>2, <1>3, <1>4 DEF ProcessJob

LEMMA RunnerCounts ==
    ASSUME TypeOK, AttemptsCounted, NEW r \in Runners, ProcessJob(r),
           pc'[r] \in Attempting
    PROVE  JobOf(r)' = JobOf(r) /\ attempts'[JobOf(r)] = Attempt(r)'
<1> USE DEF TypeOK, RunnerOK, Goto, Finish, Take, documents, Attempting,
        AttemptsCounted, JobOf, Attempt
<1>0. pc[r] # "idle"
  BY StepKinds DEF Busy
<1>a. load[r].job \in Jobs
  BY <1>0, PayloadTypes
<1>1. CASE \/ SeeMarker(r) \/ DropCancelled(r) \/ NotCancelled(r) \/ DeferWhileOpen(r)
           \/ Call(r) \/ CallRejected(r)
  BY <1>1 DEF SeeMarker, DropCancelled, NotCancelled, DeferWhileOpen, Call, CallRejected
<1>2. CASE Start(r)
  BY <1>2, <1>a DEF Start
<1>3. CASE TaskReturns(r) \/ TaskRaises(r) \/ Complete(r) \/ CompleteRaises(r)
  BY <1>3 DEF TaskReturns, TaskRaises, Complete, CompleteRaises
<1>4. CASE Retry(r) \/ StoreDeadLetter(r) \/ Bury(r)
  BY <1>4 DEF Retry, StoreDeadLetter, Bury
<1>5. CASE Requeue(r) \/ RequeueAgain(r) \/ RetryInline(r) \/ DeferInline(r)
  BY <1>5 DEF Requeue, RequeueAgain, NextTry, RetryInline, DeferInline
<1>6. QED BY <1>1, <1>2, <1>3, <1>4, <1>5 DEF ProcessJob

LEMMA RunnerBuries ==
    ASSUME TypeOK, BurialJustified, NEW r \in Runners, ProcessJob(r),
           pc'[r] = "burying"
    PROVE  /\ JobOf(r)' = JobOf(r)
           /\ outcome'[r] = "poison" \/ Attempt(r)' = MaxRetries
           /\ deadLetter'[JobOf(r)] # None \/ JobOf(r) \in lost'
<1>1. StoreDeadLetter(r)
  BY DEF ProcessJob, SeeMarker, DropCancelled, NotCancelled, DeferWhileOpen, Start, Call,
         CallRejected, TaskReturns, TaskRaises, Complete, CompleteRaises, Retry,
         StoreDeadLetter, Bury, Requeue, RequeueAgain, NextTry, RetryInline, DeferInline,
         Goto, Finish, Take, TypeOK, RunnerOK
<1>2. /\ JobOf(r) \in Jobs
      /\ Attempt(r) \in 1..MaxRetries
      /\ load[r].attempts \in 0..MaxRetries - 1
  BY <1>1, PayloadTypes DEF StoreDeadLetter
<1>3. outcome[r] = "poison" \/ Attempt(r) = MaxRetries
  BY <1>1, <1>2, JobsAssumption DEF StoreDeadLetter, JobsAssumption
<1>4. deadLetter'[JobOf(r)] # None \/ JobOf(r) \in lost'
  BY <1>1, <1>2, JobsAssumption DEF StoreDeadLetter, TypeOK, JobsAssumption
<1>5. QED BY <1>1, <1>3, <1>4 DEF StoreDeadLetter, JobOf, Attempt

LEMMA JustificationInductive ==
    ASSUME TypeOK, SingleDelivery, AttemptsCounted, BurialJustified, [Next]_vars
    PROVE  AttemptsCounted' /\ BurialJustified'
<1>1. CASE UNCHANGED <<pc, load, outcome, attempts, deadLetter>> /\ lost \subseteq lost'
  BY <1>1 DEF AttemptsCounted, BurialJustified, JobOf, Attempt
<1>2. ASSUME UNCHANGED <<attempts, deadLetter>>, lost \subseteq lost',
             \A s \in Runners : pc'[s] \in Attempting =>
                 pc'[s] = pc[s] /\ load'[s] = load[s] /\ outcome'[s] = outcome[s]
      PROVE  AttemptsCounted' /\ BurialJustified'
  BY <1>2 DEF AttemptsCounted, BurialJustified, JobOf, Attempt, Attempting
<1>3. ASSUME NEW r \in Runners, ProcessJob(r)
      PROVE  AttemptsCounted' /\ BurialJustified'
  <2>1. Busy(r)
    BY <1>3, StepKinds
  <2>2. ASSUME NEW s \in Runners \ {r}, pc'[s] \in Attempting
        PROVE  /\ pc[s] = pc'[s] /\ load'[s] = load[s] /\ outcome'[s] = outcome[s]
               /\ attempts'[JobOf(s)] = attempts[JobOf(s)]
               /\ deadLetter'[JobOf(s)] = deadLetter[JobOf(s)]
    <3>1. pc[s] = pc'[s] /\ load'[s] = load[s] /\ outcome'[s] = outcome[s]
      BY <1>3, RunnerFrame
    <3>2. JobOf(s) \in Jobs /\ JobOf(s) # JobOf(r)
      BY <2>1, <2>2, <3>1, PayloadTypes DEF SingleDelivery, Busy, Attempting
    <3>3. QED BY <1>3, <3>1, <3>2, RunnerFrame
  <2>3. AttemptsCounted'
    <3>1. SUFFICES ASSUME NEW s \in Runners, pc'[s] \in Attempting
                   PROVE  attempts'[JobOf(s)'] = Attempt(s)'
      BY DEF AttemptsCounted
    <3>2. CASE s = r
      BY <1>3, <3>1, <3>2, RunnerCounts
    <3>3. CASE s # r
      BY <2>2, <3>1, <3>3 DEF AttemptsCounted, JobOf, Attempt
    <3>4. QED BY <3>2, <3>3
  <2>4. BurialJustified'
    <3>1. SUFFICES ASSUME NEW s \in Runners, pc'[s] = "burying"
                   PROVE  /\ outcome'[s] = "poison" \/ Attempt(s)' = MaxRetries
                          /\ deadLetter'[JobOf(s)'] # None \/ JobOf(s)' \in lost'
      BY DEF BurialJustified
    <3>2. CASE s = r
      BY <1>3, <3>1, <3>2, RunnerBuries
    <3>3. CASE s # r
      BY <1>3, <2>2, <3>1, <3>3, RunnerFrame DEF BurialJustified, JobOf, Attempt, Attempting
    <3>4. QED BY <3>2, <3>3
  <2>5. QED BY <2>3, <2>4
<1>4. ASSUME NEW j \in Jobs, DispatchToRedis(j) \/ DispatchAgain(j)
      PROVE  AttemptsCounted' /\ BurialJustified'
  BY <1>1, <1>4 DEF DispatchToRedis, DispatchAgain, Rpush, documents, runner
<1>5. ASSUME NEW j \in Jobs, DispatchInline(j) PROVE AttemptsCounted' /\ BurialJustified'
  BY <1>2, <1>5
  DEF DispatchInline, Take, Goto, documents, Attempting, TypeOK, RunnerOK
<1>6. ASSUME NEW w \in Workers, Pop(w) PROVE AttemptsCounted' /\ BurialJustified'
  BY <1>1, <1>2, <1>6
  DEF Pop, Take, Goto, documents, runner, Attempting, TypeOK, RunnerOK
<1>7. ASSUME NEW w \in Workers, WorkerDies(w) PROVE AttemptsCounted' /\ BurialJustified'
  BY <1>2, <1>7
  DEF WorkerDies, Finish, Goto, documents, Attempting, TypeOK, RunnerOK
<1>8. ASSUME NEW j \in Jobs, ThreadDies(j) PROVE AttemptsCounted' /\ BurialJustified'
  BY <1>2, <1>8
  DEF ThreadDies, Finish, Goto, documents, Attempting, TypeOK, RunnerOK
<1>9. ASSUME ApiDies PROVE AttemptsCounted' /\ BurialJustified'
  BY <1>2, <1>9 DEF ApiDies, documents, Attempting, TypeOK, RunnerOK
<1>10. QED
  BY <1>1, <1>3, <1>4, <1>5, <1>6, <1>7, <1>8, <1>9
  DEF Next, Dispatch, CreateJob, DispatchFails, CancelJob, MarkCancelled,
      MarkerExpires, RecoveryTimeout, documents, runner, vars

LEMMA DeadLetterJustifiedInductive ==
    ASSUME TypeOK, BuriedIsOver, AttemptsCounted, BurialJustified,
           DeadLetterJustified, [Next]_vars
    PROVE  DeadLetterJustified'
<1>1. SUFFICES ASSUME NEW j \in Jobs, status'[j] = "DEAD_LETTERED"
               PROVE  /\ j \in poisonPill' \/ attempts'[j] = MaxRetries
                      /\ deadLetter'[j] # None \/ j \in lost'
  BY DEF DeadLetterJustified
<1>2. CASE status[j] = "DEAD_LETTERED"
  <2>1. \A r \in Runners : Busy(r) => JobOf(r) # j
    BY <1>2 DEF BuriedIsOver, InFlight, HeldBySome
  <2>2. /\ attempts'[j] = attempts[j]
        /\ deadLetter'[j] = deadLetter[j]
        /\ j \in poisonPill => j \in poisonPill'
        /\ lost \subseteq lost'
    <3>1. CASE \E r \in Runners : ProcessJob(r)
      BY <2>1, <3>1, RunnerFrame, StepKinds
    <3>2. CASE UNCHANGED <<attempts, deadLetter, poisonPill>> /\ lost \subseteq lost'
      BY <3>2
    <3>3. QED
      BY <3>1, <3>2
      DEF Next, Dispatch, CreateJob, DispatchToRedis, DispatchInline, Rpush,
          DispatchAgain, DispatchFails, CancelJob, MarkCancelled, MarkerExpires, Pop, WorkerDies,
          ThreadDies, ApiDies, RecoveryTimeout, documents, vars
  <2>3. QED BY <1>2, <2>2 DEF DeadLetterJustified
<1>3. CASE status[j] # "DEAD_LETTERED"
  <2>1. ~CreateJob(j)
    BY <1>1 DEF CreateJob, SetStatus, TypeOK
  <2>2. PICK r \in Runners : ProcessJob(r) /\ Busy(r) /\ JobOf(r) = j
    BY <1>1, <1>3, <2>1, StatusWriters
  <2>3. Bury(r)
    BY <1>1, <1>3, <2>2, FinalWriters
  <2>4. /\ outcome[r] = "poison" \/ attempts[j] = MaxRetries
        /\ deadLetter[j] # None \/ j \in lost
    BY <2>2, <2>3 DEF Bury, BurialJustified, AttemptsCounted, Attempting
  <2>5. QED BY <2>2, <2>3, <2>4 DEF Bury
<1>4. QED BY <1>2, <1>3

(* If no rpush is repeated, a job is only dead-lettered for poison or after   *)
(* MaxRetries attempts, and its entry is stored unless a fault lost it.       *)
THEOREM DeadLetterJustifiedHolds ==
    ASSUME "duplicated" \notin Faults
    PROVE  Spec => []DeadLetterJustified
<1> DEFINE IInv == /\ SingleDelivery /\ BuriedIsOver
                   /\ AttemptsCounted /\ BurialJustified /\ DeadLetterJustified
<1>1. Init => IInv
  BY DEF Init, SingleDelivery, BuriedIsOver, AttemptsCounted, BurialJustified,
         DeadLetterJustified, Attempting
<1>2. TypeOK /\ IInv /\ [Next]_vars => IInv'
  BY SingleDeliveryInductive, BuriedIsOverInductive, JustificationInductive,
     DeadLetterJustifiedInductive
<1>3. IInv => DeadLetterJustified
  OBVIOUS
<1>4. QED BY <1>1, <1>2, <1>3, TypeCorrect, PTL DEF Spec

-----------------------------------------------------------------------------
(* What ends retries.  A runner is past the check of the marker only if it    *)
(* was before, with the same job, or has just looked at the marker.           *)
Passed(r) == pc[r] \notin {"idle", "dequeued", "cancelling", "backoff", "deferred",
                            "second_try", "third_try"}

LEMMA NotPassedByTaking ==
    ASSUME TypeOK, NEW r \in Runners, NEW p, Take(r, p) \/ Finish(r),
           NEW s \in Runners, Passed(s)'
    PROVE  Passed(s) /\ JobOf(s)' = JobOf(s)
BY DEF TypeOK, RunnerOK, Take, Finish, Goto, Passed, JobOf

LEMMA PassedBefore ==
    ASSUME TypeOK, Next, NEW s \in Runners, Passed(s)'
    PROVE  \/ Passed(s) /\ JobOf(s)' = JobOf(s)
           \/ NotCancelled(s) /\ JobOf(s)' = JobOf(s)
<1> DEFINE Same == pc' = pc /\ load' = load
<1>1. CASE Same
  BY <1>1 DEF Passed, JobOf
<1>2. ASSUME NEW r \in Runners, ProcessJob(r)
      PROVE  \/ Passed(s) /\ JobOf(s)' = JobOf(s)
             \/ NotCancelled(s) /\ JobOf(s)' = JobOf(s)
  <2>1. Busy(r) /\ (KeepsDelivery(r) \/ EndsDelivery(r) \/ Requeue(r) \/ RequeueAgain(r))
    BY <1>2, StepKinds
  <2>2. CASE EndsDelivery(r) \/ Requeue(r)
    BY <2>2, NotPassedByTaking DEF EndsDelivery, Requeue
  <2>5. CASE RequeueAgain(r)
    BY <2>5 DEF RequeueAgain, Pushing, NextTry, Goto, Passed, JobOf, TypeOK, RunnerOK
  <2>3. CASE KeepsDelivery(r)
    <3>1. JobOf(s)' = JobOf(s)
      BY <2>3 DEF KeepsDelivery
    <3>2. CASE s # r
      <4>1. pc'[s] = pc[s]
        BY <1>2, <3>2
        DEF ProcessJob, SeeMarker, DropCancelled, NotCancelled, DeferWhileOpen, Start, Call,
            CallRejected, TaskReturns, TaskRaises, Complete, CompleteRaises, Retry,
            StoreDeadLetter, Bury, Requeue, RequeueAgain, RetryInline, DeferInline, Take,
            Finish, Goto, TypeOK, RunnerOK
      <4>2. QED BY <3>1, <4>1 DEF Passed
    <3>3. CASE s = r
      <4>1. NotCancelled(r) \/ ~Passed(r)' \/ Passed(r)
        BY <1>2
        DEF ProcessJob, SeeMarker, DropCancelled, DeferWhileOpen, Start, Call,
            CallRejected, TaskReturns, TaskRaises, Complete, CompleteRaises, Retry,
            StoreDeadLetter, Bury, Requeue, RequeueAgain, Pushing, NextTry, RetryInline,
            DeferInline, Take, Finish, Goto, Passed, TypeOK, RunnerOK
      <4>2. QED BY <3>1, <3>3, <4>1
    <3>4. QED BY <3>2, <3>3
  <2>4. QED BY <2>1, <2>2, <2>3, <2>5
<1>3. ASSUME NEW j \in Jobs,
             CreateJob(j) \/ Dispatch(j) \/ DispatchAgain(j) \/ DispatchFails(j)
               \/ CancelJob(j) \/ MarkCancelled(j) \/ MarkerExpires(j) \/ ThreadDies(j)
      PROVE  Passed(s) /\ JobOf(s)' = JobOf(s)
  <2>1. j \in Runners
    BY DEF Runners
  <2>2. CASE DispatchInline(j) \/ ThreadDies(j)
    BY <2>1, <2>2, NotPassedByTaking DEF DispatchInline, ThreadDies
  <2>3. CASE DispatchToRedis(j) \/ DispatchAgain(j)
    BY <1>1, <2>3 DEF DispatchToRedis, DispatchAgain, runner, Passed, JobOf
  <2>4. CASE CreateJob(j) \/ DispatchFails(j) \/ CancelJob(j) \/ MarkCancelled(j)
               \/ MarkerExpires(j)
    BY <2>4 DEF CreateJob, DispatchFails, CancelJob, MarkCancelled, MarkerExpires,
                runner, Passed, JobOf
  <2>5. QED BY <1>3, <2>2, <2>3, <2>4 DEF Dispatch
<1>4. ASSUME NEW w \in Workers, Pop(w) \/ WorkerDies(w)
      PROVE  Passed(s) /\ JobOf(s)' = JobOf(s)
  <2>1. w \in Runners
    BY DEF Runners
  <2>2. Take(w, Head(queue)) \/ Finish(w) \/ UNCHANGED runner
    BY <1>4 DEF Pop, WorkerDies
  <2>3. QED BY <2>1, <2>2, NotPassedByTaking DEF runner, Passed, JobOf
<1>5. ASSUME NEW p \in Processes, RecoveryTimeout(p)
      PROVE  Same
  BY <1>5 DEF RecoveryTimeout, runner
<1>6. CASE ApiDies
  BY <1>6 DEF ApiDies, Passed, JobOf
<1>7. QED BY <1>1, <1>2, <1>3, <1>4, <1>5, <1>6 DEF Next

(* While its marker can be read, no runner starts a job anew, whatever        *)
(* retries, deferrals and repeated deliveries of it there are: only a fault   *)
(* in reading the marker, which is counted, lets one pass.                    *)
THEOREM CancelStopsRetriesHolds == Spec => CancelStopsRetries
<1>1. TypeOK /\ [Next]_vars
        => [\A j \in marker \cap marker' :
                ~PastCheck(j) /\ UNCHANGED faults => ~PastCheck(j)']_vars
  <2> SUFFICES ASSUME TypeOK, Next, NEW j \in marker \cap marker', ~PastCheck(j),
                      UNCHANGED faults, PastCheck(j)'
               PROVE  FALSE
    OBVIOUS
  <2>1. PICK s \in Runners : Passed(s)' /\ JobOf(s)' = j
    BY DEF PastCheck, Passed, Pushing, JobOf
  <2>2. JobOf(s) = j /\ NotCancelled(s)
    BY <2>1, PassedBefore DEF PastCheck, Passed, Pushing
  <2>3. Inject("redis_read")
    BY <2>2 DEF NotCancelled
  <2>4. QED BY <2>3 DEF Inject, TypeOK
<1>2. QED BY <1>1, TypeCorrect, PTL DEF Spec, CancelStopsRetries

-----------------------------------------------------------------------------
(* When rpush may be repeated, SingleDelivery does not hold.  What does: the  *)
(* deliveries of a job, wherever they are, are no more than the faults and    *)
(* one.                                                                       *)
Listed(j) == Cardinality(PositionsIn(queue, j))
Holding(j) == Cardinality(Holders(j))

CopiesBounded ==
    \A j \in Jobs : IsFiniteSet(Holders(j)) /\ Copies(j) <= faults + 1

LEMMA PositionsFinite ==
    ASSUME NEW q \in Seq(Payload), NEW j
    PROVE  /\ IsFiniteSet(PositionsIn(q, j))
           /\ Cardinality(PositionsIn(q, j)) \in Nat
<1>1. Len(q) \in Nat /\ DOMAIN q = 1..Len(q)
  OBVIOUS
<1>2. IsFiniteSet(1..Len(q))
  BY <1>1, FS_Interval
<1>3. PositionsIn(q, j) \in SUBSET (1..Len(q))
  BY <1>1 DEF PositionsIn
<1>4. QED BY <1>2, <1>3, FS_Subset, FS_CardinalityType

LEMMA PositionsByAppend ==
    ASSUME NEW q \in Seq(Payload), NEW p \in Payload, NEW j
    PROVE  /\ p.job = j => Cardinality(PositionsIn(Append(q, p), j))
                             = Cardinality(PositionsIn(q, j)) + 1
           /\ p.job # j => PositionsIn(Append(q, p), j) = PositionsIn(q, j)
<1> DEFINE new == Len(q) + 1
<1>1. /\ \A n \in DOMAIN q : n \in DOMAIN Append(q, p) /\ Append(q, p)[n] = q[n]
      /\ new \in DOMAIN Append(q, p) /\ Append(q, p)[new] = p
      /\ \A n \in DOMAIN Append(q, p) : n \in DOMAIN q \/ n = new
  BY AppendJobs
<1>2. new \notin DOMAIN q
  OBVIOUS
<1> HIDE DEF new
<1>3. p.job = j => PositionsIn(Append(q, p), j) = PositionsIn(q, j) \cup {new}
  BY <1>1 DEF PositionsIn
<1>4. p.job # j => PositionsIn(Append(q, p), j) = PositionsIn(q, j)
  BY <1>1 DEF PositionsIn
<1>5. new \notin PositionsIn(q, j)
  BY <1>2 DEF PositionsIn
<1>6. QED BY <1>3, <1>4, <1>5, PositionsFinite, FS_AddElement

LEMMA PositionsByTail ==
    ASSUME NEW q \in Seq(Payload), q # <<>>, NEW j
    PROVE  Cardinality(PositionsIn(Tail(q), j))
             <= Cardinality(PositionsIn(q, j)) - (IF Head(q).job = j THEN 1 ELSE 0)
<1> DEFINE S == PositionsIn(Tail(q), j)
           T == PositionsIn(q, j) \ {1}
           f == [n \in S |-> n + 1]
<1>1. /\ \A n \in DOMAIN Tail(q) :
              n \in Nat /\ n + 1 \in DOMAIN q /\ n + 1 # 1 /\ Tail(q)[n] = q[n + 1]
      /\ 1 \in DOMAIN q /\ Head(q) = q[1]
  BY TailJobs
<1>2. \A n \in S : n + 1 \in T /\ n \in Nat
  BY <1>1 DEF PositionsIn
<1>3. f \in [S -> T] /\ \A m, n \in S : f[m] = f[n] => m = n
  BY <1>2
<1>4. f \in Injection(S, T)
  BY <1>3 DEF Injection, IsInjective
<1>5. /\ IsFiniteSet(PositionsIn(q, j)) /\ Cardinality(PositionsIn(q, j)) \in Nat
      /\ IsFiniteSet(T)
      /\ Cardinality(T) = IF 1 \in PositionsIn(q, j)
                            THEN Cardinality(PositionsIn(q, j)) - 1
                            ELSE Cardinality(PositionsIn(q, j))
  BY PositionsFinite, FS_RemoveElement
<1>6. Cardinality(S) <= Cardinality(T)
  BY <1>4, <1>5, FS_Injection
<1>7. 1 \in PositionsIn(q, j) <=> Head(q).job = j
  BY <1>1 DEF PositionsIn
<1> HIDE DEF T, f
<1>8. QED BY <1>5, <1>6, <1>7

-----------------------------------------------------------------------------
(* A step adds at most one delivery for each fault.                           *)
LEMMA CopiesNumber ==
    ASSUME TypeOK, CopiesBounded, NEW j \in Jobs
    PROVE  /\ Cardinality(PositionsIn(queue, j)) \in Nat
           /\ IsFiniteSet(Holders(j)) /\ Cardinality(Holders(j)) \in Nat
           /\ Copies(j) \in Nat /\ faults \in Nat
BY PositionsFinite, FS_CardinalityType, JobsAssumption
DEF CopiesBounded, Copies, Listed, Holding, Waiting, TypeOK, JobsAssumption

LEMMA HoldersByFinish ==
    ASSUME TypeOK, CopiesBounded, NEW r \in Runners, Finish(r), NEW j \in Jobs
    PROVE  /\ IsFiniteSet(Holders(j)')
           /\ Cardinality(Holders(j)') =
                  Cardinality(Holders(j))
                      - (IF Busy(r) /\ JobOf(r) = j THEN 1 ELSE 0)
<1>1. \A s \in Runners : Busy(s)' <=> Busy(s) /\ s # r
  BY DEF Finish, Goto, Busy, TypeOK, RunnerOK
<1>2. \A s \in Runners : s # r => JobOf(s)' = JobOf(s)
  BY DEF Finish, JobOf, TypeOK, RunnerOK
<1>3. Holders(j)' = Holders(j) \ {r}
  BY <1>1, <1>2 DEF Holders, Busy
<1>4. r \in Holders(j) <=> Busy(r) /\ JobOf(r) = j
  BY DEF Holders, Busy
<1>5. QED BY <1>3, <1>4, CopiesNumber, FS_RemoveElement

LEMMA HoldersByTake ==
    ASSUME TypeOK, CopiesBounded, NEW r \in Runners, NEW p \in Payload, Take(r, p),
           NEW j \in Jobs
    PROVE  /\ IsFiniteSet(Holders(j)')
           /\ Cardinality(Holders(j)') <=
                  Cardinality(Holders(j)) + (IF p.job = j THEN 1 ELSE 0)
<1>1. \A s \in Runners : /\ s # r => Busy(s)' = Busy(s) /\ JobOf(s)' = JobOf(s)
                         /\ s = r => Busy(s)' /\ JobOf(s)' = p.job
  BY DEF Take, Goto, Busy, JobOf, TypeOK, RunnerOK
<1>2. CASE p.job = j
  <2>1. Holders(j)' = Holders(j) \cup {r}
    BY <1>1, <1>2 DEF Holders, Busy
  <2>2. /\ IsFiniteSet(Holders(j)) /\ Cardinality(Holders(j)) \in Nat
        /\ IsFiniteSet(Holders(j) \cup {r})
        /\ Cardinality(Holders(j) \cup {r}) =
               IF r \in Holders(j) THEN Cardinality(Holders(j))
                                   ELSE Cardinality(Holders(j)) + 1
    BY CopiesNumber, FS_AddElement
  <2>3. QED BY <1>2, <2>1, <2>2
<1>3. CASE p.job # j
  <2>1. Holders(j)' = Holders(j) \ {r}
    BY <1>1, <1>3 DEF Holders, Busy
  <2>2. /\ IsFiniteSet(Holders(j)) /\ Cardinality(Holders(j)) \in Nat
        /\ IsFiniteSet(Holders(j) \ {r})
        /\ Cardinality(Holders(j) \ {r}) =
               IF r \in Holders(j) THEN Cardinality(Holders(j)) - 1
                                   ELSE Cardinality(Holders(j))
    BY CopiesNumber, FS_RemoveElement
  <2>3. QED BY <1>3, <2>1, <2>2
<1>4. QED BY <1>2, <1>3

LEMMA PositionsByPush ==
    ASSUME TypeOK, NEW p \in Payload, NEW reply \in RpushReplies, Rpush(p, reply),
           NEW j \in Jobs
    PROVE  /\ p.job = j =>
                  /\ Cardinality(PositionsIn(queue', j)) \in Nat
                  /\ Cardinality(PositionsIn(queue', j)) - faults'
                       <= Cardinality(PositionsIn(queue, j)) + 1 - faults
           /\ p.job # j => PositionsIn(queue', j) = PositionsIn(queue, j)
<1>1. queue \in Seq(Payload) /\ Append(queue, p) \in Seq(Payload)
  BY AppendJobs DEF TypeOK
<1>2. faults \in Nat /\ Cardinality(PositionsIn(queue, j)) \in Nat
  BY <1>1, PositionsFinite, JobsAssumption DEF JobsAssumption, TypeOK
<1>3. CASE queue' = queue /\ faults' \in {faults, faults + 1}
  BY <1>2, <1>3
<1>4. CASE queue' = Append(queue, p) /\ faults' \in {faults, faults + 1}
  <2>1. /\ p.job = j => Cardinality(PositionsIn(queue', j))
                          = Cardinality(PositionsIn(queue, j)) + 1
        /\ p.job # j => PositionsIn(queue', j) = PositionsIn(queue, j)
    BY <1>1, <1>4, PositionsByAppend
  <2>2. QED BY <1>2, <1>4, <2>1
<1>5. QED
  BY <1>3, <1>4 DEF Rpush, RpushReplies, Happens, Inject

(* A try that is repeated adds a copy and is a fault.                         *)
LEMMA PositionsByPushAgain ==
    ASSUME TypeOK, NEW p \in Payload, RpushAgain(p), NEW j \in Jobs
    PROVE  /\ Cardinality(PositionsIn(queue', j)) \in Nat
           /\ Cardinality(PositionsIn(queue', j)) - faults'
                <= Cardinality(PositionsIn(queue, j)) - faults
<1>1. queue \in Seq(Payload)
  BY DEF TypeOK
<1>2. faults \in Nat /\ Cardinality(PositionsIn(queue, j)) \in Nat
  BY <1>1, PositionsFinite, JobsAssumption DEF JobsAssumption, TypeOK
<1>3. queue' = Append(queue, p) /\ faults' = faults + 1
  BY DEF RpushAgain, Inject
<1>4. /\ p.job = j => Cardinality(PositionsIn(queue', j))
                        = Cardinality(PositionsIn(queue, j)) + 1
      /\ p.job # j => PositionsIn(queue', j) = PositionsIn(queue, j)
  BY <1>1, <1>3, PositionsByAppend
<1>5. QED BY <1>2, <1>3, <1>4

LEMMA FaultsCount ==
    ASSUME TypeOK, [Next]_vars
    PROVE  faults' \in {faults, faults + 1}
<1>1. ASSUME NEW r \in Runners, ProcessJob(r) PROVE faults' \in {faults, faults + 1}
  BY <1>1
  DEF ProcessJob, SeeMarker, DropCancelled, NotCancelled, DeferWhileOpen, Start, Call,
      CallRejected, TaskReturns, TaskRaises, Complete, CompleteRaises, Retry,
      StoreDeadLetter, Bury, Requeue, RequeueAgain, RetryInline, DeferInline, Rpush,
      RpushAgain, Happens, Inject
<1>2. QED
  BY <1>1
  DEF Next, CreateJob, Dispatch, DispatchToRedis, DispatchInline, DispatchFails,
      DispatchAgain, CancelJob, MarkCancelled, MarkerExpires, ThreadDies, Pop, WorkerDies,
      ApiDies, RecoveryTimeout, Rpush, RpushAgain, Happens, Inject, vars

(* Enough: what a step adds to a job is paid by the faults it spends.         *)
Paid(j) ==
    /\ IsFiniteSet(Holders(j)')
    /\ Holding(j)' \in Nat /\ Listed(j)' \in Nat
    /\ Listed(j)' + Holding(j)' + Waiting(j)' - faults'
         <= Listed(j) + Holding(j) + Waiting(j) - faults

LEMMA CopiesPaid ==
    ASSUME TypeOK, CopiesBounded, NEW j \in Jobs, Paid(j),
           faults' \in {faults, faults + 1}
    PROVE  IsFiniteSet(Holders(j)') /\ Copies(j)' <= faults' + 1
<1>1. /\ Listed(j) \in Nat /\ Holding(j) \in Nat /\ faults \in Nat
      /\ Listed(j) + Holding(j) + Waiting(j) <= faults + 1
  BY CopiesNumber DEF CopiesBounded, Copies, Listed, Holding
<1>2. Waiting(j) \in Nat /\ Waiting(j)' \in Nat
  BY DEF Waiting
<1>3. Copies(j)' = Listed(j)' + Holding(j)' + Waiting(j)'
  BY DEF Copies, Listed, Holding
<1>4. QED BY <1>1, <1>2, <1>3 DEF Paid

LEMMA CopiesInductive ==
    ASSUME TypeOK, ThreadOwnsJob, CopiesBounded, [Next]_vars
    PROVE  CopiesBounded'
<1> USE JobsAssumption DEF JobsAssumption
<1> SUFFICES ASSUME NEW j \in Jobs PROVE Paid(j)
  BY FaultsCount, CopiesPaid DEF CopiesBounded
<1>0. /\ Listed(j) \in Nat /\ Holding(j) \in Nat /\ faults \in Nat
      /\ IsFiniteSet(Holders(j))
  BY CopiesNumber DEF Listed, Holding
<1>1. Waiting(j) \in {0, 1} /\ Waiting(j)' \in {0, 1}
  BY DEF Waiting
<1>2. faults' \in {faults, faults + 1}
  BY FaultsCount
<1>3. ASSUME UNCHANGED queue PROVE Listed(j)' = Listed(j)
  BY <1>3 DEF Listed
<1>4. ASSUME request'[j] # "served" => request[j] # "served"
      PROVE  Waiting(j)' <= Waiting(j)
  BY <1>4 DEF Waiting
<1>5. ASSUME UNCHANGED queue, Holders(j)' = Holders(j),
             request'[j] # "served" => request[j] # "served"
      PROVE  Paid(j)
  <2>1. Holding(j)' = Holding(j)
    BY <1>5 DEF Holding
  <2>2. QED BY <1>0, <1>1, <1>2, <1>3, <1>4, <1>5, <2>1 DEF Paid
<1>6. ASSUME NEW r \in Runners, Finish(r), UNCHANGED <<queue, request>>
      PROVE  Paid(j)
  <2>1. /\ IsFiniteSet(Holders(j)') /\ Holding(j)' \in Nat
        /\ Holding(j)' <= Holding(j)
    <3>1. /\ IsFiniteSet(Holders(j)')
          /\ Holding(j)' = Holding(j) - (IF Busy(r) /\ JobOf(r) = j THEN 1 ELSE 0)
      BY <1>6, HoldersByFinish DEF Holding
    <3>2. Holding(j)' \in Nat
      BY <3>1, FS_CardinalityType DEF Holding
    <3>3. QED BY <1>0, <3>1, <3>2
  <2>2. QED BY <1>0, <1>1, <1>2, <1>3, <1>4, <1>6, <2>1 DEF Paid
<1>7. ASSUME NEW i \in Jobs, DispatchToRedis(i) PROVE Paid(j)
  <2>1. PICK reply \in RpushReplies : Rpush([job |-> i, attempts |-> 0], reply)
    BY <1>7 DEF DispatchToRedis
  <2>2. [job |-> i, attempts |-> 0] \in Payload
    BY DEF Payload
  <2>3. Holders(j)' = Holders(j)
    BY <1>7 DEF DispatchToRedis, Holders, Busy, JobOf, runner
  <2>4. CASE i = j
    <3>1. /\ Listed(j)' \in Nat
          /\ Listed(j)' - faults' <= Listed(j) + 1 - faults
      BY <2>1, <2>2, <2>4, PositionsByPush DEF Listed
    <3>2. Waiting(j) = 1 /\ Waiting(j)' = 0
      BY <1>7, <2>4 DEF DispatchToRedis, Dispatching, Waiting, TypeOK
    <3>3. Holding(j)' = Holding(j)
      BY <2>3 DEF Holding
    <3>4. QED BY <1>0, <1>2, <2>3, <3>1, <3>2, <3>3 DEF Paid
  <2>5. CASE i # j
    <3>1. Listed(j)' = Listed(j)
      BY <2>1, <2>2, <2>5, PositionsByPush DEF Listed
    <3>2. Waiting(j)' = Waiting(j)
      BY <1>7, <2>5 DEF DispatchToRedis, Waiting, TypeOK
    <3>3. Holding(j)' = Holding(j)
      BY <2>3 DEF Holding
    <3>4. QED BY <1>0, <1>1, <1>2, <2>3, <3>1, <3>2, <3>3 DEF Paid
  <2>6. QED BY <2>4, <2>5
<1>8. ASSUME NEW i \in Jobs, DispatchInline(i) PROVE Paid(j)
  <2>1. [job |-> i, attempts |-> 0] \in Payload /\ i \in Runners
    BY DEF Payload, Runners
  <2>2. /\ IsFiniteSet(Holders(j)')
        /\ Holding(j)' <= Holding(j) + (IF i = j THEN 1 ELSE 0)
    BY <1>8, <2>1, HoldersByTake DEF DispatchInline, Holding
  <2>3. Holding(j)' \in Nat
    BY <2>2, FS_CardinalityType DEF Holding
  <2>4. Listed(j)' = Listed(j)
    BY <1>8, <1>3 DEF DispatchInline, redis
  <2>5. Waiting(j)' = Waiting(j) - (IF i = j THEN 1 ELSE 0)
    BY <1>8 DEF DispatchInline, Waiting, TypeOK
  <2>6. QED BY <1>0, <1>1, <1>2, <2>2, <2>3, <2>4, <2>5 DEF Paid
<1>9. ASSUME NEW w \in Workers, Pop(w) PROVE Paid(j)
  <2>1. Waiting(j)' = Waiting(j)
    BY <1>9 DEF Pop, Waiting, api
  <2>2. queue \in Seq(Payload) /\ queue # <<>> /\ queue' = Tail(queue)
    BY <1>9 DEF Pop, TypeOK
  <2>3. Head(queue) \in Payload /\ queue' \in Seq(Payload)
    BY <2>2
  <2>4. Listed(j)' <= Listed(j) - (IF Head(queue).job = j THEN 1 ELSE 0)
    BY <2>2, PositionsByTail DEF Listed
  <2>5. Listed(j)' \in Nat
    BY <2>3, PositionsFinite DEF Listed
  <2>6. CASE Take(w, Head(queue))
    <3>1. /\ IsFiniteSet(Holders(j)')
          /\ Holding(j)' <= Holding(j) + (IF Head(queue).job = j THEN 1 ELSE 0)
      BY <2>3, <2>6, HoldersByTake DEF Holding, Runners
    <3>2. Holding(j)' \in Nat
      BY <3>1, FS_CardinalityType DEF Holding
    <3>3. QED BY <1>0, <1>1, <1>2, <2>1, <2>4, <2>5, <3>1, <3>2 DEF Paid
  <2>7. CASE UNCHANGED runner
    <3>1. Holders(j)' = Holders(j)
      BY <2>7 DEF Holders, Busy, JobOf, runner
    <3>2. Holding(j)' = Holding(j)
      BY <3>1 DEF Holding
    <3>3. QED BY <1>0, <1>1, <1>2, <2>1, <2>4, <2>5, <3>1, <3>2 DEF Paid
  <2>8. QED BY <1>9, <2>6, <2>7 DEF Pop
<1>10. ASSUME NEW r \in Runners, ProcessJob(r) PROVE Paid(j)
  <2>1. CASE KeepsDelivery(r)
    <3>1. Holders(j)' = Holders(j)
      BY <2>1 DEF KeepsDelivery, Holders, Busy
    <3>2. QED BY <1>5, <2>1, <3>1 DEF KeepsDelivery
  <2>2. CASE EndsDelivery(r)
    BY <1>6, <2>2 DEF EndsDelivery
  <2>3. CASE Requeue(r)
    <3>1. PICK reply \in RpushReplies : Rpush(load[r], reply)
      BY <2>3 DEF Requeue
    <3>2. Busy(r) /\ load[r] \in Payload
      BY <1>10, StepKinds, PayloadTypes DEF Busy
    <3>3. /\ IsFiniteSet(Holders(j)')
          /\ Holding(j)' = Holding(j) - (IF JobOf(r) = j THEN 1 ELSE 0)
      BY <2>3, <3>2, HoldersByFinish DEF Holding, Requeue
    <3>4. Holding(j)' \in Nat
      BY <3>3, FS_CardinalityType DEF Holding
    <3>5. Waiting(j)' = Waiting(j)
      BY <2>3 DEF Requeue, Waiting, api
    <3>6. CASE JobOf(r) = j
      <4>1. Listed(j)' \in Nat /\ Listed(j)' - faults' <= Listed(j) + 1 - faults
        BY <3>1, <3>2, <3>6, PositionsByPush DEF Listed, JobOf
      <4>2. QED BY <1>0, <1>1, <1>2, <3>3, <3>4, <3>5, <3>6, <4>1 DEF Paid
    <3>7. CASE JobOf(r) # j
      <4>1. Listed(j)' = Listed(j)
        BY <3>1, <3>2, <3>7, PositionsByPush DEF Listed, JobOf
      <4>2. QED BY <1>0, <1>1, <1>2, <3>3, <3>4, <3>5, <3>7, <4>1 DEF Paid
    <3>8. QED BY <3>6, <3>7
  <2>4. CASE RequeueAgain(r)
    <3>1. load[r] \in Payload /\ Holders(j)' = Holders(j) /\ request' = request
      BY <2>4, PushingAgain DEF RequeueAgain, Holders, Busy, api
    <3>2. Holding(j)' = Holding(j) /\ Waiting(j)' = Waiting(j)
      BY <3>1 DEF Holding, Waiting
    <3>3. Listed(j)' \in Nat /\ Listed(j)' - faults' <= Listed(j) - faults
      BY <2>4, <3>1, PositionsByPushAgain DEF RequeueAgain, Listed
    <3>4. QED BY <1>0, <1>1, <1>2, <3>1, <3>2, <3>3 DEF Paid
  <2>5. QED BY <1>10, <2>1, <2>2, <2>3, <2>4, StepKinds
<1>11. ASSUME ApiDies PROVE Paid(j)
  <2>1. Holders(j)' \subseteq Holders(j)
    BY <1>11
    DEF ApiDies, Holders, Busy, JobOf
  <2>2. /\ IsFiniteSet(Holders(j)') /\ Holding(j)' \in Nat
        /\ Holding(j)' <= Holding(j)
    BY <1>0, <2>1, FS_Subset, FS_CardinalityType DEF Holding
  <2>3. UNCHANGED <<queue, request>>
    BY <1>11 DEF ApiDies, redis, api
  <2>4. QED BY <1>0, <1>1, <1>2, <1>3, <1>4, <2>2, <2>3 DEF Paid
<1>12. ASSUME UNCHANGED <<queue, runner>>,
              request'[j] # "served" => request[j] # "served"
       PROVE  Paid(j)
  BY <1>5, <1>12 DEF Holders, Busy, JobOf, runner
<1>13. ASSUME NEW i \in Jobs, CreateJob(i) \/ DispatchFails(i) \/ CancelJob(i)
                \/ MarkCancelled(i) \/ MarkerExpires(i)
       PROVE  Paid(j)
  BY <1>12, <1>13
  DEF CreateJob, DispatchFails, CancelJob, MarkCancelled, MarkerExpires, redis, api,
      TypeOK
<1>14. ASSUME NEW i \in Jobs, ThreadDies(i) PROVE Paid(j)
  BY <1>6, <1>14 DEF ThreadDies, Runners, redis, api
<1>15. ASSUME NEW w \in Workers, WorkerDies(w) PROVE Paid(j)
  BY <1>6, <1>15 DEF WorkerDies, Runners, redis, api
<1>16. ASSUME NEW p \in Processes, RecoveryTimeout(p) PROVE Paid(j)
  BY <1>12, <1>16 DEF RecoveryTimeout, redis, api
<1>17. CASE UNCHANGED vars
  BY <1>12, <1>17 DEF vars, runner
<1>18. ASSUME NEW i \in Jobs, DispatchAgain(i) PROVE Paid(j)
  <2>1. [job |-> i, attempts |-> 0] \in Payload
    BY DEF Payload
  <2>2. Holders(j)' = Holders(j)
    BY <1>18 DEF DispatchAgain, Holders, Busy, JobOf, runner
  <2>3. Holding(j)' = Holding(j) /\ Waiting(j)' = Waiting(j)
    BY <1>18, <2>2 DEF DispatchAgain, Dispatching, NextTry, Holding, Waiting, TypeOK
  <2>4. Listed(j)' \in Nat /\ Listed(j)' - faults' <= Listed(j) - faults
    BY <1>18, <2>1, PositionsByPushAgain DEF DispatchAgain, Listed
  <2>5. QED BY <1>0, <1>1, <1>2, <2>2, <2>3, <2>4 DEF Paid
<1>19. QED
  BY <1>7, <1>8, <1>9, <1>10, <1>11, <1>13, <1>14, <1>15, <1>16, <1>17, <1>18
  DEF Next, Dispatch

(* Whatever replies of rpush are lost and repeated, the deliveries of a job   *)
(* (in the list, held by a runner, or due to its POST) are at most one more   *)
(* than the faults that happened: each lost reply that makes _execute repeat  *)
(* its rpush adds one, up to two for one enqueue, and no crash, retry or      *)
(* deferral ever multiplies them.                                             *)
THEOREM DeliveriesBoundedHolds == Spec => []DeliveriesBounded
<1>1. Init => CopiesBounded
  <2> SUFFICES ASSUME Init, NEW j \in Jobs
               PROVE  IsFiniteSet(Holders(j)) /\ Copies(j) <= faults + 1
    BY DEF CopiesBounded
  <2>1. Holders(j) = {} /\ PositionsIn(queue, j) = {}
    BY DEF Init, Holders, PositionsIn
  <2>2. IsFiniteSet(Holders(j)) /\ Holding(j) = 0 /\ Listed(j) = 0
    BY <2>1, FS_EmptySet DEF Holding, Listed
  <2>3. Waiting(j) = 1 /\ faults = 0
    BY DEF Init, Waiting
  <2>4. QED BY <2>2, <2>3 DEF Copies, Listed, Holding
<1>2. TypeOK /\ ThreadOwnsJob /\ CopiesBounded /\ [Next]_vars => CopiesBounded'
  BY CopiesInductive
<1>3. TypeOK /\ ThreadOwnsJob /\ [Next]_vars => ThreadOwnsJob'
  BY ThreadOwnsJobInductive
<1>4. Init => ThreadOwnsJob
  BY DEF Init, ThreadOwnsJob, Busy, Runners
<1>5. CopiesBounded => DeliveriesBounded
  BY DEF CopiesBounded, DeliveriesBounded
<1>6. QED BY <1>1, <1>2, <1>3, <1>4, <1>5, TypeCorrect, PTL DEF Spec

-----------------------------------------------------------------------------
(* The pipeline implements the lifecycle.  What a step does to the open jobs  *)
(* follows from what it does to their deliveries.                             *)
Out(j) == Queued(j) \/ HeldBySome(j)

LEMMA OpenIsOut ==
    \A j \in Jobs : j \in Open <=> request[j] \in Dispatching \/ Out(j)
BY DEF Open, Delivered, Out, Queued, HeldBySome, Busy

(* Runners that let go of their jobs close them.                              *)
LEMMA ReleasedAreClosed ==
    ASSUME TypeOK, SingleDelivery, UNCHANGED <<queue, request>>,
           NEW S \in SUBSET Runners,
           \A r \in S : ~Busy(r)',
           \A r \in Runners \ S : Busy(r)' = Busy(r) /\ JobOf(r)' = JobOf(r)
    PROVE  /\ UNION {Held(r) : r \in S} \subseteq Open
           /\ Open' = Open \ UNION {Held(r) : r \in S}
<1> DEFINE Let == UNION {Held(r) : r \in S}
<1>1. \A j : j \in Let <=> \E r \in S : Busy(r) /\ JobOf(r) = j
  BY DEF Held, Busy
<1>2. \A j \in Let : j \in Jobs /\ HeldBySome(j)
  BY <1>1, PayloadTypes DEF HeldBySome, Busy
<1>3. Let \subseteq Open
  BY <1>2, OpenIsOut DEF Out, Open
<1>4. ASSUME NEW j \in Jobs
      PROVE  /\ Queued(j)' = Queued(j)
             /\ (request[j] \in Dispatching)' = (request[j] \in Dispatching)
             /\ HeldBySome(j)' => HeldBySome(j) /\ j \notin Let
             /\ HeldBySome(j) /\ j \notin Let => HeldBySome(j)'
             /\ j \in Let => request[j] \notin Dispatching /\ ~Queued(j)
  <2>1. HeldBySome(j)' => HeldBySome(j)
    BY DEF HeldBySome, Busy, JobOf
  <2>2. ASSUME HeldBySome(j)', j \in Let PROVE FALSE
    <3>1. PICK r \in S : Busy(r) /\ JobOf(r) = j
      BY <1>1, <2>2
    <3>2. PICK s \in Runners : (Busy(s) /\ JobOf(s) = j)'
      BY <2>2 DEF HeldBySome
    <3>3. s \notin S /\ Busy(s) /\ JobOf(s) = j
      BY <3>2 DEF Busy, JobOf
    <3>4. QED BY <3>1, <3>3 DEF SingleDelivery, Busy
  <2>3. ASSUME HeldBySome(j), j \notin Let PROVE HeldBySome(j)'
    <3>1. PICK r \in Runners : Busy(r) /\ JobOf(r) = j
      BY <2>3 DEF HeldBySome
    <3>2. r \notin S
      BY <1>1, <2>3, <3>1
    <3>3. QED BY <3>1, <3>2 DEF HeldBySome, Busy, JobOf
  <2>4. j \in Let => request[j] \notin Dispatching /\ ~Queued(j)
    BY <1>1 DEF Dispatching, SingleDelivery, Queued, Busy
  <2>5. Queued(j)' = Queued(j)
    BY DEF Queued
  <2>6. QED BY <2>1, <2>2, <2>3, <2>4, <2>5
<1>5. \A j \in Jobs : (j \in Open)' <=> (request[j] \in Dispatching \/ Out(j))'
  BY DEF Open, Delivered, Out, Queued, HeldBySome, Busy
<1>6. \A j \in Jobs : j \in Open' <=> j \in Open /\ j \notin Let
  BY <1>4, <1>5, OpenIsOut DEF Out
<1>7. Open' \subseteq Jobs /\ Open \subseteq Jobs
  BY DEF Open
<1> HIDE DEF Let
<1>8. Open' = Open \ Let
  BY <1>6, <1>7
<1>9. QED BY <1>3, <1>8 DEF Let

(* When the deliveries of only one job change ...                             *)
LEMMA OthersStay ==
    ASSUME NEW k \in Jobs,
           \A j \in Jobs \ {k} :
               /\ request'[j] = request[j]
               /\ Queued(j)' = Queued(j)
               /\ HeldBySome(j)' = HeldBySome(j)
    PROVE  /\ (k \in Open)' => Open' = Open \cup {k}
           /\ (k \notin Open)' => Open' = Open \ {k}
BY DEF Open, Delivered, Queued, HeldBySome, Busy

(* ... as when a payload is put into the list or taken out of it.             *)
LEMMA QueuedByAppend ==
    ASSUME TypeOK, NEW p \in Payload, queue' = Append(queue, p)
    PROVE  \A j \in Jobs : Queued(j)' <=> Queued(j) \/ j = p.job
<1>1. /\ \A n \in DOMAIN queue : n \in DOMAIN queue' /\ queue'[n] = queue[n]
      /\ Len(queue) + 1 \in DOMAIN queue' /\ queue'[Len(queue) + 1] = p
      /\ \A n \in DOMAIN queue' : n \in DOMAIN queue \/ n = Len(queue) + 1
  BY AppendJobs DEF TypeOK
<1>2. QED BY <1>1 DEF Queued

LEMMA QueuedByTail ==
    ASSUME TypeOK, SingleDelivery, queue # <<>>, queue' = Tail(queue)
    PROVE  /\ Head(queue) \in Payload /\ Queued(Head(queue).job)
           /\ \A j \in Jobs : Queued(j)' <=> Queued(j) /\ j # Head(queue).job
<1>1. /\ \A n \in DOMAIN queue' :
              n + 1 \in DOMAIN queue /\ n + 1 # 1 /\ queue'[n] = queue[n + 1]
      /\ \A n \in DOMAIN queue :
              n = 1 \/ (n - 1 \in DOMAIN queue' /\ queue'[n - 1] = queue[n])
      /\ 1 \in DOMAIN queue /\ Head(queue) = queue[1]
  BY TailJobs DEF TypeOK
<1>2. queue[1] \in Payload
  BY <1>1 DEF TypeOK
<1>3. ASSUME NEW j \in Jobs, Queued(j)' PROVE Queued(j) /\ j # Head(queue).job
  BY <1>1, <1>3 DEF Queued, SingleDelivery
<1>4. ASSUME NEW j \in Jobs, Queued(j), j # Head(queue).job PROVE Queued(j)'
  <2>1. PICK n \in DOMAIN queue : queue[n].job = j
    BY <1>4 DEF Queued
  <2>2. n # 1
    BY <1>1, <1>4, <2>1
  <2>3. QED BY <1>1, <2>1, <2>2 DEF Queued
<1>5. QED BY <1>1, <1>2, <1>3, <1>4 DEF Queued

-----------------------------------------------------------------------------
(* A job has a document from its POST on, and not before.                     *)
DocumentsOfRequests ==
    \A j \in Jobs : request[j] = "none" <=> status[j] = "NONE"

LEMMA DocumentsInductive ==
    ASSUME TypeOK, SingleDelivery, DocumentsOfRequests, [Next]_vars
    PROVE  DocumentsOfRequests'
<1>1. CASE \E j \in Jobs : \/ CreateJob(j) \/ CancelJob(j) \/ DispatchFails(j)
                           \/ DispatchAgain(j) \/ Dispatch(j)
  BY <1>1 DEF CreateJob, CancelJob, DispatchFails, DispatchAgain, Dispatching, NextTry,
              Dispatch, DispatchToRedis, DispatchInline, SetStatus, documents,
              DocumentsOfRequests, TypeOK
<1>2. ASSUME NEW r \in Runners, ProcessJob(r) PROVE DocumentsOfRequests'
  <2>1. UNCHANGED request
    BY <1>2, StepKinds DEF KeepsDelivery, EndsDelivery, Requeue, RequeueAgain, api
  <2>2. request[JobOf(r)] # "none" /\ JobOf(r) \in Jobs
    BY <1>2, StepKinds, PayloadTypes DEF Busy, SingleDelivery
  <2>3. status' = status \/ \E s \in Status \ {"NONE"} : SetStatus(JobOf(r), s)
    BY <1>2
    DEF ProcessJob, SeeMarker, DropCancelled, NotCancelled, DeferWhileOpen, Start, Call,
        CallRejected, TaskReturns, TaskRaises, Complete, CompleteRaises, Retry,
        StoreDeadLetter, Bury, Requeue, RequeueAgain, RetryInline, DeferInline, documents,
        Status, Pending, Final
  <2>4. QED BY <2>1, <2>2, <2>3 DEF SetStatus, DocumentsOfRequests, TypeOK
<1>3. CASE UNCHANGED <<request, status>>
  BY <1>3 DEF DocumentsOfRequests
<1>4. QED
  BY <1>1, <1>2, <1>3
  DEF Next, MarkCancelled, MarkerExpires, ThreadDies, Pop, WorkerDies, ApiDies,
      RecoveryTimeout, documents, api, vars

-----------------------------------------------------------------------------
(* Steps the lifecycle does not see, and those that let jobs go with a fault. *)
Hidden == UNCHANGED <<HasRedis, Open, lost, Polled>>

LEMMA LostByFault ==
    ASSUME NEW J \in SUBSET Jobs, J \subseteq Open, lost' = lost \cup J,
           Open' = Open \/ Open' = Open \ J, UNCHANGED <<deployment, status>>
    PROVE  Lifecycle!Next
BY DEF Lifecycle!Next, Lifecycle!Lose, HasRedis, Polled, Poll

(* A payload that is pushed keeps its job open, unless the push is refused.   *)
LEMMA PushedStaysOpen ==
    ASSUME TypeOK,
           NEW p \in Payload, NEW reply \in RpushReplies, Rpush(p, reply),
           p.job \in Open, UNCHANGED <<deployment, status>>,
           \A j \in Jobs \ {p.job} : /\ request'[j] = request[j]
                                     /\ HeldBySome(j)' = HeldBySome(j)
    PROVE  Lifecycle!Next \/ Hidden
<1>0. p.job \in Jobs
  BY DEF Payload
<1>1. CASE queue' = Append(queue, p) /\ lost' = lost
  <2>1. \A j \in Jobs : Queued(j)' <=> Queued(j) \/ j = p.job
    BY <1>1, QueuedByAppend
  <2>2. \A j \in Jobs \ {p.job} : Queued(j)' = Queued(j)
    BY <2>1, Zenon DEF Queued
  <2>3. (p.job \in Open)'
    BY <1>0, <2>1 DEF Open, Delivered, Queued
  <2>4. Open' = Open
    BY <1>0, <2>2, <2>3, OthersStay
  <2>5. QED BY <1>1, <2>4 DEF Hidden, HasRedis, Polled, Poll
<1>2. CASE queue' = queue /\ lost' = lost \cup {p.job}
  <2>1. \A j \in Jobs : Queued(j)' = Queued(j)
    BY <1>2 DEF Queued
  <2>2. Open' = Open \/ Open' = Open \ {p.job}
    BY <1>0, <2>1, OthersStay
  <2>3. QED BY <1>0, <1>2, <2>2, LostByFault
<1>3. QED BY <1>1, <1>2 DEF Rpush

LEMMA RequestLifecycle ==
    ASSUME TypeOK, SingleDelivery, DocumentsOfRequests, ThreadOwnsJob,
           NEW j \in Jobs,
           \/ CreateJob(j) \/ Dispatch(j) \/ DispatchFails(j)
           \/ CancelJob(j) \/ MarkCancelled(j) \/ MarkerExpires(j)
    PROVE  Lifecycle!Next \/ Hidden
<1> USE JobsAssumption DEF JobsAssumption
<1> DEFINE p == [job |-> j, attempts |-> 0]
<1>p. p \in Payload /\ p.job = j
  BY DEF Payload
<1> HIDE DEF p
<1>1. CASE CreateJob(j)
  <2>1. \A k \in Jobs \ {j} : /\ request'[k] = request[k]
                              /\ Queued(k)' = Queued(k)
                              /\ HeldBySome(k)' = HeldBySome(k)
    BY <1>1 DEF CreateJob, TypeOK, Queued, HeldBySome, Busy, JobOf, redis, runner
  <2>2. (j \in Open)'
    BY <1>1 DEF CreateJob, Dispatching, TypeOK, Open, Delivered
  <2>3. Open' = Open \cup {j}
    BY <2>1, <2>2, OthersStay
  <2>4. Polled[j] = "unknown" /\ Polled' = [Polled EXCEPT ![j] = "pending"]
    BY <1>1 DEF CreateJob, SetStatus, DocumentsOfRequests, Polled, Poll, Final, TypeOK
  <2>5. QED
    BY <1>1, <2>3, <2>4
    DEF CreateJob, Lifecycle!Next, Lifecycle!Submit, Lifecycle!Tell, HasRedis
<1>2. CASE DispatchToRedis(j)
  <2>1. PICK reply \in RpushReplies : Rpush(p, reply)
    BY <1>2 DEF DispatchToRedis, p
  <2>2. p.job \in Open /\ UNCHANGED <<deployment, status>>
    BY <1>2, <1>p DEF DispatchToRedis, Open, Delivered, documents
  <2>3. \A k \in Jobs \ {p.job} : /\ request'[k] = request[k]
                                  /\ HeldBySome(k)' = HeldBySome(k)
    BY <1>2, <1>p DEF DispatchToRedis, TypeOK, HeldBySome, Busy, JobOf, runner
  <2>4. QED BY <1>p, <2>1, <2>2, <2>3, PushedStaysOpen
<1>3. CASE DispatchInline(j)
  <2>1. j \in Runners /\ ~Busy(j) /\ j \in Open
    BY <1>3 DEF DispatchInline, Dispatching, Runners, ThreadOwnsJob, SingleDelivery,
                Busy, Open, Delivered
  <2>2. \A r \in Runners \ {j} : Busy(r)' = Busy(r) /\ JobOf(r)' = JobOf(r)
    BY <1>3 DEF DispatchInline, Take, Goto, Busy, JobOf, TypeOK, RunnerOK
  <2>3. Busy(j)' /\ JobOf(j)' = j
    BY <1>3, <2>1 DEF DispatchInline, Take, Goto, Busy, JobOf, TypeOK, RunnerOK
  <2>4. \A k \in Jobs \ {j} : /\ request'[k] = request[k]
                              /\ Queued(k)' = Queued(k)
                              /\ HeldBySome(k)' = HeldBySome(k)
    BY <1>3, <2>1, <2>2, <2>3 DEF DispatchInline, TypeOK, Queued, HeldBySome, redis
  <2>5. (j \in Open)'
    BY <2>1, <2>3 DEF Open, Delivered, Busy
  <2>6. Open' = Open
    BY <2>1, <2>4, <2>5, OthersStay
  <2>7. QED
    BY <1>3, <2>6 DEF DispatchInline, Hidden, HasRedis, Polled, Poll, documents
<1>4. CASE DispatchFails(j)
  <2>1. \A k \in Jobs \ {j} : /\ request'[k] = request[k]
                              /\ Queued(k)' = Queued(k)
                              /\ HeldBySome(k)' = HeldBySome(k)
    BY <1>4 DEF DispatchFails, TypeOK, Queued, HeldBySome, Busy, JobOf, redis, runner
  <2>2. j \in Open /\ Open' \in {Open, Open \ {j}}
    BY <1>4, <2>1, OthersStay DEF DispatchFails, Open, Delivered
  <2>3. QED
    BY <1>4, <2>2, LostByFault DEF DispatchFails, documents
<1>5. CASE CancelJob(j)
  <2>1. Open' = Open
    BY <1>5 DEF CancelJob, Open, Delivered, JobOf, redis, runner
  <2>2. Polled[j] # "unknown" /\ Polled' = [Polled EXCEPT ![j] = "CANCELLED"]
    BY <1>5 DEF CancelJob, SetStatus, Polled, Poll, Final, TypeOK
  <2>3. QED
    BY <1>5, <2>1, <2>2
    DEF CancelJob, Lifecycle!Next, Lifecycle!Cancel, Lifecycle!Tell, HasRedis
<1>6. CASE MarkCancelled(j) \/ MarkerExpires(j)
  BY <1>6 DEF MarkCancelled, MarkerExpires, Hidden, HasRedis, Open, Delivered, JobOf,
              Polled, Poll, documents, api, runner
<1>7. QED BY <1>1, <1>2, <1>3, <1>4, <1>5, <1>6 DEF Dispatch

(* The steps of a runner.                                                     *)
LEMMA RunnerLifecycle ==
    ASSUME "duplicated" \notin Faults, "late_write" \notin Faults,
           TypeOK, SingleDelivery, NEW r \in Runners, ProcessJob(r)
    PROVE  Lifecycle!Next \/ Hidden
<1> DEFINE j == JobOf(r)
<1>1. Busy(r) /\ j \in Jobs /\ load[r] \in Payload
  BY StepKinds, PayloadTypes DEF Busy
<1>2. j \in Open
  BY <1>1 DEF Open, Delivered, Busy
<1>3. Held(r) = {j} /\ UNION {Held(s) : s \in {r}} = {j}
  BY <1>1 DEF Held, Busy
<1> HIDE DEF j
<1>4. ASSUME KeepsDelivery(r), lost' = lost,
             status' = status \/ \E s \in Pending : SetStatus(j, s)
      PROVE  Lifecycle!Next \/ Hidden
  <2>1. Open' = Open
    BY <1>4 DEF KeepsDelivery, Open, Delivered, Busy, JobOf
  <2>2. deployment' = deployment
    BY <1>4 DEF KeepsDelivery
  <2>3. CASE status' = status
    BY <1>4, <2>1, <2>2, <2>3 DEF Hidden, HasRedis, Polled, Poll
  <2>4. CASE \E s \in Pending : SetStatus(j, s)
    <3>1. Polled' = [Polled EXCEPT ![j] = "pending"]
      BY <1>1, <2>4 DEF SetStatus, Polled, Poll, Pending, Final, TypeOK
    <3>2. QED
      BY <1>1, <1>2, <1>4, <2>1, <2>2, <3>1
      DEF Lifecycle!Next, Lifecycle!Work, Lifecycle!Tell, HasRedis
  <2>5. QED BY <1>4, <2>3, <2>4
<1>5. ASSUME EndsDelivery(r)
      PROVE  Open' = Open \ {j} /\ deployment' = deployment
  <2>1. /\ ~Busy(r)'
        /\ \A s \in Runners \ {r} : Busy(s)' = Busy(s) /\ JobOf(s)' = JobOf(s)
    BY <1>5 DEF EndsDelivery, Finish, Goto, Busy, JobOf, TypeOK, RunnerOK
  <2>2. UNCHANGED <<queue, request>>
    BY <1>5 DEF EndsDelivery
  <2>3. QED
    BY <1>3, <1>5, <2>1, <2>2, ReleasedAreClosed DEF EndsDelivery
<1>6. ASSUME EndsDelivery(r), lost' = lost, NEW v \in Final, SetStatus(j, v)
      PROVE  Lifecycle!Next
  <2>1. Polled' = [Polled EXCEPT ![j] = v]
    BY <1>1, <1>6 DEF SetStatus, Polled, Poll, Final, TypeOK
  <2>2. QED
    BY <1>1, <1>2, <1>5, <1>6, <2>1
    DEF Lifecycle!Next, Lifecycle!Decide, Lifecycle!Tell, Lifecycle!Verdicts, Final,
        HasRedis
<1>7. CASE DropCancelled(r) \/ Complete(r) \/ Bury(r)
  BY <1>6, <1>7 DEF DropCancelled, Complete, Bury, EndsDelivery, Final, api, redis, j
<1>8. CASE DeferInline(r)
  <2>1. EndsDelivery(r) /\ ~HasRedis /\ UNCHANGED <<lost, status>>
    BY <1>8 DEF DeferInline, EndsDelivery, api, redis, documents
  <2>2. Open' = Open \ {j} /\ deployment' = deployment
    BY <1>5, <2>1
  <2>3. Polled' = Polled
    BY <2>1 DEF Polled, Poll
  <2>4. QED
    BY <1>1, <1>2, <2>1, <2>2, <2>3
    DEF Lifecycle!Next, Lifecycle!Forget, HasRedis
<1>9. CASE Requeue(r)
  <2>1. PICK reply \in RpushReplies : Rpush(load[r], reply)
    BY <1>9 DEF Requeue
  <2>2. \A s \in Runners \ {r} : Busy(s)' = Busy(s) /\ JobOf(s)' = JobOf(s)
    BY <1>9 DEF Requeue, Finish, Goto, Busy, JobOf, TypeOK, RunnerOK
  <2>3. ~Busy(r)'
    BY <1>9 DEF Requeue, Finish, Goto, Busy, TypeOK, RunnerOK
  <2>4. \A k \in Jobs \ {load[r].job} : /\ request'[k] = request[k]
                                        /\ HeldBySome(k)' = HeldBySome(k)
    BY <1>9, <2>2, <2>3 DEF Requeue, api, HeldBySome, JobOf
  <2>5. load[r].job \in Open /\ UNCHANGED <<deployment, status>>
    BY <1>2, <1>9 DEF Requeue, documents, j, JobOf
  <2>6. QED BY <1>1, <2>1, <2>4, <2>5, PushedStaysOpen
<1>10. CASE StoreDeadLetter(r)
  <2>1. KeepsDelivery(r)
    BY <1>10
    DEF StoreDeadLetter, KeepsDelivery, Busy, JobOf, Goto, api, redis, TypeOK, RunnerOK
  <2>2. UNCHANGED <<deployment, status>> /\ (lost' = lost \/ lost' = lost \cup {j})
    BY <1>10 DEF StoreDeadLetter, j
  <2>3. CASE lost' = lost
    BY <1>4, <2>1, <2>2, <2>3
  <2>4. CASE lost' = lost \cup {j}
    <3>1. Open' = Open
      BY <2>1 DEF KeepsDelivery, Open, Delivered, Busy, JobOf
    <3>2. {j} \in SUBSET Jobs /\ {j} \subseteq Open
      BY <1>1, <1>2
    <3>3. QED BY <2>2, <2>4, <3>1, <3>2, LostByFault
  <2>5. QED BY <2>2, <2>3, <2>4
<1>11. ~CompleteRaises(r) /\ ~RequeueAgain(r)
  BY DEF CompleteRaises, RequeueAgain, RpushAgain, Inject
<1>12. CASE \/ SeeMarker(r) \/ NotCancelled(r) \/ DeferWhileOpen(r) \/ Start(r)
            \/ Call(r) \/ CallRejected(r) \/ TaskReturns(r) \/ TaskRaises(r) \/ Retry(r)
            \/ RetryInline(r)
  <2>1. /\ lost' = lost
        /\ status' = status \/ \E s \in Pending : SetStatus(j, s)
    BY <1>12
    DEF SeeMarker, NotCancelled, DeferWhileOpen, Start, Call, CallRejected, TaskReturns,
        TaskRaises, Retry, RetryInline, documents, Pending, j
  <2>2. Busy(r)'
    BY <1>12
    DEF SeeMarker, NotCancelled, DeferWhileOpen, Start, Call, CallRejected, TaskReturns,
        TaskRaises, Retry, RetryInline, Take, Goto, Busy, TypeOK, RunnerOK
  <2>3. Finish(r) => ~Busy(r)'
    BY DEF Finish, Goto, Busy, TypeOK, RunnerOK
  <2>4. KeepsDelivery(r)
    BY <1>11, <2>2, <2>3, StepKinds DEF EndsDelivery, Requeue
  <2>5. QED BY <1>4, <2>1, <2>4
<1>13. QED
  BY <1>7, <1>8, <1>9, <1>10, <1>12, <1>11 DEF ProcessJob

(* Deliveries that are popped or die with their runner.                       *)
LEMMA DeathLifecycle ==
    ASSUME TypeOK, SingleDelivery,
           \/ \E j \in Jobs : ThreadDies(j)
           \/ \E w \in Workers : WorkerDies(w)
           \/ ApiDies
    PROVE  Lifecycle!Next
<1> DEFINE Let(S) == UNION {Held(r) : r \in S}
<1>1. ASSUME NEW S \in SUBSET Runners, lost' = lost \cup Let(S),
             UNCHANGED <<deployment, status, queue, request>>,
             \A r \in S : ~Busy(r)',
             \A r \in Runners \ S : Busy(r)' = Busy(r) /\ JobOf(r)' = JobOf(r)
      PROVE  Lifecycle!Next
  <2>1. Let(S) \subseteq Open /\ Open' = Open \ Let(S)
    BY <1>1, ReleasedAreClosed
  <2>2. Let(S) \in SUBSET Jobs
    BY <2>1 DEF Open
  <2> HIDE DEF Let
  <2>3. QED BY <1>1, <2>1, <2>2, LostByFault
<1>2. ASSUME NEW r \in Runners, Finish(r), lost' = lost \cup Held(r),
             UNCHANGED <<deployment, status, queue, request>>
      PROVE  Lifecycle!Next
  <2>1. Let({r}) = Held(r) /\ {r} \in SUBSET Runners
    OBVIOUS
  <2>2. /\ ~Busy(r)'
        /\ \A s \in Runners \ {r} : Busy(s)' = Busy(s) /\ JobOf(s)' = JobOf(s)
    BY <1>2 DEF Finish, Goto, Busy, JobOf, TypeOK, RunnerOK
  <2> HIDE DEF Let
  <2>3. QED BY <1>1, <1>2, <2>1, <2>2
<1>3. CASE \E j \in Jobs : ThreadDies(j)
  BY <1>2, <1>3 DEF ThreadDies, Runners, api, redis, documents
<1>4. CASE \E w \in Workers : WorkerDies(w)
  BY <1>2, <1>4 DEF WorkerDies, Runners, api, redis, documents
<1>5. CASE ApiDies
  <2>1. /\ \A r \in Jobs : ~Busy(r)'
        /\ \A r \in Runners \ Jobs : Busy(r)' = Busy(r) /\ JobOf(r)' = JobOf(r)
        /\ Jobs \in SUBSET Runners
    BY <1>5 DEF ApiDies, Busy, JobOf, Runners
  <2>2. lost' = lost \cup Let(Jobs) /\ UNCHANGED <<deployment, status, queue, request>>
    BY <1>5 DEF ApiDies, api, redis, documents
  <2> HIDE DEF Let
  <2>3. QED BY <1>1, <2>1, <2>2
<1>6. QED BY <1>3, <1>4, <1>5

LEMMA PopLifecycle ==
    ASSUME TypeOK, SingleDelivery, NEW w \in Workers, Pop(w)
    PROVE  Lifecycle!Next \/ Hidden
<1> DEFINE j == Head(queue).job
<1>1. /\ w \in Runners /\ ~Busy(w) /\ queue # <<>> /\ queue' = Tail(queue)
      /\ UNCHANGED <<deployment, request, status>>
  BY DEF Pop, Runners, Busy, api, documents
<1>2. /\ Head(queue) \in Payload /\ Queued(j)
      /\ \A k \in Jobs : Queued(k)' <=> Queued(k) /\ k # j
  BY <1>1, QueuedByTail
<1>3. j \in Jobs /\ j \in Open
  BY <1>2 DEF Payload, Open, Delivered, Queued
<1>4. \A k \in Jobs \ {j} : Queued(k)' = Queued(k)
  BY <1>2, Zenon DEF Queued
<1>5. CASE Take(w, Head(queue)) /\ lost' = lost
  <2>1. /\ Busy(w)' /\ JobOf(w)' = j
        /\ \A r \in Runners \ {w} : Busy(r)' = Busy(r) /\ JobOf(r)' = JobOf(r)
    BY <1>1, <1>5 DEF Take, Goto, Busy, JobOf, TypeOK, RunnerOK
  <2>2. \A k \in Jobs \ {j} : HeldBySome(k)' = HeldBySome(k)
    BY <1>1, <2>1 DEF HeldBySome
  <2>3. j \in Open'
    BY <1>1, <1>3, <2>1 DEF Open, Delivered, Busy
  <2> HIDE DEF j
  <2>4. Open' = Open
    BY <1>1, <1>3, <1>4, <2>2, <2>3, OthersStay
  <2>5. QED BY <1>1, <1>5, <2>4 DEF Hidden, HasRedis, Polled, Poll
<1>6. CASE UNCHANGED runner /\ lost' = lost \cup {j}
  <2>1. \A k \in Jobs \ {j} : HeldBySome(k)' = HeldBySome(k)
    BY <1>6 DEF runner, HeldBySome, Busy, JobOf
  <2> HIDE DEF j
  <2>2. Open' = Open \/ Open' = Open \ {j}
    BY <1>1, <1>3, <1>4, <2>1, OthersStay
  <2>3. {j} \in SUBSET Jobs /\ {j} \subseteq Open
    BY <1>3
  <2>4. QED BY <1>1, <1>6, <2>2, <2>3, LostByFault
<1>7. QED BY <1>5, <1>6 DEF Pop

(* Without a repeated rpush and a failing last write, the pipeline is the     *)
(* lifecycle it promises, whatever else fails.                                *)
THEOREM ImplementsLifecycleHolds ==
    ASSUME "duplicated" \notin Faults, "late_write" \notin Faults
    PROVE  Spec => ImplementsLifecycle
<1> DEFINE Inv == SingleDelivery /\ DocumentsOfRequests /\ ThreadOwnsJob
<1>1. Init => Lifecycle!Init /\ Inv
  <2> SUFFICES ASSUME Init PROVE Lifecycle!Init /\ Inv
    OBVIOUS
  <2>1. Inv
    BY DEF Init, SingleDelivery, DocumentsOfRequests, ThreadOwnsJob, Busy, Runners
  <2>2. Open = {}
    BY DEF Init, Dispatching, Open, Delivered
  <2>3. Polled = [j \in Jobs |-> "unknown"]
    <3>1. \A j \in Jobs : status[j] = "NONE"
      BY DEF Init
    <3>2. \A j \in Jobs : Poll(j) = "unknown"
      BY <3>1 DEF Poll, Final
    <3>3. QED BY <3>2 DEF Polled
  <2>4. HasRedis \in BOOLEAN
    BY DEF HasRedis
  <2>5. QED BY <2>1, <2>2, <2>3, <2>4 DEF Init, Lifecycle!Init
<1>2. TypeOK /\ Inv /\ [Next]_vars => Inv'
  BY SingleDeliveryInductive, DocumentsInductive, ThreadOwnsJobInductive
<1>3. TypeOK /\ Inv /\ [Next]_vars
        => [Lifecycle!Next]_<<HasRedis, Open, lost, Polled>>
  <2> SUFFICES ASSUME TypeOK, Inv, [Next]_vars PROVE Lifecycle!Next \/ Hidden
    BY DEF Hidden
  <2>1. CASE UNCHANGED vars \/ \E p \in Processes : RecoveryTimeout(p)
    BY <2>1 DEF RecoveryTimeout, Hidden, HasRedis, Open, Delivered, JobOf, Polled,
                Poll, documents, api, redis, runner, vars
  <2>2. QED
    <3>1. \A j \in Jobs : ~DispatchAgain(j)
      BY DEF DispatchAgain, RpushAgain, Inject
    <3>2. QED
      BY <2>1, <3>1, RequestLifecycle, RunnerLifecycle, DeathLifecycle, PopLifecycle
      DEF Next
<1>4. QED
  BY <1>1, <1>2, <1>3, TypeCorrect, PTL DEF Spec, ImplementsLifecycle, Lifecycle!Spec

-----------------------------------------------------------------------------
(* What the violated properties have in common with every instance: the       *)
(* behaviour TLC shows once is what the code does always.                     *)

(* The input files of a job are there for its first attempt and for no other, *)
(* so that every retry of every task works without them (runtime.py:245).     *)
InputOnlyForFirstAttempt ==
    \A r \in Runners : pc[r] = "executing" =>
        (JobOf(r) \in files <=> load[r].attempts = 0)

(* The breaker of a worker never half-opens: once open, no task runs in that  *)
(* worker again until the process is restarted (runtime.py:296).              *)
OpenForGood ==
    [][\A w \in Workers : breaker[w].state = "open" =>
           \/ /\ breaker'[w].state = "open"
              /\ pc'[w] = "executing" => pc[w] = "executing"
           \/ faults' # faults]_vars

-----------------------------------------------------------------------------
(* A payload says by its attempts whether the input of its job is there.      *)
Tells(p) == p.job \in files <=> p.attempts = 0

InputTracked ==
    /\ \A j \in Jobs : request[j] \in Dispatching => j \in files
    /\ \A n \in DOMAIN queue : Tells(queue[n])
    /\ \A r \in Runners :
           /\ pc[r] \in {"dequeued", "cancelling", "checked", "starting", "executing"}
                        \cup Pushing => Tells(load[r])
           /\ pc[r] \in {"returned", "failed"} => JobOf(r) \notin files

(* Past its task a worker's breaker is what the task made of it; before, it   *)
(* is closed.                                                                 *)
WorkersNeverProbe ==
    \A w \in Workers :
        /\ breaker[w].state # "half_open"
        /\ pc[w] \in {"starting", "executing"} => breaker[w].state = "closed"

(* A task in a thread of the API always raises; without Redis there is no     *)
(* other.                                                                     *)
ThreadsFail ==
    /\ \A j \in Jobs : outcome[j] \notin {"report", "error"}
    /\ ~HasRedis => \A w \in Workers : pc[w] = "idle"

LEMMA ThreadsFailInductive ==
    ASSUME TypeOK, ThreadsFail, [Next]_vars
    PROVE  ThreadsFail'
<1> USE JobsAssumption DEF JobsAssumption
<1>1. CASE UNCHANGED <<deployment, pc, outcome>>
  BY <1>1 DEF ThreadsFail, HasRedis
<1>2. ASSUME NEW j \in Jobs, DispatchInline(j) \/ ThreadDies(j) PROVE ThreadsFail'
  BY <1>2 DEF DispatchInline, ThreadDies, Take, Finish, Goto, ThreadsFail, HasRedis,
              TypeOK, RunnerOK, Runners
<1>3. ASSUME NEW w \in Workers, Pop(w) \/ WorkerDies(w) PROVE ThreadsFail'
  BY <1>3 DEF Pop, WorkerDies, Take, Finish, Goto, ThreadsFail, HasRedis, TypeOK,
              RunnerOK, Runners, runner
<1>4. ASSUME NEW r \in Runners, ProcessJob(r) PROVE ThreadsFail'
  <2>1. deployment' = deployment
    BY <1>4, StepKinds DEF KeepsDelivery, EndsDelivery, Requeue, RequeueAgain
  <2>2. ~HasRedis => r \in Jobs
    BY <1>4, StepKinds DEF ThreadsFail, Busy, Runners
  <2>3. \A s \in Runners \ {r} : pc'[s] = pc[s] /\ outcome'[s] = outcome[s]
    BY <1>4
    DEF ProcessJob, SeeMarker, DropCancelled, NotCancelled, DeferWhileOpen, Start, Call,
        CallRejected, TaskReturns, TaskRaises, Complete, CompleteRaises, Retry,
        StoreDeadLetter, Bury, Requeue, RequeueAgain, RetryInline, DeferInline, Take,
        Finish, Goto, TypeOK, RunnerOK
  <2>4. r \in Jobs => outcome'[r] \notin {"report", "error"}
    <3>1. CASE TaskReturns(r)
      <4>1. r \in Jobs => Ends(r) = {"transient"}
        BY DEF Ends
      <4>2. QED BY <3>1, <4>1 DEF TaskReturns
    <3>2. CASE ~TaskReturns(r)
      BY <1>4, <3>2
      DEF ProcessJob, SeeMarker, DropCancelled, NotCancelled, DeferWhileOpen, Start, Call,
          CallRejected, TaskRaises, Complete, CompleteRaises, Retry, StoreDeadLetter,
          Bury, Requeue, RequeueAgain, RetryInline, DeferInline, Take, Finish, Goto,
          ThreadsFail, TypeOK, RunnerOK
    <3>3. QED BY <3>1, <3>2
  <2>5. QED BY <2>1, <2>2, <2>3, <2>4 DEF ThreadsFail, HasRedis, Runners
<1>5. CASE ApiDies
  BY <1>5 DEF ApiDies, ThreadsFail, HasRedis, Runners
<1>6. QED
  BY <1>1, <1>2, <1>3, <1>4, <1>5
  DEF Next, Dispatch, DispatchToRedis, DispatchAgain, CreateJob, DispatchFails,
      CancelJob, MarkCancelled, MarkerExpires, RecoveryTimeout, runner, vars

(* Without Redis no job is ever COMPLETED, for any tasks and under any faults *)
(* (redis_queue.py:133).                                                      *)
THEOREM NothingCompletesInlineHolds == Spec => []NothingCompletesInline
<1>1. Init => ThreadsFail /\ NothingCompletesInline
  BY DEF Init, ThreadsFail, NothingCompletesInline, Runners
<1>2. TypeOK /\ ThreadsFail /\ [Next]_vars => ThreadsFail'
  BY ThreadsFailInductive
<1>3. TypeOK /\ ThreadsFail /\ NothingCompletesInline /\ [Next]_vars
        => NothingCompletesInline'
  <2> SUFFICES ASSUME TypeOK, ThreadsFail, NothingCompletesInline, [Next]_vars,
                      ~HasRedis', NEW j \in Jobs, status'[j] = "COMPLETED"
               PROVE  FALSE
    BY DEF NothingCompletesInline
  <2>1. deployment' = deployment
    <3>1. ASSUME NEW r \in Runners, ProcessJob(r) PROVE deployment' = deployment
      BY <3>1, StepKinds DEF KeepsDelivery, EndsDelivery, Requeue, RequeueAgain
    <3>2. QED
      BY <3>1 DEF Next, CreateJob, Dispatch, DispatchToRedis, DispatchInline,
                  DispatchAgain, DispatchFails, CancelJob, MarkCancelled, MarkerExpires, ThreadDies,
                  Pop, WorkerDies, RecoveryTimeout, ApiDies, vars
  <2>2. status[j] # "COMPLETED" /\ ~HasRedis
    BY <2>1 DEF NothingCompletesInline, HasRedis
  <2>3. ~CreateJob(j)
    BY DEF CreateJob, SetStatus, TypeOK
  <2>4. PICK r \in Runners : ProcessJob(r) /\ Busy(r) /\ JobOf(r) = j
    BY <2>2, <2>3, StatusWriters
  <2>5. pc[r] = "returned" /\ r \in Jobs
    BY <2>2, <2>4, FinalWriters
    DEF Complete, CompleteRaises, ThreadsFail, Busy, Runners
  <2>6. QED BY <2>5 DEF ThreadsFail, TypeOK, RunnerOK, Runners
<1>4. QED BY <1>1, <1>2, <1>3, TypeCorrect, PTL DEF Spec

-----------------------------------------------------------------------------
LEMMA BreakerWriters ==
    ASSUME TypeOK, WorkersNeverProbe, [Next]_vars, NEW w \in Workers
    PROVE  \/ breaker'[w] = FreshBreaker /\ pc'[w] = "idle" /\ faults' = faults + 1
           \/ TaskReturns(w) \/ TaskRaises(w)
           \/ /\ breaker'[w].state = breaker[w].state
              /\ pc'[w] \in {"starting", "executing"} =>
                     \/ pc[w] \in {"starting", "executing"}
                     \/ breaker[w].state # "open"
              /\ pc'[w] = "executing" => pc[w] \in {"starting", "executing"}
<1> USE JobsAssumption DEF JobsAssumption
<1> DEFINE Kept == /\ breaker'[w].state = breaker[w].state
                   /\ pc'[w] \in {"starting", "executing"} =>
                          \/ pc[w] \in {"starting", "executing"}
                          \/ breaker[w].state # "open"
                   /\ pc'[w] = "executing" => pc[w] \in {"starting", "executing"}
           Reset == breaker'[w] = FreshBreaker /\ pc'[w] = "idle" /\ faults' = faults + 1
           Goal == Reset \/ TaskReturns(w) \/ TaskRaises(w) \/ Kept
<1>w. w \in Runners /\ w \in Processes /\ ProcessOf(w) = w /\ w # Api /\ w \notin Jobs
  BY DEF Runners, Processes, ProcessOf
<1>1. CASE UNCHANGED <<breaker, pc>>
  BY <1>1
<1>2. ASSUME NEW p \in Processes, RecoveryTimeout(p) PROVE Goal
  BY <1>2, <1>w DEF RecoveryTimeout, runner, TypeOK, Breaker
<1>3. ASSUME NEW j \in Jobs, DispatchInline(j) \/ ThreadDies(j) PROVE Goal
  BY <1>3, <1>w DEF DispatchInline, ThreadDies, Take, Finish, Goto, TypeOK, RunnerOK
<1>4. ASSUME NEW v \in Workers, Pop(v) PROVE Goal
  BY <1>4, <1>w DEF Pop, Take, Goto, runner, TypeOK, RunnerOK, Runners
<1>5. ASSUME NEW v \in Workers, WorkerDies(v) PROVE Goal
  BY <1>5, <1>w DEF WorkerDies, Finish, Goto, Inject, TypeOK, RunnerOK, Runners, Processes
<1>6. CASE ApiDies
  BY <1>6, <1>w DEF ApiDies, TypeOK, RunnerOK
<1>7. ASSUME NEW r \in Runners, r # w, ProcessJob(r) PROVE Goal
  <2>1. pc'[w] = pc[w]
    BY <1>7, <1>w
    DEF ProcessJob, SeeMarker, DropCancelled, NotCancelled, DeferWhileOpen, Start, Call,
        CallRejected, TaskReturns, TaskRaises, Complete, CompleteRaises, Retry,
        StoreDeadLetter, Bury, Requeue, RequeueAgain, RetryInline, DeferInline, Take,
        Finish, Goto, TypeOK, RunnerOK
  <2>2. ProcessOf(r) # w
    BY <1>7, <1>w DEF ProcessOf, Runners
  <2>3. breaker'[w] = breaker[w]
    BY <1>7, <1>w, <2>2
    DEF ProcessJob, SeeMarker, DropCancelled, NotCancelled, DeferWhileOpen, Start, Call,
        CallRejected, TaskReturns, TaskRaises, Complete, CompleteRaises, Retry,
        StoreDeadLetter, Bury, Requeue, RequeueAgain, RetryInline, DeferInline, TypeOK
  <2>4. QED BY <2>1, <2>3
<1>8. CASE Call(w)
  BY <1>8, <1>w DEF Call, Goto, WorkersNeverProbe, TypeOK, RunnerOK
<1>9. CASE Requeue(w)
  <2>1. PICK reply \in RpushReplies :
            /\ Happens(reply)
            /\ breaker' = IF Raises(reply) /\ w \in Workers
                            THEN [breaker EXCEPT ![w] = FreshBreaker] ELSE breaker
    BY <1>9 DEF Requeue, Rpush
  <2>2. pc'[w] = "idle"
    BY <1>9, <1>w DEF Requeue, Finish, Goto, TypeOK, RunnerOK
  <2>3. CASE Raises(reply)
    BY <1>w, <2>1, <2>2, <2>3 DEF Raises, Happens, Inject, TypeOK
  <2>4. CASE ~Raises(reply)
    BY <2>1, <2>2, <2>4
  <2>5. QED BY <2>3, <2>4
<1>10. CASE \/ SeeMarker(w) \/ RequeueAgain(w) \/ DropCancelled(w) \/ NotCancelled(w)
            \/ DeferWhileOpen(w) \/ Start(w) \/ CallRejected(w) \/ Complete(w) \/ CompleteRaises(w) \/ Retry(w)
            \/ StoreDeadLetter(w) \/ Bury(w) \/ RetryInline(w) \/ DeferInline(w)
  BY <1>10, <1>w
  DEF SeeMarker, RequeueAgain, Pushing, NextTry, DropCancelled, NotCancelled,
      DeferWhileOpen, Start, CallRejected, Complete, CompleteRaises, Retry,
      StoreDeadLetter, Bury, RetryInline, DeferInline, Take, Finish, Goto, TypeOK, RunnerOK
<1>11. QED
  BY <1>1, <1>2, <1>3, <1>4, <1>5, <1>6, <1>7, <1>8, <1>9, <1>10
  DEF Next, Dispatch, DispatchToRedis, DispatchAgain, CreateJob, DispatchFails,
      CancelJob, MarkCancelled, MarkerExpires, ProcessJob, runner, vars

LEMMA WorkersNeverProbeInductive ==
    ASSUME TypeOK, WorkersNeverProbe, [Next]_vars
    PROVE  WorkersNeverProbe'
<1>1. SUFFICES ASSUME NEW w \in Workers
               PROVE  /\ breaker'[w].state # "half_open"
                      /\ pc'[w] \in {"starting", "executing"} =>
                             breaker'[w].state = "closed"
  BY DEF WorkersNeverProbe
<1>w. w \in Runners /\ w \in Processes /\ ProcessOf(w) = w
  BY DEF Runners, Processes, ProcessOf
<1>b. breaker[w] \in Breaker
  BY <1>w DEF TypeOK
<1>2. CASE TaskReturns(w)
  <2>1. breaker'[w] = AfterSuccess(breaker[w]) /\ pc'[w] = "returned"
    BY <1>2, <1>w DEF TaskReturns, Goto, TypeOK, RunnerOK
  <2>2. breaker[w].state = "closed"
    BY <1>2 DEF TaskReturns, WorkersNeverProbe
  <2>3. AfterSuccess(breaker[w]).state = "closed"
    BY <1>b, <2>2 DEF AfterSuccess, Breaker
  <2>4. QED BY <2>1, <2>3
<1>3. CASE TaskRaises(w)
  <2>1. breaker'[w] = AfterFailure(breaker[w]) /\ pc'[w] = "failed"
    BY <1>3, <1>w DEF TaskRaises, Goto, TypeOK, RunnerOK
  <2>2. breaker[w].state = "closed"
    BY <1>3 DEF TaskRaises, WorkersNeverProbe
  <2>3. AfterFailure(breaker[w]).state \in {"closed", "open"}
    BY <1>b, <2>2 DEF AfterFailure, Breaker
  <2>4. QED BY <2>1, <2>3
<1>4. CASE breaker'[w] = FreshBreaker /\ pc'[w] = "idle"
  BY <1>4 DEF FreshBreaker
<1>5. QED
  BY <1>b, <1>2, <1>3, <1>4, BreakerWriters DEF WorkersNeverProbe, Breaker

(* An open breaker of a worker stays open, and no task starts in that worker, *)
(* until a fault restarts it: the counterpart of DeferredIsRetried.           *)
THEOREM OpenForGoodHolds == Spec => OpenForGood
<1>1. Init => WorkersNeverProbe
  BY DEF Init, WorkersNeverProbe, FreshBreaker, Processes, Runners
<1>2. TypeOK /\ WorkersNeverProbe /\ [Next]_vars => WorkersNeverProbe'
  BY WorkersNeverProbeInductive
<1>3. TypeOK /\ WorkersNeverProbe /\ [Next]_vars
        => [\A w \in Workers : breaker[w].state = "open" =>
               \/ /\ breaker'[w].state = "open"
                  /\ pc'[w] = "executing" => pc[w] = "executing"
               \/ faults' # faults]_vars
  <2> SUFFICES ASSUME TypeOK, WorkersNeverProbe, [Next]_vars, NEW w \in Workers,
                      breaker[w].state = "open", faults' = faults
               PROVE  /\ breaker'[w].state = "open"
                      /\ pc'[w] = "executing" => pc[w] = "executing"
    OBVIOUS
  <2>1. pc[w] \notin {"starting", "executing"}
    BY DEF WorkersNeverProbe
  <2>2. faults + 1 # faults
    BY JobsAssumption DEF TypeOK, JobsAssumption
  <2>3. QED
    BY <2>1, <2>2, BreakerWriters DEF TaskReturns, TaskRaises
<1>4. QED BY <1>1, <1>2, <1>3, TypeCorrect, PTL DEF Spec, OpenForGood

-----------------------------------------------------------------------------
(* Payloads that travel with their attempts unchanged keep telling.           *)
Ahead == {"dequeued", "cancelling", "checked", "starting", "executing", "deferred",
          "backoff", "second_try", "third_try"}

LEMMA TrackedByMoves ==
    ASSUME TypeOK, InputTracked, UNCHANGED files,
           \A j \in Jobs : request'[j] \in Dispatching => request[j] \in Dispatching,
           \A n \in DOMAIN queue' :
               \/ \E m \in DOMAIN queue : queue'[n] = queue[m]
               \/ Tells(queue'[n]),
           \A r \in Runners :
               \/ pc'[r] = "idle" \/ pc'[r] = "burying"
               \/ pc'[r] = pc[r] /\ load'[r] = load[r]
               \/ pc'[r] \in Ahead /\ Tells(load'[r])
               \/ pc'[r] = "failed" /\ JobOf(r)' \notin files
    PROVE  InputTracked'
<1>1. \A n \in DOMAIN queue' : Tells(queue'[n])
  BY DEF InputTracked
<1>2. \A p : (Tells(p) <=> (p.job \in files' <=> p.attempts = 0))
  BY DEF Tells
<1>3. \A r \in Runners : pc'[r] \in Ahead => Tells(load'[r])
  BY DEF InputTracked, Pushing, Ahead
<1>4. \A r \in Runners : pc'[r] \in {"returned", "failed"} => JobOf(r)' \notin files'
  BY DEF InputTracked, Pushing, Ahead, JobOf
<1>5. \A j \in Jobs : request'[j] \in Dispatching => j \in files'
  BY DEF InputTracked
<1>6. QED BY <1>1, <1>2, <1>3, <1>4, <1>5 DEF InputTracked, Pushing, Ahead, Tells, JobOf

LEMMA PushedOrQueued ==
    ASSUME TypeOK, NEW p \in Payload, queue' = queue \/ queue' = Append(queue, p)
    PROVE  \A n \in DOMAIN queue' :
               (\E m \in DOMAIN queue : queue'[n] = queue[m]) \/ queue'[n] = p
<1>1. CASE queue' = queue
  BY <1>1
<1>2. CASE queue' = Append(queue, p)
  <2>1. /\ \A n \in DOMAIN queue : queue'[n] = queue[n]
        /\ queue'[Len(queue) + 1] = p
        /\ \A n \in DOMAIN queue' : n \in DOMAIN queue \/ n = Len(queue) + 1
    BY <1>2, AppendJobs DEF TypeOK
  <2>2. QED BY <2>1
<1>3. QED BY <1>1, <1>2

LEMMA InputTrackedInductive ==
    ASSUME "duplicated" \notin Faults,
           TypeOK, SingleDelivery, InputTracked, [Next]_vars
    PROVE  InputTracked'
<1> USE JobsAssumption DEF JobsAssumption
<1>1. CASE UNCHANGED <<files, request, queue, pc, load>>
  BY <1>1 DEF InputTracked, Tells, JobOf
<1>2. ASSUME NEW j \in Jobs, CreateJob(j) PROVE InputTracked'
  <2>1. /\ \A n \in DOMAIN queue : queue[n].job # j
        /\ \A r \in Runners : pc[r] # "idle" => JobOf(r) # j
    BY <1>2 DEF CreateJob, SingleDelivery
  <2>2. files' = files \cup {j} /\ UNCHANGED <<queue, pc, load>>
    BY <1>2 DEF CreateJob, redis, runner
  <2>3. \A k \in Jobs : request'[k] \in Dispatching => k = j \/ request[k] \in Dispatching
    BY <1>2 DEF CreateJob, TypeOK
  <2>4. QED BY <2>1, <2>2, <2>3 DEF InputTracked, Pushing, Tells, JobOf
<1>3. ASSUME NEW j \in Jobs, DispatchToRedis(j) PROVE InputTracked'
  <2> DEFINE p == [job |-> j, attempts |-> 0]
  <2>1. PICK reply \in RpushReplies : Rpush(p, reply)
    BY <1>3 DEF DispatchToRedis
  <2>2. p \in Payload /\ Tells(p)
    BY <1>3 DEF DispatchToRedis, Payload, InputTracked, Tells
  <2> HIDE DEF p
  <2>3. queue' = queue \/ queue' = Append(queue, p)
    BY <2>1, <2>2, RpushKinds
  <2>4. \A n \in DOMAIN queue' : (\E m \in DOMAIN queue : queue'[n] = queue[m])
                                 \/ Tells(queue'[n])
    BY <2>2, <2>3, PushedOrQueued
  <2>5. UNCHANGED <<files, pc, load>>
        /\ \A k \in Jobs : request'[k] \in Dispatching => request[k] \in Dispatching
    BY <1>3 DEF DispatchToRedis, Dispatching, runner, TypeOK
  <2>6. QED BY <2>4, <2>5, TrackedByMoves
<1>4. ASSUME NEW j \in Jobs, DispatchInline(j) PROVE InputTracked'
  <2> DEFINE p == [job |-> j, attempts |-> 0]
  <2>1. Tells(p) /\ Take(j, p) /\ j \in Runners
    BY <1>4 DEF DispatchInline, Dispatching, InputTracked, Tells, Runners
  <2> HIDE DEF p
  <2>2. \A r \in Runners : \/ pc'[r] = pc[r] /\ load'[r] = load[r]
                           \/ pc'[r] \in Ahead /\ Tells(load'[r])
    BY <2>1 DEF Take, Goto, Ahead, TypeOK, RunnerOK
  <2>3. UNCHANGED <<files, queue>>
        /\ \A k \in Jobs : request'[k] \in Dispatching => request[k] \in Dispatching
    BY <1>4 DEF DispatchInline, Dispatching, redis, TypeOK
  <2>4. QED BY <2>2, <2>3, TrackedByMoves
<1>5. ASSUME NEW w \in Workers, Pop(w) PROVE InputTracked'
  <2>1. w \in Runners /\ queue # <<>> /\ queue' = Tail(queue) /\ UNCHANGED <<files, request>>
    BY <1>5 DEF Pop, Runners, api
  <2>2. /\ \A n \in DOMAIN queue' : \E m \in DOMAIN queue : queue'[n] = queue[m]
        /\ \E m \in DOMAIN queue : Head(queue) = queue[m]
    BY <2>1, TailJobs DEF TypeOK
  <2>3. Tells(Head(queue))
    BY <2>2 DEF InputTracked
  <2>4. \A r \in Runners : \/ pc'[r] = pc[r] /\ load'[r] = load[r]
                           \/ pc'[r] \in Ahead /\ Tells(load'[r])
    BY <1>5, <2>1, <2>3 DEF Pop, Take, Goto, runner, Ahead, TypeOK, RunnerOK
  <2>5. QED BY <2>1, <2>2, <2>4, TrackedByMoves
<1>6. ASSUME NEW j \in Jobs, DispatchFails(j) PROVE InputTracked'
  BY <1>6, TrackedByMoves DEF DispatchFails, Dispatching, redis, runner, TypeOK
<1>7. ASSUME NEW r \in Runners, Finish(r), UNCHANGED <<files, queue, request>>
      PROVE  InputTracked'
  BY <1>7, TrackedByMoves DEF Finish, Goto, TypeOK, RunnerOK
<1>8. ASSUME NEW r \in Runners, WorkerDies(r) \/ ThreadDies(r) PROVE InputTracked'
  BY <1>7, <1>8 DEF WorkerDies, ThreadDies, api, redis
<1>9. CASE ApiDies
  BY <1>9, TrackedByMoves DEF ApiDies, api, redis
<1>10. ASSUME NEW r \in Runners, TaskReturns(r) \/ TaskRaises(r) PROVE InputTracked'
  <2>1. /\ Busy(r) /\ JobOf(r) \in Jobs /\ files' = files \ {JobOf(r)}
        /\ UNCHANGED <<queue, request, load>>
        /\ \A s \in Runners \ {r} : pc'[s] = pc[s]
        /\ pc'[r] \in {"returned", "failed"}
    BY <1>10, PayloadTypes
    DEF TaskReturns, TaskRaises, Busy, Goto, api, redis, TypeOK, RunnerOK
  <2>2. /\ \A n \in DOMAIN queue : queue[n].job # JobOf(r)
        /\ \A s \in Runners \ {r} : pc[s] # "idle" => JobOf(s) # JobOf(r)
        /\ request[JobOf(r)] \notin Dispatching
    BY <2>1 DEF Dispatching, SingleDelivery, Busy
  <2>3. QED BY <2>1, <2>2 DEF InputTracked, Pushing, Tells, JobOf
<1>11. ASSUME NEW r \in Runners, Retry(r) PROVE InputTracked'
  <2>1. load[r] \in Payload /\ JobOf(r) \notin files
    BY <1>11, PayloadTypes DEF Retry, InputTracked
  <2>2. load'[r] = [load[r] EXCEPT !.attempts = Attempt(r)]
    BY <1>11 DEF Retry, TypeOK, RunnerOK
  <2>3. load'[r].job = JobOf(r) /\ load'[r].attempts = load[r].attempts + 1
    BY <2>1, <2>2 DEF Payload, Attempt, JobOf
  <2>4. Tells(load'[r])
    BY <2>1, <2>3 DEF Tells, Payload
  <2>5. /\ UNCHANGED <<files, queue, request>> /\ pc'[r] = "backoff"
        /\ \A s \in Runners \ {r} : pc'[s] = pc[s] /\ load'[s] = load[s]
    BY <1>11 DEF Retry, Goto, api, redis, TypeOK, RunnerOK
  <2>6. QED BY <2>4, <2>5, TrackedByMoves DEF Ahead
<1>12. ASSUME NEW r \in Runners, Requeue(r) PROVE InputTracked'
  <2>1. PICK reply \in RpushReplies : Rpush(load[r], reply)
    BY <1>12 DEF Requeue
  <2>2. load[r] \in Payload /\ Tells(load[r])
    BY <1>12, PayloadTypes DEF Requeue, Pushing, InputTracked
  <2>3. queue' = queue \/ queue' = Append(queue, load[r])
    BY <2>1, <2>2, RpushKinds
  <2>4. \A n \in DOMAIN queue' : (\E m \in DOMAIN queue : queue'[n] = queue[m])
                                 \/ Tells(queue'[n])
    BY <2>2, <2>3, PushedOrQueued
  <2>5. UNCHANGED <<files, request>> /\ Finish(r)
    BY <1>12 DEF Requeue, api
  <2>6. \A s \in Runners : pc'[s] = "idle" \/ (pc'[s] = pc[s] /\ load'[s] = load[s])
    BY <2>5 DEF Finish, Goto, TypeOK, RunnerOK
  <2>7. QED BY <2>4, <2>5, <2>6, TrackedByMoves
<1>13. ASSUME NEW r \in Runners,
              \/ SeeMarker(r) \/ NotCancelled(r) \/ DeferWhileOpen(r) \/ Start(r)
              \/ Call(r) \/ CallRejected(r) \/ CompleteRaises(r)
              \/ StoreDeadLetter(r) \/ RetryInline(r)
       PROVE  InputTracked'
  <2>1. UNCHANGED <<files, queue, request>>
    BY <1>13 DEF SeeMarker, NotCancelled, DeferWhileOpen, Start, Call, CallRejected,
                 CompleteRaises, StoreDeadLetter, RetryInline, api, redis
  <2>2. \A s \in Runners \ {r} : pc'[s] = pc[s] /\ load'[s] = load[s]
    BY <1>13 DEF SeeMarker, NotCancelled, DeferWhileOpen, Start, Call, CallRejected,
                 CompleteRaises, StoreDeadLetter, RetryInline, Take, Goto, TypeOK, RunnerOK
  <2>3. /\ load'[r] = load[r]
        /\ \/ pc[r] \in Ahead /\ pc'[r] \in Ahead
           \/ pc[r] = "returned" /\ pc'[r] = "failed"
           \/ pc'[r] = "burying"
    BY <1>13 DEF SeeMarker, NotCancelled, DeferWhileOpen, Start, Call, CallRejected, Ahead,
                 CompleteRaises, StoreDeadLetter, RetryInline, Take, Goto, TypeOK, RunnerOK
  <2>4. \/ pc'[r] \in Ahead /\ Tells(load'[r])
        \/ pc'[r] = "failed" /\ JobOf(r)' \notin files
        \/ pc'[r] = "burying"
    BY <2>3 DEF InputTracked, Pushing, Ahead, JobOf
  <2>5. QED BY <2>1, <2>2, <2>4, TrackedByMoves
<1>14. ASSUME NEW r \in Runners,
              DropCancelled(r) \/ Complete(r) \/ Bury(r) \/ DeferInline(r)
       PROVE  InputTracked'
  BY <1>7, <1>14 DEF DropCancelled, Complete, Bury, DeferInline, api, redis
<1>15. (\A j \in Jobs : ~DispatchAgain(j)) /\ (\A r \in Runners : ~RequeueAgain(r))
  BY DEF DispatchAgain, RequeueAgain, RpushAgain, Inject
<1>16. QED
  BY <1>1, <1>2, <1>3, <1>4, <1>5, <1>6, <1>8, <1>9, <1>10, <1>11, <1>12, <1>13, <1>14,
     <1>15
  DEF Next, Dispatch, CancelJob, MarkCancelled, MarkerExpires, RecoveryTimeout,
      ProcessJob, Runners, api, redis, runner, vars

(* As long as no rpush is repeated, the first attempt of every job finds its  *)
(* input and every later attempt does not: the counterpart of AttemptHasInput *)
(* (runtime.py:245).                                                          *)
THEOREM InputOnlyForFirstAttemptHolds ==
    ASSUME "duplicated" \notin Faults
    PROVE  Spec => []InputOnlyForFirstAttempt
<1>1. Init => SingleDelivery /\ InputTracked
  BY DEF Init, Dispatching, Pushing, SingleDelivery, InputTracked
<1>2. TypeOK /\ SingleDelivery /\ InputTracked /\ [Next]_vars
        => (SingleDelivery /\ InputTracked)'
  BY SingleDeliveryInductive, InputTrackedInductive
<1>3. InputTracked => InputOnlyForFirstAttempt
  BY DEF InputTracked, InputOnlyForFirstAttempt, Tells, JobOf
<1>4. QED BY <1>1, <1>2, <1>3, TypeCorrect, PTL DEF Spec
=============================================================================
