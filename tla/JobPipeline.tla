----------------------------- MODULE JobPipeline -----------------------------
(* The background jobs of the backend, from POST to a final status:           *)
(*   BackgroundJobService  creates the job document, dispatches and cancels,  *)
(*   RedisQueue            one FIFO list and one cancel marker per job,       *)
(*   WorkerRuntime         process_job with retry, deferral, dead-lettering,  *)
(*   JobRepository, DeadLetterQueueRepository   the Firestore documents.      *)
(*                                                                            *)
(* A step is the code between two calls that other actors can observe: one    *)
(* Firestore write, one Redis command, or the protected task.  A runner is    *)
(* whatever executes process_job: a worker process, or the thread of the API  *)
(* that runs the inline background task of one job (named by that job).       *)
(*                                                                            *)
(* Abstractions.  All jobs have one job_type (the two types share nothing but *)
(* the queue); sleeps are steps of unspecified length; audit and realtime     *)
(* events of the worker are best-effort and change nothing here; worker and   *)
(* API see the same temporary directory.                                      *)
EXTENDS Naturals, Sequences, FiniteSets

CONSTANTS
    Jobs,               \* one POST request per job: job_id is a fresh uuid4
    Workers,            \* worker processes (run_worker.py), one thread each
    Api,                \* the API process
    None,               \* no job, no dead-letter entry
    Deployments,        \* configurations considered: see AllDeployments
    TaskOutcomes,       \* what the protected task may do: see AllOutcomes
    MaxRetries,         \* settings.WORKER_MAX_RETRIES
    FailureThreshold,   \* of the circuit breaker of the job type
    SuccessThreshold,
    Faults,             \* kinds of fault the environment may inject
    MaxFaults           \* bound: how many of them in one behaviour

(* "redis":        QUEUE_MODE = redis and a Redis client;                     *)
(* "inline_redis": QUEUE_MODE = inline, the default, but REDIS_URL is set;    *)
(* "inline":       no Redis client, whatever QUEUE_MODE says.                 *)
AllDeployments == {"redis", "inline_redis", "inline"}

(* run_forensic_task and vision_map_sync return a report made from the input  *)
(* file, or swallow an error and return it as the result, or raise.           *)
AllOutcomes == {"report", "error", "transient", "poison"}

(* crash:       a process dies, or a thread ends on an unhandled exception;   *)
(* refused:     rpush raises and nothing was queued;                          *)
(* unanswered:  rpush raises although the payload was queued;                 *)
(* duplicated:  a try of rpush is applied, its reply lost, and _execute tries *)
(*              again: it makes three tries (DEFAULT_RETRY_ATTEMPTS = 2);     *)
(* pop_lost:    the reply of blpop is lost and the element with it;           *)
(* redis_read:  is_cancelled gives up and answers False;                      *)
(* cancel_lost: cancel() gives up, or the API dies before it;                 *)
(* dlq_lost:    store_failed_job swallows a Firestore error;                  *)
(* late_write:  the COMPLETED write raises, applied or not.                   *)
AllFaults == {"crash", "refused", "unanswered", "duplicated", "pop_lost",
              "redis_read", "cancel_lost", "dlq_lost", "late_write"}

ASSUME JobsAssumption ==
    /\ Jobs \cap Workers = {}
    /\ Api \notin Workers
    /\ None \notin Jobs
    /\ None \notin Nat
    /\ Deployments \subseteq AllDeployments
    /\ TaskOutcomes \subseteq AllOutcomes
    /\ Faults \subseteq AllFaults
    /\ MaxFaults \in Nat
    /\ MaxRetries \in Nat \ {0}
    /\ FailureThreshold \in Nat \ {0}
    /\ SuccessThreshold \in Nat \ {0}

VARIABLES
    deployment,
    request,      \* per job: progress of the POST that submits it
    status,       \* job document: status
    attempts,     \* job document: attempts
    result,       \* job document: result
    poisonPill,   \* job documents with poison_pill = True
    files,        \* jobs whose uploaded temporary files exist
    deadLetter,   \* dead-letter entry: its attempt_count
    queue,        \* the Redis list
    marker,       \* jobs with a cancel-job key in Redis
    cancel,       \* per job: progress of one cancel request
    pc,           \* per runner: where it is in process_job
    load,         \* per runner: the payload it holds
    outcome,      \* per runner: what the task did
    breaker,      \* per process: its circuit breaker
    faults,       \* faults injected so far
    lost          \* history: jobs of which a fault destroyed a delivery or
                  \* the dead-letter entry

documents == <<status, attempts, result, poisonPill, deadLetter>>
api == <<request, cancel>>
redis == <<queue, marker>>
runner == <<pc, load, outcome>>
vars == <<deployment, request, status, attempts, result, poisonPill, files,
          deadLetter, queue, marker, cancel, pc, load, outcome, breaker,
          faults, lost>>

-----------------------------------------------------------------------------
Runners == Workers \cup Jobs
Processes == Workers \cup {Api}

(* _circuit_breakers is an attribute of the process's own WorkerRuntime.      *)
ProcessOf(r) == IF r \in Workers THEN r ELSE Api

HasRedis == deployment # "inline"

Final == {"COMPLETED", "DEAD_LETTERED", "CANCELLED"}
Pending == {"QUEUED", "RUNNING", "RETRYING", "DEFERRED"}
Status == {"NONE"} \cup Pending \cup Final

(* payload["attempts"] when process_job receives it: failures so far.         *)
Payload == [job : Jobs, attempts : 0..MaxRetries - 1]
NoPayload == [job |-> None, attempts |-> 0]

(* Before rpush: the sleep of a retry or deferral, or an unanswered try of it. *)
Pushing == {"backoff", "deferred", "second_try", "third_try"}

Points == {"idle", "dequeued", "cancelling", "checked", "starting", "executing",
           "returned", "failed", "burying", "backoff", "deferred", "second_try",
           "third_try"}

(* The POST is between the creation of the document and the end of _dispatch. *)
Dispatching == {"created", "second_try", "third_try"}

NextTry(point) == IF point = "second_try" THEN "third_try" ELSE "second_try"

Breaker == [state : {"closed", "open", "half_open"},
            failures : 0..FailureThreshold,
            successes : 0..SuccessThreshold,
            timer : {"running", "elapsed"}]

FreshBreaker ==
    [state |-> "closed", failures |-> 0, successes |-> 0, timer |-> "running"]

RunnerOK ==
    /\ pc \in [Runners -> Points]
    /\ load \in [Runners -> Payload \cup {NoPayload}]
    /\ outcome \in [Runners -> AllOutcomes \cup {"none"}]
    /\ \A r \in Runners :
          /\ pc[r] # "idle" => load[r] \in Payload
          /\ pc[r] = "returned" => outcome[r] \in {"report", "error"}
          /\ pc[r] \in {"failed", "backoff", "burying"}
                => outcome[r] \in {"transient", "poison"}

TypeOK ==
    /\ deployment \in Deployments
    /\ request \in [Jobs -> {"none", "created", "second_try", "third_try", "served"}]
    /\ status \in [Jobs -> Status]
    /\ attempts \in [Jobs -> 0..MaxRetries]
    /\ result \in [Jobs -> {"none", "report", "error"}]
    /\ poisonPill \subseteq Jobs
    /\ files \subseteq Jobs
    /\ deadLetter \in [Jobs -> 0..MaxRetries - 1 \cup {None}]
    /\ queue \in Seq(Payload)
    /\ marker \subseteq Jobs
    /\ cancel \in [Jobs -> {"none", "written", "done"}]
    /\ RunnerOK
    /\ breaker \in [Processes -> Breaker]
    /\ faults \in 0..MaxFaults
    /\ lost \subseteq Jobs

Init ==
    /\ deployment \in Deployments
    /\ request = [j \in Jobs |-> "none"]
    /\ status = [j \in Jobs |-> "NONE"]
    /\ attempts = [j \in Jobs |-> 0]
    /\ result = [j \in Jobs |-> "none"]
    /\ poisonPill = {}
    /\ files = {}
    /\ deadLetter = [j \in Jobs |-> None]
    /\ queue = <<>>
    /\ marker = {}
    /\ cancel = [j \in Jobs |-> "none"]
    /\ pc = [r \in Runners |-> "idle"]
    /\ load = [r \in Runners |-> NoPayload]
    /\ outcome = [r \in Runners |-> "none"]
    /\ breaker = [p \in Processes |-> FreshBreaker]
    /\ faults = 0
    /\ lost = {}

-----------------------------------------------------------------------------
(* Faults: each one is spent from the bound.                                  *)
Inject(kind) ==
    /\ kind \in Faults
    /\ faults < MaxFaults
    /\ faults' = faults + 1

Happens(kind) == IF kind = "ok" THEN UNCHANGED faults ELSE Inject(kind)

(* RedisQueue.enqueue: how the tries of _execute end ...                      *)
RpushReplies == {"ok", "unanswered", "refused"}
Raises(reply) == reply \in {"unanswered", "refused"}

Rpush(p, reply) ==
    /\ Happens(reply)
    /\ queue' = IF reply = "refused" THEN queue ELSE Append(queue, p)
    /\ lost' = IF reply = "refused" THEN lost \cup {p.job} ELSE lost

(* ... and one after which another follows, when workers have seen the copy.  *)
RpushAgain(p) ==
    /\ Inject("duplicated")
    /\ queue' = Append(queue, p)

-----------------------------------------------------------------------------
(* Circuit breaker of a process, its calls taken as atomic: CircuitBreaker    *)
(* has their interleavings.  Counters saturate at their thresholds.           *)
AfterSuccess(b) ==
    LET n == IF b.successes < SuccessThreshold THEN b.successes + 1
                                               ELSE b.successes
    IN  CASE b.state = "half_open" /\ n >= SuccessThreshold -> FreshBreaker
          [] b.state = "closed" -> [b EXCEPT !.successes = n, !.failures = 0]
          [] OTHER              -> [b EXCEPT !.successes = n]

AfterFailure(b) ==
    LET n == IF b.failures < FailureThreshold THEN b.failures + 1
                                              ELSE b.failures
    IN  IF b.state # "open" /\ (b.state = "half_open" \/ n >= FailureThreshold)
          THEN [b EXCEPT !.failures = n, !.state = "open", !.timer = "running"]
          ELSE [b EXCEPT !.failures = n]

RecoveryTimeout(p) ==
    /\ breaker[p].state = "open"
    /\ breaker[p].timer = "running"
    /\ breaker' = [breaker EXCEPT ![p].timer = "elapsed"]
    /\ UNCHANGED <<deployment, documents, api, files, redis, runner, faults, lost>>

-----------------------------------------------------------------------------
(* Runner bookkeeping.                                                        *)
JobOf(r) == load[r].job
Attempt(r) == load[r].attempts + 1

Goto(r, point) == pc' = [pc EXCEPT ![r] = point]

Take(r, p) ==
    /\ Goto(r, "dequeued")
    /\ load' = [load EXCEPT ![r] = p]
    /\ outcome' = [outcome EXCEPT ![r] = "none"]

Finish(r) ==
    /\ Goto(r, "idle")
    /\ load' = [load EXCEPT ![r] = NoPayload]
    /\ outcome' = [outcome EXCEPT ![r] = "none"]

SetStatus(j, s) == status' = [status EXCEPT ![j] = s]

-----------------------------------------------------------------------------
(* POST /audit: the files are saved and the document created ...              *)
CreateJob(j) ==
    /\ request[j] = "none"
    /\ request' = [request EXCEPT ![j] = "created"]
    /\ SetStatus(j, "QUEUED")
    /\ files' = files \cup {j}
    /\ UNCHANGED <<deployment, attempts, result, poisonPill, deadLetter, redis,
                   cancel, runner, breaker, faults, lost>>

(* ... then, the job.queued event recorded, _dispatch queues the payload ...  *)
DispatchToRedis(j) ==
    /\ request[j] \in Dispatching
    /\ deployment = "redis"
    /\ request' = [request EXCEPT ![j] = "served"]
    /\ \E reply \in RpushReplies : Rpush([job |-> j, attempts |-> 0], reply)
    /\ UNCHANGED <<deployment, documents, files, marker, cancel, runner, breaker>>

DispatchAgain(j) ==
    /\ request[j] \in Dispatching \ {"third_try"}
    /\ deployment = "redis"
    /\ request' = [request EXCEPT ![j] = NextTry(@)]
    /\ RpushAgain([job |-> j, attempts |-> 0])
    /\ UNCHANGED <<deployment, documents, files, marker, cancel, runner, breaker, lost>>

(* ... or hands it to a background task of the API process.                   *)
DispatchInline(j) ==
    /\ request[j] = "created"
    /\ deployment # "redis"
    /\ request' = [request EXCEPT ![j] = "served"]
    /\ Take(j, [job |-> j, attempts |-> 0])
    /\ UNCHANGED <<deployment, documents, files, redis, cancel, breaker, faults, lost>>

(* The audit append is not caught and precedes the dispatch; the API process  *)
(* can also die there, or between two tries.  The document stays QUEUED.      *)
DispatchFails(j) ==
    /\ request[j] \in Dispatching
    /\ Inject("crash")
    /\ request' = [request EXCEPT ![j] = "served"]
    /\ lost' = lost \cup {j}
    /\ UNCHANGED <<deployment, documents, files, redis, cancel, runner, breaker>>

-----------------------------------------------------------------------------
(* POST /audit/jobs/{id}/cancel writes CANCELLED whatever the status is ...   *)
CancelJob(j) ==
    /\ cancel[j] = "none"
    /\ status[j] # "NONE"
    /\ cancel' = [cancel EXCEPT ![j] = "written"]
    /\ SetStatus(j, "CANCELLED")
    /\ UNCHANGED <<deployment, request, attempts, result, poisonPill, files,
                   deadLetter, redis, runner, breaker, faults, lost>>

(* ... and then tries to leave the marker the workers look for.               *)
MarkCancelled(j) ==
    /\ cancel[j] = "written"
    /\ cancel' = [cancel EXCEPT ![j] = "done"]
    /\ \/ /\ HasRedis
          /\ marker' = marker \cup {j}
          /\ UNCHANGED faults
       \/ /\ ~HasRedis
          /\ UNCHANGED <<marker, faults>>
       \/ /\ Inject("cancel_lost")
          /\ UNCHANGED marker
    /\ UNCHANGED <<deployment, request, documents, files, queue, runner, breaker, lost>>

(* The marker lives WORKER_TASK_TIMEOUT_SECONDS, however long the job waits.  *)
MarkerExpires(j) ==
    /\ j \in marker
    /\ marker' = marker \ {j}
    /\ UNCHANGED <<deployment, api, documents, files, queue, runner, breaker,
                   faults, lost>>

-----------------------------------------------------------------------------
(* Mutant: the element is read and left in the list.                          *)
PopPeeking(w) ==
    /\ pc[w] = "idle"
    /\ HasRedis
    /\ queue # <<>>
    /\ Take(w, Head(queue))
    /\ UNCHANGED <<deployment, api, documents, files, redis, breaker, faults, lost>>

(* run_forever: blpop removes the element for good; there is no acknowledge.  *)
Pop(w) ==
    /\ pc[w] = "idle"
    /\ HasRedis
    /\ queue # <<>>
    /\ queue' = Tail(queue)
    /\ \/ Take(w, Head(queue)) /\ UNCHANGED <<faults, lost>>
       \/ /\ Inject("pop_lost")
          /\ lost' = lost \cup {Head(queue).job}
          /\ UNCHANGED runner
    /\ UNCHANGED <<deployment, api, documents, files, marker, breaker>>

(* process_job: the marker is read from Redis; a job that has one is dropped, *)
(* by a write to its document that others may precede ...                     *)
SeeMarker(r) ==
    /\ pc[r] = "dequeued"
    /\ JobOf(r) \in marker
    /\ Goto(r, "cancelling")
    /\ UNCHANGED <<deployment, api, documents, files, redis, load, outcome, breaker,
                   faults, lost>>

DropCancelled(r) ==
    /\ pc[r] = "cancelling"
    /\ SetStatus(JobOf(r), "CANCELLED")
    /\ attempts' = [attempts EXCEPT ![JobOf(r)] = Attempt(r)]
    /\ Finish(r)
    /\ UNCHANGED <<deployment, api, result, poisonPill, files, deadLetter, redis,
                   breaker, faults, lost>>

(* Mutant: the marker is not looked at.                                       *)
NotCancelledUnchecked(r) ==
    /\ pc[r] = "dequeued"
    /\ Goto(r, "checked")
    /\ UNCHANGED <<deployment, api, documents, files, redis, load, outcome, breaker,
                   faults, lost>>

(* ... and one without goes on; so does one whose marker cannot be read.      *)
NotCancelled(r) ==
    /\ pc[r] = "dequeued"
    /\ \/ JobOf(r) \notin marker /\ UNCHANGED faults
       \/ JobOf(r) \in marker /\ Inject("redis_read")
    /\ Goto(r, "checked")
    /\ UNCHANGED <<deployment, api, documents, files, redis, load, outcome, breaker, lost>>

(* The breaker is looked at before call(): an open one defers the job without *)
(* asking whether the recovery timeout has passed.                            *)
DeferWhileOpen(r) ==
    /\ pc[r] = "checked"
    /\ breaker[ProcessOf(r)].state = "open"
    /\ SetStatus(JobOf(r), "DEFERRED")
    /\ Goto(r, "deferred")
    /\ UNCHANGED <<deployment, api, attempts, result, poisonPill, files, deadLetter,
                   redis, load, outcome, breaker, faults, lost>>

Start(r) ==
    /\ pc[r] = "checked"
    /\ breaker[ProcessOf(r)].state # "open"
    /\ SetStatus(JobOf(r), "RUNNING")
    /\ attempts' = [attempts EXCEPT ![JobOf(r)] = Attempt(r)]
    /\ Goto(r, "starting")
    /\ UNCHANGED <<deployment, api, result, poisonPill, files, deadLetter, redis,
                   load, outcome, breaker, faults, lost>>

(* CircuitBreaker.call: another thread of the process may have opened it.     *)
Call(r) ==
    /\ pc[r] = "starting"
    /\ LET b == breaker[ProcessOf(r)] IN
       /\ b.state = "open" => b.timer = "elapsed"
       /\ breaker' = IF b.state = "open"
                       THEN [breaker EXCEPT ![ProcessOf(r)] =
                               [b EXCEPT !.state = "half_open", !.successes = 0]]
                       ELSE breaker
    /\ Goto(r, "executing")
    /\ UNCHANGED <<deployment, api, documents, files, redis, load, outcome, faults, lost>>

CallRejected(r) ==
    /\ pc[r] = "starting"
    /\ breaker[ProcessOf(r)].state = "open"
    /\ breaker[ProcessOf(r)].timer = "running"
    /\ SetStatus(JobOf(r), "DEFERRED")
    /\ Goto(r, "deferred")
    /\ UNCHANGED <<deployment, api, attempts, result, poisonPill, files, deadLetter,
                   redis, load, outcome, breaker, faults, lost>>

-----------------------------------------------------------------------------
(* Mutant: the limit of the handler's time needs no signal.                   *)
EndsUnsignalled(r) ==
    IF JobOf(r) \in files THEN TaskOutcomes ELSE TaskOutcomes \ {"report"}

(* What the handler can end with.  time_limit installs a signal handler, which *)
(* raises ValueError in a thread of the API; a report takes the input files.  *)
Ends(r) ==
    IF r \notin Workers THEN {"transient"}
    ELSE IF JobOf(r) \in files THEN TaskOutcomes
    ELSE TaskOutcomes \ {"report"}

(* However the handler ends, its finally clause deletes the input files.      *)
TaskReturns(r) ==
    /\ pc[r] = "executing"
    /\ \E o \in Ends(r) \cap {"report", "error"} :
           outcome' = [outcome EXCEPT ![r] = o]
    /\ files' = files \ {JobOf(r)}
    /\ breaker' = [breaker EXCEPT ![ProcessOf(r)] = AfterSuccess(@)]
    /\ Goto(r, "returned")
    /\ UNCHANGED <<deployment, api, documents, redis, load, faults, lost>>

TaskRaises(r) ==
    /\ pc[r] = "executing"
    /\ \E o \in Ends(r) \cap {"transient", "poison"} :
           outcome' = [outcome EXCEPT ![r] = o]
    /\ files' = files \ {JobOf(r)}
    /\ breaker' = [breaker EXCEPT ![ProcessOf(r)] = AfterFailure(@)]
    /\ Goto(r, "failed")
    /\ UNCHANGED <<deployment, api, documents, redis, load, faults, lost>>

(* Mutant: after the COMPLETED write the failure path follows.                *)
CompleteFallingThrough(r) ==
    /\ pc[r] = "returned"
    /\ SetStatus(JobOf(r), "COMPLETED")
    /\ result' = [result EXCEPT ![JobOf(r)] = outcome[r]]
    /\ outcome' = [outcome EXCEPT ![r] = "transient"]
    /\ Goto(r, "failed")
    /\ UNCHANGED <<deployment, api, attempts, poisonPill, files, deadLetter, redis,
                   load, breaker, faults, lost>>

Complete(r) ==
    /\ pc[r] = "returned"
    /\ SetStatus(JobOf(r), "COMPLETED")
    /\ result' = [result EXCEPT ![JobOf(r)] = outcome[r]]
    /\ Finish(r)
    /\ UNCHANGED <<deployment, api, attempts, poisonPill, files, deadLetter, redis,
                   breaker, faults, lost>>

(* The COMPLETED write is inside the try: if it raises, the job has failed.   *)
CompleteRaises(r) ==
    /\ pc[r] = "returned"
    /\ Inject("late_write")
    /\ \/ /\ SetStatus(JobOf(r), "COMPLETED")
          /\ result' = [result EXCEPT ![JobOf(r)] = outcome[r]]
       \/ UNCHANGED <<status, result>>
    /\ outcome' = [outcome EXCEPT ![r] = "transient"]
    /\ Goto(r, "failed")
    /\ UNCHANGED <<deployment, api, attempts, poisonPill, files, deadLetter, redis,
                   load, breaker, lost>>

-----------------------------------------------------------------------------
(* Mutant: one retry too many (<= for <).                                     *)
RetryOnceMore(r) ==
    /\ pc[r] = "failed"
    /\ outcome[r] = "transient"
    /\ Attempt(r) <= MaxRetries
    /\ SetStatus(JobOf(r), "RETRYING")
    /\ attempts' = [attempts EXCEPT ![JobOf(r)] = Attempt(r)]
    /\ load' = [load EXCEPT ![r].attempts = Attempt(r)]
    /\ Goto(r, "backoff")
    /\ UNCHANGED <<deployment, api, result, poisonPill, files, deadLetter, redis,
                   outcome, breaker, faults, lost>>

(* _handle_job_failure: back off and retry ...                                *)
Retry(r) ==
    /\ pc[r] = "failed"
    /\ outcome[r] = "transient"
    /\ Attempt(r) < MaxRetries
    /\ SetStatus(JobOf(r), "RETRYING")
    /\ attempts' = [attempts EXCEPT ![JobOf(r)] = Attempt(r)]
    /\ load' = [load EXCEPT ![r].attempts = Attempt(r)]
    /\ Goto(r, "backoff")
    /\ UNCHANGED <<deployment, api, result, poisonPill, files, deadLetter, redis,
                   outcome, breaker, faults, lost>>

(* Mutant: gives up one attempt early.                                        *)
StoreDeadLetterEarly(r) ==
    /\ pc[r] = "failed"
    /\ outcome[r] = "poison" \/ Attempt(r) >= MaxRetries - 1
    /\ deadLetter' = [deadLetter EXCEPT ![JobOf(r)] = load[r].attempts]
    /\ Goto(r, "burying")
    /\ UNCHANGED <<deployment, api, status, attempts, result, poisonPill, files,
                   redis, load, outcome, breaker, faults, lost>>

(* ... or give up.  The entry records payload["attempts"], which does not     *)
(* count the attempt that just failed; a failure to store it is swallowed.    *)
StoreDeadLetter(r) ==
    /\ pc[r] = "failed"
    /\ outcome[r] = "poison" \/ Attempt(r) >= MaxRetries
    /\ \/ /\ deadLetter' = [deadLetter EXCEPT ![JobOf(r)] = load[r].attempts]
          /\ UNCHANGED <<faults, lost>>
       \/ /\ Inject("dlq_lost")
          /\ lost' = lost \cup {JobOf(r)}
          /\ UNCHANGED deadLetter
    /\ Goto(r, "burying")
    /\ UNCHANGED <<deployment, api, status, attempts, result, poisonPill, files,
                   redis, load, outcome, breaker>>

(* Mutant: the entry is stored and the document is not updated.               *)
BurySilently(r) ==
    /\ pc[r] = "burying"
    /\ Finish(r)
    /\ UNCHANGED <<deployment, api, documents, files, redis, breaker, faults, lost>>

Bury(r) ==
    /\ pc[r] = "burying"
    /\ SetStatus(JobOf(r), "DEAD_LETTERED")
    /\ poisonPill' = IF outcome[r] = "poison" THEN poisonPill \cup {JobOf(r)}
                                             ELSE poisonPill \ {JobOf(r)}
    /\ Finish(r)
    /\ UNCHANGED <<deployment, api, attempts, result, files, deadLetter, redis,
                   breaker, faults, lost>>

(* Mutant: as without Redis, a deferred payload is not queued again.          *)
RequeueRetriesOnly(r) ==
    /\ pc[r] \in Pushing
    /\ HasRedis
    /\ queue' = IF pc[r] = "deferred" THEN queue ELSE Append(queue, load[r])
    /\ Finish(r)
    /\ UNCHANGED <<deployment, api, documents, files, marker, breaker, faults, lost>>

(* After the sleep of a retry or of a deferral the payload goes to the tail   *)
(* of the queue, whatever its priority; rpush raising ends the runner.        *)
Requeue(r) ==
    /\ pc[r] \in Pushing
    /\ HasRedis
    /\ \E reply \in RpushReplies :
           /\ Rpush(load[r], reply)
           /\ breaker' = IF Raises(reply) /\ r \in Workers
                           THEN [breaker EXCEPT ![r] = FreshBreaker]
                           ELSE breaker
    /\ Finish(r)
    /\ UNCHANGED <<deployment, api, documents, files, marker>>

RequeueAgain(r) ==
    /\ pc[r] \in Pushing \ {"third_try"}
    /\ HasRedis
    /\ RpushAgain(load[r])
    /\ Goto(r, NextTry(pc[r]))
    /\ UNCHANGED <<deployment, api, documents, files, marker, load, outcome, breaker,
                   lost>>

(* Without Redis a retry calls process_job again in the same thread ...       *)
RetryInline(r) ==
    /\ pc[r] = "backoff"
    /\ ~HasRedis
    /\ Take(r, load[r])
    /\ UNCHANGED <<deployment, api, documents, files, redis, breaker, faults, lost>>

(* ... but a deferral just returns.                                           *)
DeferInline(r) ==
    /\ pc[r] = "deferred"
    /\ ~HasRedis
    /\ Finish(r)
    /\ UNCHANGED <<deployment, api, documents, files, redis, breaker, faults, lost>>

-----------------------------------------------------------------------------
Held(r) == IF pc[r] = "idle" THEN {} ELSE {JobOf(r)}

(* A worker process ends, killed or on an exception that leaves run_forever,  *)
(* and is started again: the payload it held is gone, its breaker is new.     *)
WorkerDies(w) ==
    /\ Inject("crash")
    /\ lost' = lost \cup Held(w)
    /\ Finish(w)
    /\ breaker' = [breaker EXCEPT ![w] = FreshBreaker]
    /\ UNCHANGED <<deployment, api, documents, files, redis>>

(* An exception leaves process_job in a thread of the API.                    *)
ThreadDies(j) ==
    /\ pc[j] # "idle"
    /\ Inject("crash")
    /\ lost' = lost \cup Held(j)
    /\ Finish(j)
    /\ UNCHANGED <<deployment, api, documents, files, redis, breaker>>

(* The API process restarts: every background task is gone.                   *)
ApiDies ==
    /\ Inject("crash")
    /\ lost' = lost \cup UNION {Held(j) : j \in Jobs}
    /\ pc' = [r \in Runners |-> IF r \in Jobs THEN "idle" ELSE pc[r]]
    /\ load' = [r \in Runners |-> IF r \in Jobs THEN NoPayload ELSE load[r]]
    /\ outcome' = [r \in Runners |-> IF r \in Jobs THEN "none" ELSE outcome[r]]
    /\ breaker' = [breaker EXCEPT ![Api] = FreshBreaker]
    /\ UNCHANGED <<deployment, api, documents, files, redis>>

-----------------------------------------------------------------------------
ProcessJob(r) ==
    \/ SeeMarker(r) \/ DropCancelled(r) \/ NotCancelled(r) \/ DeferWhileOpen(r)
    \/ Start(r) \/ Call(r) \/ CallRejected(r) \/ TaskReturns(r) \/ TaskRaises(r)
    \/ Complete(r) \/ CompleteRaises(r) \/ Retry(r) \/ StoreDeadLetter(r)
    \/ Bury(r) \/ Requeue(r) \/ RequeueAgain(r) \/ RetryInline(r) \/ DeferInline(r)

Dispatch(j) == DispatchToRedis(j) \/ DispatchInline(j)

Next ==
    \/ \E j \in Jobs :
          \/ CreateJob(j) \/ Dispatch(j) \/ DispatchAgain(j) \/ DispatchFails(j)
          \/ CancelJob(j) \/ MarkCancelled(j) \/ MarkerExpires(j)
          \/ ThreadDies(j)
    \/ \E w \in Workers : Pop(w) \/ WorkerDies(w)
    \/ \E r \in Runners : ProcessJob(r)
    \/ \E p \in Processes : RecoveryTimeout(p)
    \/ ApiDies

Spec == Init /\ [][Next]_vars

(* A request that is being served, a worker loop and a background task keep   *)
(* running; time passes.  Nothing is assumed of requests or of faults.        *)
Fairness ==
    /\ \A j \in Jobs : WF_vars(Dispatch(j)) /\ WF_vars(MarkCancelled(j))
    /\ \A w \in Workers : WF_vars(Pop(w))
    /\ \A r \in Runners : WF_vars(ProcessJob(r))
    /\ \A p \in Processes : WF_vars(RecoveryTimeout(p))

FairSpec == Spec /\ Fairness

-----------------------------------------------------------------------------
(* A job is delivered once: a payload of it is in the list, or one runner     *)
(* holds it, or its POST is about to dispatch it, and never two of these, so  *)
(* no two workers ever run, retry or bury the same job.  It takes a repeated  *)
(* rpush ("duplicated") to break it.                                          *)
SingleDelivery ==
    /\ \A m, n \in DOMAIN queue : queue[m].job = queue[n].job => m = n
    /\ \A r \in Runners, n \in DOMAIN queue :
           pc[r] # "idle" => JobOf(r) # queue[n].job
    /\ \A r, s \in Runners :
           pc[r] # "idle" /\ pc[s] # "idle" /\ JobOf(r) = JobOf(s) => r = s
    /\ \A j \in Jobs : request[j] # "served" =>
           /\ \A n \in DOMAIN queue : queue[n].job # j
           /\ \A r \in Runners : pc[r] # "idle" => JobOf(r) # j

(* What is left of it when replies of rpush are lost: the copies of a job in  *)
(* the list and in runners' hands, and its POST if it is still to dispatch    *)
(* it, are at most one more than the faults there have been.  Each fault adds *)
(* one delivery at most, so one enqueue adds two copies at most: no crash,    *)
(* retry or deferral multiplies what _execute has repeated.                   *)
PositionsIn(q, j) == {n \in DOMAIN q : q[n].job = j}
Holders(j) == {r \in Runners : pc[r] # "idle" /\ JobOf(r) = j}
Waiting(j) == IF request[j] = "served" THEN 0 ELSE 1
Copies(j) == Cardinality(PositionsIn(queue, j)) + Cardinality(Holders(j)) + Waiting(j)

DeliveriesBounded == \A j \in Jobs : Copies(j) <= faults + 1

(* Someone still has to act on job j.                                         *)
Delivered(j) ==
    \/ request[j] \in Dispatching
    \/ \E n \in DOMAIN queue : queue[n].job = j
    \/ \E r \in Runners : pc[r] # "idle" /\ JobOf(r) = j

(* With Redis the service itself never drops a job: a status that promises    *)
(* more work has a payload behind it, unless a fault destroyed it.            *)
NothingDropped ==
    HasRedis =>
        \A j \in Jobs : status[j] \in Pending /\ j \notin lost => Delivered(j)

(* A job is dead-lettered for poison or after its last permitted attempt, and *)
(* not without an entry an operator can find, unless storing it failed.       *)
DeadLetterJustified ==
    \A j \in Jobs : status[j] = "DEAD_LETTERED" =>
        /\ j \in poisonPill \/ attempts[j] = MaxRetries
        /\ deadLetter[j] # None \/ j \in lost

(* Once COMPLETED or DEAD_LETTERED a job changes only by a cancel request: no *)
(* late retry, deferral or second run overwrites what the client polled.      *)
FinalStatusStands ==
    [][\A j \in Jobs : status[j] \in {"COMPLETED", "DEAD_LETTERED"} =>
           status'[j] \in {status[j], "CANCELLED"}]_vars

(* The whole machinery implements the lifecycle the client is promised: a job *)
(* that got its verdict, or was lost, is never worked on again, and with      *)
(* Redis none ends without a verdict but by a fault.                          *)
Poll(j) ==
    CASE status[j] = "NONE"  -> "unknown"
      [] status[j] \in Final -> status[j]
      [] OTHER               -> "pending"

Open == {j \in Jobs : Delivered(j)}
Polled == [j \in Jobs |-> Poll(j)]

Lifecycle == INSTANCE JobLifecycle WITH
    durable <- HasRedis, open <- Open, poll <- Polled

ImplementsLifecycle == Lifecycle!Spec

(* A runner is past the only check of the cancel marker.                      *)
PastCheck(j) ==
    \E r \in Runners : pc[r] \notin {"idle", "dequeued", "cancelling"} \cup Pushing
                       /\ JobOf(r) = j

(* While its marker is readable, a job nobody is executing is not started     *)
(* again: cancellation ends retries and deferrals.                            *)
CancelStopsRetries ==
    [][\A j \in marker \cap marker' :
           ~PastCheck(j) /\ UNCHANGED faults => ~PastCheck(j)']_vars

(* Every accepted job ends up final for good, without faults that lose it and *)
(* while failures stay below the breaker's threshold.                         *)
EventuallyFinal ==
    \A j \in Jobs : request[j] = "served" ~> [](status[j] \in Final)

(* ENGINEERING_FLOWS.md:222 promises the worker "can recover from model or    *)
(* transient transport failures without inconsistent state": an attempt of    *)
(* the task, the first or a retry, finds the input of its job.                *)
AttemptHasInput ==
    \A w \in Workers : pc[w] = "executing" => JobOf(w) \in files

(* Without Redis, whose jobs are said to fall back to background tasks in     *)
(* process (ENGINEERING_FLOWS.md:205), no job is ever COMPLETED there,        *)
(* however often it is tried and whatever its task would return.              *)
NothingCompletesInline ==
    ~HasRedis => \A j \in Jobs : status[j] # "COMPLETED"

(* runtime.py:479, of _defer_job: "Defer job to be retried later."            *)
DeferredIsRetried ==
    \A j \in Jobs : status[j] = "DEFERRED" ~> status[j] # "DEFERRED"
=============================================================================
