-------------------------- MODULE ForensicAnalysis ---------------------------
(* The forensic analysis of documents (forensic_engine.py) behind the two     *)
(* throttles of the Gemini calls: GeminiApiManager (core/gemini_api_manager), *)
(* a semaphore, a sliding window and a cache, and, inside it, the RateLimiter *)
(* that decorates investigate().                                              *)
(*                                                                            *)
(* A task is one run of perform_forensic_audit in a thread of its own.  An    *)
(* action is what happens under one lock or around one call of the client;    *)
(* time passes between actions.  Reports are abstracted to how they came      *)
(* about; metrics, prompts and the texts of the findings are left out.        *)
EXTENDS Integers, Sequences, FiniteSets

CONSTANTS
    Tasks,            \* threads
    Files,            \* contents of documents: the cache key is their hash
    Rejected,         \* those validate_file() refuses
    None,
    MaxConcurrent,    \* GEMINI_MAX_CONCURRENT_REQUESTS
    MaxCalls,         \* GEMINI_RATE_LIMIT_CALLS
    LimiterCalls,     \* ForensicConfig.RATE_LIMIT_CALLS
    Period,           \* both periods
    CacheTTL,         \* GEMINI_CACHE_TTL_SECONDS
    MaxFiles,         \* documents of a task
    MaxAnalyses,      \* bounds of the instance: documents, time
    MaxTime

ASSUME ForensicAssumption ==
    /\ Rejected \subseteq Files /\ None \notin Files
    /\ {MaxConcurrent, MaxCalls, LimiterCalls, Period, CacheTTL, MaxFiles}
           \subseteq Nat \ {0}
    /\ MaxAnalyses \in Nat /\ MaxTime \in Nat

VARIABLES
    now,         \* time
    task,        \* the tasks: where they are, their document, how many are left
    granted,     \* GeminiApiManager._call_timestamps
    limited,     \* RateLimiter.calls
    cache,       \* GeminiApiManager._cache: file -> [report, expires] or None
    called,      \* times of the generate_content calls (history)
    analyses     \* documents looked at

vars == <<now, task, granted, limited, cache, called, analyses>>

(* "unparsed" is the report of _create_error_report: verdict ERROR, no key    *)
(* "error".                                                                   *)
Reports == {"parsed", "unparsed"}
Points == {"idle", "next", "acquire", "capacity", "upload", "limiter", "limited",
           "generate", "respond"}
Idle == [pc |-> "idle", file |-> None, left |-> 0, until |-> 0]

At(t, pc) == task[t].pc = pc
Goes(t, pc) == task' = [task EXCEPT ![t].pc = pc]
SleepsUntil(t, pc, time) == task' = [task EXCEPT ![t].pc = pc, ![t].until = time]

(* The document is dealt with, by a report or by an error report.             *)
Answers(t) ==
    task' = [task EXCEPT ![t] = [Idle EXCEPT !.left = task[t].left,
                                     !.pc = IF task[t].left = 0 THEN "idle" ELSE "next"]]

Holders == {t \in Tasks : task[t].pc \in Points \ {"idle", "next", "acquire"}}

(* Both lists are in the order of time, so that dropping what is too old, one *)
(* by one or by a filter, drops from the front as many as there are.          *)
Recent(times) ==
    LET old == {i \in 1..Len(times) : times[i] <= now - Period} IN
    SubSeq(times, Cardinality(old) + 1, Len(times))

-----------------------------------------------------------------------------
(* perform_forensic_audit takes the documents one after another, whatever     *)
(* becomes of them; investigate_deed up to the semaphore: a file that is      *)
(* refused, or has a report in the cache that is still valid, is dealt with.  *)
Refused(f) == f \in Rejected
Cached(f) == cache[f] # None /\ now < cache[f].expires
InvestigateDeed(t, f, n) ==
    LET left == (IF At(t, "idle") THEN n ELSE task[t].left) - 1 IN
    /\ task[t].pc \in {"idle", "next"} /\ analyses < MaxAnalyses
    /\ analyses' = analyses + 1
    /\ task' = [task EXCEPT ![t] =
          IF Refused(f) \/ Cached(f)
          THEN [Idle EXCEPT !.left = left, !.pc = IF left = 0 THEN "idle" ELSE "next"]
          ELSE [Idle EXCEPT !.left = left, !.pc = "acquire", !.file = f]]
    /\ cache' = IF Refused(f) \/ Cached(f) THEN cache
                ELSE [cache EXCEPT ![f] = None]
    /\ UNCHANGED <<now, granted, limited, called>>

Acquire(t) ==
    /\ At(t, "acquire") /\ Cardinality(Holders) < MaxConcurrent
    /\ Goes(t, "capacity")
    /\ UNCHANGED <<now, granted, limited, cache, called, analyses>>

(* Mutant: a task that has slept is let through without looking again.        *)
AwaitCapacityOnce(t) ==
    /\ At(t, "capacity") /\ task[t].until <= now
    /\ IF Len(Recent(granted)) < MaxCalls \/ task[t].until > 0
       THEN granted' = Append(Recent(granted), now) /\ Goes(t, "upload")
       ELSE /\ granted' = Recent(granted)
            /\ SleepsUntil(t, "capacity", Head(Recent(granted)) + Period)
    /\ UNCHANGED <<now, limited, cache, called, analyses>>

(* _await_capacity: with a place in the window the call is stamped, before    *)
(* the upload; without one the task sleeps and looks again, in the semaphore. *)
AwaitCapacity(t) ==
    /\ At(t, "capacity") /\ task[t].until <= now
    /\ IF Len(Recent(granted)) < MaxCalls
       THEN granted' = Append(Recent(granted), now) /\ Goes(t, "upload")
       ELSE /\ granted' = Recent(granted)
            /\ SleepsUntil(t, "capacity", Head(Recent(granted)) + Period)
    /\ UNCHANGED <<now, limited, cache, called, analyses>>

(* upload_file: every exception becomes an APIError, which is not retried.    *)
UploadFile(t) ==
    /\ At(t, "upload")
    /\ Goes(t, "limiter") \/ Answers(t)
    /\ UNCHANGED <<now, granted, limited, cache, called, analyses>>

(* The wrapper of RateLimiter: who finds the list full sleeps with the lock   *)
(* held, and then clears all of it.                                           *)
EnterLimiter(t) ==
    /\ At(t, "limiter") /\ \A u \in Tasks : ~At(u, "limited")
    /\ IF Len(Recent(limited)) >= LimiterCalls
       THEN /\ limited' = Recent(limited)
            /\ SleepsUntil(t, "limited", Head(Recent(limited)) + Period)
       ELSE limited' = Append(Recent(limited), now) /\ Goes(t, "generate")
    /\ UNCHANGED <<now, granted, cache, called, analyses>>

LeaveLimiter(t) ==
    /\ At(t, "limited") /\ task[t].until <= now
    /\ limited' = <<now>> /\ Goes(t, "generate")
    /\ UNCHANGED <<now, granted, cache, called, analyses>>

(* investigate(): the call, and what comes of it: a report or an exception.   *)
GenerateContent(t) ==
    /\ At(t, "generate") /\ Goes(t, "respond")
    /\ called' = Append(called, now)
    /\ UNCHANGED <<now, granted, limited, cache, analyses>>

(* The report is cached after the semaphore is left; _set_cached leaves out   *)
(* what has a key "error", and neither kind of report has one.                *)
Respond(t) ==
    /\ At(t, "respond") /\ Answers(t)
    /\ \/ \E r \in Reports :
            cache' = [cache EXCEPT ![task[t].file] =
                         [report |-> r, expires |-> now + CacheTTL]]
       \/ UNCHANGED cache
    /\ UNCHANGED <<now, granted, limited, called, analyses>>

Tick ==
    /\ now < MaxTime \/ \E t \in Tasks : task[t].until > now
    /\ now' = now + 1
    /\ UNCHANGED <<task, granted, limited, cache, called, analyses>>

Finished ==
    /\ analyses = MaxAnalyses /\ \A t \in Tasks : task[t].pc \in {"idle", "next"}
    /\ UNCHANGED vars

-----------------------------------------------------------------------------
Init ==
    /\ now = 0 /\ analyses = 0
    /\ task = [t \in Tasks |-> Idle]
    /\ granted = <<>> /\ limited = <<>> /\ called = <<>>
    /\ cache = [f \in Files |-> None]

Next ==
    \/ \E t \in Tasks :
        \/ \E f \in Files, n \in 1..MaxFiles : InvestigateDeed(t, f, n)
        \/ Acquire(t) \/ AwaitCapacity(t) \/ UploadFile(t)
        \/ EnterLimiter(t) \/ LeaveLimiter(t)
        \/ GenerateContent(t) \/ Respond(t)
    \/ Tick \/ Finished

Spec == Init /\ [][Next]_vars

-----------------------------------------------------------------------------
(* Tasks, windows and cache hold what the code stores in them; neither list   *)
(* of times outgrows its limit.                                               *)
TypeOK ==
    /\ now \in Nat /\ analyses \in 0..MaxAnalyses
    /\ task \in [Tasks -> [pc : Points, file : Files \cup {None}, left : 0..MaxFiles,
                           until : Nat]]
    /\ granted \in Seq(Nat) /\ Len(granted) <= MaxCalls
    /\ limited \in Seq(Nat) /\ Len(limited) <= LimiterCalls
    /\ called \in Seq(Nat)
    /\ cache \in [Files -> [report : Reports, expires : Nat] \cup {None}]

(* However long uploads take and throttles make a task sleep, no period sees  *)
(* more generate_content calls than the manager grants in one and the         *)
(* semaphore can have held back from before.  (The RateLimiter, which forgets *)
(* its calls after a sleep, would allow twice its limit less one.)            *)
CallsBounded ==
    \A start \in 0..now :
        Cardinality({i \in 1..Len(called) :
                        start <= called[i] /\ called[i] < start + Period})
            <= MaxCalls + MaxConcurrent
=============================================================================
