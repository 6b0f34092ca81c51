--------------------------- MODULE MarathonSession ---------------------------
(* The long-running investigation ("marathon") of                             *)
(* services/session_service.py and agent/marathon_loop.py: idempotent start,  *)
(* bootstrap, tick and retry over one Firestore document per session.         *)
(*                                                                            *)
(* A call is a request handler or a background bootstrap.  Bootstraps run in  *)
(* a thread pool and requests in any API instance, so that the steps of two   *)
(* calls interleave between any two accesses to the store; one action is one  *)
(* access with the local computation before it.  A step works on the snapshot *)
(* it loaded and saves all of it.                                             *)
(*                                                                            *)
(* Left out, because no execution reaches it: the decisions of the language   *)
(* model.  A decision is taken after Step 5 only, Step 5 records five         *)
(* searches, and three equal actions in a row make generate_decision decide   *)
(* by itself.  Texts, prompts and MEDIUM findings are left out too.           *)
(*                                                                            *)
(* The code as it is has TimestampLoads = FALSE: the repository stores         *)
(* last_update as a server timestamp, MarathonState declares a float, and a   *)
(* stored session fails to load.  TRUE is the code with that one conversion   *)
(* repaired, without which no step of an investigation is ever reached.       *)
(*                                                                            *)
(* The tick that a RUNNING result schedules is left out for another reason:   *)
(* the task presents the token of a service account to POST /audit/tick,      *)
(* which wants the session's owner and refuses it, so that the task never     *)
(* steps anything.  The ticks of the model are the owner's own requests.      *)
(*                                                                            *)
(* total_steps and retry_count are abstracted to what is tested of them: any  *)
(* step may be the one that finds its budget spent, any error the one too     *)
(* many.  (A save of an older snapshot sets both counters back.)              *)
EXTENDS Naturals, FiniteSets

CONSTANTS
    Sessions,         \* session ids a start can draw
    Keys,             \* idempotency keys
    StartKeys,        \* what a start may carry: a key, or None
    Users,            \* who sends the starts
    Calls,            \* requests and background tasks that run at a time
    None,
    TimestampLoads,   \* MarathonState accepts the timestamp of a document
    Faults,           \* kinds of failures that may happen
    MaxFaults         \* how many of them (a bound of the instance)

ASSUME SessionAssumption ==
    /\ MaxFaults \in Nat
    /\ TimestampLoads \in BOOLEAN
    /\ None \notin Sessions \cup Keys \cup Users /\ StartKeys \subseteq Keys \cup {None}

VARIABLES
    doc,      \* session id -> document, or None
    key,      \* idempotency key -> session id, or None
    keyOf,    \* session id -> key its start carried (history)
    owner,    \* session id -> user_id of its document, or None
    boot,     \* sessions whose bootstrap waits in BackgroundTasks
    begun,    \* sessions whose start was answered with success (history)
    call,     \* the calls
    faults    \* how many faults have happened

vars == <<doc, key, keyOf, owner, boot, begun, call, faults>>

Checks == {"image", "title", "physical", "additional", "zoning", "historical"}
Ended == {"COMPLETED", "FLAGGED", "FAILED"}
Statuses == Ended \cup {"QUEUED", "RUNNING", "WAITING"}
AllFaults == {"audit", "sync", "save", "crash"}

(* flags is progress_checklist, evidence the keys of verification_evidence,   *)
(* high whether findings holds one of severity HIGH.                          *)
Documents ==
    [status : Statuses, flags : SUBSET Checks, evidence : SUBSET Checks,
     high : BOOLEAN]
NewDocument ==
    [status |-> "QUEUED", flags |-> {}, evidence |-> {}, high |-> FALSE]

Ops == {"start", "bootstrap", "tick", "retry"}
Points == {"idle", "create", "register", "record", "retry", "enter", "decide",
           "image", "conclude", "save", "flag", "answer", "fail"}
ASSUME NoneIsNoDocument == None \notin Documents

CallRecords ==
    [op : Ops \cup {None}, pc : Points, s : Sessions \cup {None},
     user : Users \cup {None}, key : Keys \cup {None},
     st : Documents \cup {None}, spent : BOOLEAN, sawEnd : BOOLEAN,
     guarded : BOOLEAN, next : {"answer", "flag", "save"}]
Idle == [op |-> None, pc |-> "idle", s |-> None, user |-> None, key |-> None,
         st |-> None, spent |-> FALSE, sawEnd |-> FALSE, guarded |-> FALSE, next |-> "answer"]

Known == begun \cup ({key[k] : k \in Keys} \ {None})

(* One fault of kind f, within the bound.                                     *)
Fault(f) == f \in Faults /\ faults < MaxFaults /\ faults' = faults + 1

Moves(c, pc) == call' = [call EXCEPT ![c].pc = pc]
Ends(c) == call' = [call EXCEPT ![c] = Idle]

(* A bootstrap has raised: its handler marks the session FAILED.              *)
Fails(c) == call' = [call EXCEPT ![c] = [Idle EXCEPT !.op = "bootstrap",
                                                     !.pc = "fail", !.s = call[c].s]]

(* The step of c has its result.                                              *)
Returns(c) ==
    call' = [call EXCEPT ![c] = [Idle EXCEPT !.op = call[c].op, !.s = call[c].s,
                                             !.pc = "answer"]]

(* set(merge=True) of a whole snapshot: Firestore merges nested maps key by   *)
(* key, so that evidence of others survives, unless the snapshot's map is     *)
(* empty and then replaces the map; progress_checklist holds every key and is *)
(* replaced, as lists are.                                                    *)
Merge(d, st) ==
    [st EXCEPT !.evidence = IF @ = {} THEN {} ELSE @ \cup d.evidence]

(* update_session_state: a write of the given fields, whose failure is only   *)
(* logged.                                                                    *)
SyncState(s, d) ==
    \/ doc' = [doc EXCEPT ![s] = d] /\ UNCHANGED faults
    \/ Fault("sync") /\ UNCHANGED doc

SyncStatus(s, status) == SyncState(s, [doc[s] EXCEPT !.status = status])

-----------------------------------------------------------------------------
(* Starting: resolve the key, create the document, register the key, append   *)
(* the audit event, queue the bootstrap.                                      *)

(* A start whose key its own user has registered returns that session and     *)
(* changes nothing; another user's key counts as unknown.                     *)
ResolveKey(c, u, k, s) ==
    /\ call[c].pc = "idle"
    /\ k # None /\ key[k] # None => owner[key[k]] # u
    /\ doc[s] = None /\ \A b \in Calls : call[b].s # s
    /\ call' = [call EXCEPT ![c] = [Idle EXCEPT !.op = "start", !.pc = "create",
                                                !.s = s, !.user = u, !.key = k]]
    /\ UNCHANGED <<doc, key, keyOf, owner, boot, begun, faults>>

CreateSession(c) ==
    /\ call[c].pc = "create"
    /\ doc' = [doc EXCEPT ![call[c].s] = NewDocument]
    /\ keyOf' = [keyOf EXCEPT ![call[c].s] = call[c].key]
    /\ owner' = [owner EXCEPT ![call[c].s] = call[c].user]
    /\ Moves(c, IF call[c].key = None THEN "record" ELSE "register")
    /\ UNCHANGED <<key, boot, begun, faults>>

(* Mutant: the key's document is written with set().                          *)
RegisterKeyOverwriting(c) ==
    /\ call[c].pc = "register"
    /\ key' = [key EXCEPT ![call[c].key] = call[c].s]
    /\ Moves(c, "record")
    /\ UNCHANGED <<doc, keyOf, owner, boot, begun, faults>>

(* create() of the key's document: the second start gets AlreadyExists, which *)
(* nothing catches.  Its session stays behind, QUEUED.                        *)
RegisterKey(c) ==
    /\ call[c].pc = "register"
    /\ LET k == call[c].key IN
        \/ /\ key[k] = None
           /\ key' = [key EXCEPT ![k] = call[c].s]
           /\ Moves(c, "record")
        \/ key[k] # None /\ Ends(c) /\ UNCHANGED key
    /\ UNCHANGED <<doc, keyOf, owner, boot, begun, faults>>

(* Mutant: add_task before the audit append, which may still raise.           *)
RecordStartEarly(c) ==
    /\ call[c].pc = "record"
    /\ boot' = boot \cup {call[c].s}
    /\ \/ begun' = begun \cup {call[c].s} /\ UNCHANGED faults
       \/ Fault("audit") /\ UNCHANGED begun
    /\ Ends(c)
    /\ UNCHANGED <<doc, key, keyOf, owner>>

RecordStart(c) ==
    /\ call[c].pc = "record"
    /\ \/ /\ boot' = boot \cup {call[c].s}
          /\ begun' = begun \cup {call[c].s}
          /\ UNCHANGED faults
       \/ Fault("audit") /\ UNCHANGED <<boot, begun>>
    /\ Ends(c)
    /\ UNCHANGED <<doc, key, keyOf, owner>>

-----------------------------------------------------------------------------
(* A step loads its snapshot ...                                              *)
LoadState(c, op, s) ==
    \E spent \in BOOLEAN : call' = [call EXCEPT ![c] =
        [Idle EXCEPT !.op = op, !.s = s, !.st = doc[s], !.spent = spent,
                     !.sawEnd = doc[s].status \in {"COMPLETED", "FLAGGED"},
                     !.pc = IF doc[s].status = "QUEUED" THEN "enter" ELSE "decide"]]

Bootstrap(c, s) ==
    /\ call[c].pc = "idle" /\ s \in boot
    /\ boot' = boot \ {s}
    /\ IF TimestampLoads
       THEN LoadState(c, "bootstrap", s)
       ELSE call' = [call EXCEPT ![c] = [Idle EXCEPT !.op = "bootstrap", !.s = s,
                                                     !.pc = "fail"]]
    /\ UNCHANGED <<doc, key, keyOf, owner, begun, faults>>

(* The owner's POST /audit/tick; it answers 500 when the document fails to    *)
(* load.                                                                      *)
Tick(c, s) ==
    /\ call[c].pc = "idle" /\ s \in Known /\ TimestampLoads
    /\ LoadState(c, "tick", s)
    /\ UNCHANGED <<doc, key, keyOf, owner, boot, begun, faults>>

EnterRunning(c) ==
    LET st == [call[c].st EXCEPT !.status = "RUNNING"]
        s == call[c].s IN
    /\ call[c].pc = "enter"
    /\ doc' = [doc EXCEPT ![s] = Merge(@, st)]
    /\ call' = [call EXCEPT ![c].pc = "decide", ![c].st = st]
    /\ UNCHANGED <<key, keyOf, owner, boot, begun, faults>>

(* ... tests the step budget, before anything else ...                        *)
BudgetChecks == Checks \ {"title"}
BudgetSpent(c) ==
    LET st == call[c].st
        done == BudgetChecks \subseteq st.evidence
        new == [st EXCEPT !.status = IF done THEN "COMPLETED" ELSE "WAITING",
                          !.high = @ /\ ~done] IN
    /\ call[c].pc = "decide" /\ call[c].spent
    /\ SyncState(call[c].s, [doc[call[c].s] EXCEPT !.status = new.status,
                                                   !.high = @ /\ ~done])
    /\ call' = [call EXCEPT ![c].pc = "save", ![c].st = new]
    /\ UNCHANGED <<key, keyOf, owner, boot, begun>>

(* ... then whether the session has ended; it returns without saving.         *)
AlreadyEnded(c) ==
    /\ call[c].pc = "decide" /\ ~call[c].spent
    /\ call[c].st.status \in Ended
    /\ Returns(c)
    /\ UNCHANGED <<doc, key, keyOf, owner, boot, begun, faults>>

(* Mutant: no test of the final statuses.                                     *)
WorksAfterEnd(c) == call[c].pc = "decide" /\ ~call[c].spent

Works(c) ==
    /\ call[c].pc = "decide" /\ ~call[c].spent
    /\ call[c].st.status \notin Ended

(* Mutant: the checklist is ticked and the evidence left out.                 *)
RegisterFlag(st, checks) == [st EXCEPT !.flags = @ \cup checks]

(* register_evidence: a check is flagged together with its provenance.        *)
Register(st, checks) ==
    [st EXCEPT !.flags = @ \cup checks, !.evidence = @ \cup checks]

(* Every step inside the try statement: outcomes without a status of their    *)
(* own save the snapshot and report RUNNING.                                  *)
GoesOn(c, st) ==
    /\ call' = [call EXCEPT ![c].pc = "save", ![c].st = st, ![c].guarded = TRUE]
    /\ UNCHANGED <<doc, faults>>

(* Outcomes that announce a status first and then save it, the verdicts       *)
(* together with the list of findings ...                                     *)
Concludes(c, st, next) ==
    /\ SyncState(call[c].s, [doc[call[c].s] EXCEPT !.status = st.status,
                                                   !.high = st.high])
    /\ call' = [call EXCEPT ![c].pc = "save", ![c].st = st, ![c].guarded = TRUE,
                            ![c].next = next]

(* ... the others without it.                                                 *)
Announces(c, status) ==
    /\ SyncStatus(call[c].s, status)
    /\ call' = [call EXCEPT ![c].pc = "save", ![c].st.status = status,
                            ![c].guarded = TRUE]

(* SourceDocumentAccessError: what its handler saves is outside the try.      *)
FailsSource(c) ==
    /\ SyncStatus(call[c].s, "FAILED")
    /\ call' = [call EXCEPT ![c].pc = "save", ![c].st.status = "FAILED",
                            ![c].guarded = FALSE]

StepVars == <<key, keyOf, owner, boot, begun>>

-----------------------------------------------------------------------------
(* Phase 1: the analysis of the uploaded document.                            *)
AnnounceImage(c) ==
    /\ Works(c) /\ "image" \notin call[c].st.flags
    /\ SyncStatus(call[c].s, "RUNNING")
    /\ Moves(c, "image")
    /\ UNCHANGED StepVars

AnalyzeImage(c) ==
    LET st == [call[c].st EXCEPT !.status = "RUNNING"] IN
    /\ call[c].pc = "image"
    /\ \/ GoesOn(c, Register(st, {"image"}))
       \/ GoesOn(c, [st EXCEPT !.flags = @ \ {"image"}])
       \/ FailsSource(c)
    /\ UNCHANGED StepVars

(* Step 4: the boundary.  Without coordinates the user must set a pin; a      *)
(* contradiction of high severity is saved as verified and then flagged.      *)
VerifyBoundary(c) ==
    LET st == call[c].st
        verified == Register(st, {"physical"}) IN
    /\ Works(c) /\ "image" \in st.flags /\ "physical" \notin st.flags
    /\ \/ Announces(c, "WAITING")
       \/ GoesOn(c, st)
       \/ GoesOn(c, verified)
       \/ /\ call' = [call EXCEPT ![c].pc = "save", ![c].st = verified,
                                  ![c].next = "flag", ![c].guarded = TRUE]
          /\ UNCHANGED <<doc, faults>>
    /\ UNCHANGED StepVars

FlagSession(c) ==
    /\ call[c].pc = "flag"
    /\ Concludes(c, [call[c].st EXCEPT !.status = "FLAGGED", !.high = TRUE], "answer")
    /\ UNCHANGED StepVars

(* Step 5: the five record searches, all with evidence or none registered,    *)
(* then the search for the chain of owners, which is not repeated when it     *)
(* fails.  (The queries themselves contain the words that ask for it.)  A     *)
(* legal dispute is saved by its helper and once more by the step.            *)
CheckRecords(c) ==
    LET st == call[c].st
        found == Register(st, {"title", "additional", "zoning"}) IN
    /\ Works(c) /\ {"image", "physical"} \subseteq st.flags
    /\ "additional" \notin st.flags
    /\ \/ FailsSource(c)   \* no title number
       \/ GoesOn(c, st)
       \/ Concludes(c, [st EXCEPT !.status = "FAILED", !.high = TRUE], "save")
       \/ GoesOn(c, found)
       \/ GoesOn(c, Register(found, {"historical"}))
    /\ UNCHANGED StepVars

(* The decision, forced by three searches in a row: finish_audit or wait_user.*)
AnnounceThought(c) ==
    /\ Works(c) /\ {"image", "physical", "additional"} \subseteq call[c].st.flags
    /\ SyncStatus(call[c].s, "RUNNING")
    /\ Moves(c, "conclude")
    /\ UNCHANGED StepVars

(* Mutant: the forced conclusion does not ask for the chain of owners.        *)
DecisionChecksWithoutHistory == Checks \ {"image", "historical"}

DecisionChecks == Checks \ {"image"}
Conclude(c) ==
    LET st == call[c].st
        verdict == IF st.high THEN "FLAGGED" ELSE "COMPLETED" IN
    /\ call[c].pc = "conclude"
    /\ IF DecisionChecks \subseteq st.evidence
       THEN Concludes(c, [st EXCEPT !.status = verdict], "answer")
       ELSE Announces(c, "WAITING")
    /\ UNCHANGED StepVars

-----------------------------------------------------------------------------
(* save_state.  Inside the try statement a save that raises is counted and    *)
(* saved again; elsewhere the exception leaves the step.                      *)
SaveState(c) ==
    /\ call[c].pc = "save"
    /\ doc' = [doc EXCEPT ![call[c].s] = Merge(@, call[c].st)]
    /\ IF call[c].next = "answer"
       THEN Returns(c)
       ELSE call' = [call EXCEPT ![c].pc = call[c].next, ![c].next = "answer"]
    /\ UNCHANGED <<key, keyOf, owner, boot, begun, faults>>

SaveRaises(c) ==
    /\ call[c].pc = "save" /\ call[c].guarded
    /\ Fault("save")
    /\ \E new \in {call[c].st, [call[c].st EXCEPT !.status = "FAILED"]} :
        /\ doc' = [doc EXCEPT ![call[c].s].status =
                       IF new = call[c].st THEN @ ELSE "FAILED"]
        /\ call' = [call EXCEPT ![c].st = new, ![c].guarded = FALSE,
                                ![c].next = "answer"]
    /\ UNCHANGED StepVars

StepRaises(c) ==
    /\ call[c].pc \in {"enter", "save"} /\ ~call[c].guarded
    /\ Fault("save")
    /\ IF call[c].op = "bootstrap"
       THEN Fails(c) ELSE Ends(c)
    /\ UNCHANGED <<doc, key, keyOf, owner, boot, begun>>

(* The audit append, then create_task, whose failure is swallowed.            *)
Answer(c) ==
    /\ call[c].pc = "answer" /\ Ends(c)
    /\ UNCHANGED <<doc, key, keyOf, owner, boot, begun, faults>>

(* An append that raises answers 500, or makes the bootstrap a failed one.    *)
AuditRaises(c) ==
    /\ call[c].pc = "answer" /\ Fault("audit")
    /\ IF call[c].op = "bootstrap"
       THEN Fails(c) ELSE Ends(c)
    /\ UNCHANGED <<doc, key, keyOf, owner, boot, begun>>

FailBootstrap(c) ==
    /\ call[c].pc = "fail"
    /\ doc' = [doc EXCEPT ![call[c].s].status = "FAILED"]
    /\ Ends(c)
    /\ UNCHANGED <<key, keyOf, owner, boot, begun, faults>>

(* Retry reads the document, and writes status and counter in a second access.*)
Retriable == {"FAILED", "WAITING", "QUEUED"}
ReadForRetry(c, s) ==
    /\ call[c].pc = "idle" /\ s \in Known
    /\ doc[s].status \in Retriable
    /\ call' = [call EXCEPT ![c] =
        [Idle EXCEPT !.op = "retry", !.pc = "retry", !.s = s,
                     !.sawEnd = doc[s].status \in {"COMPLETED", "FLAGGED"}]]
    /\ UNCHANGED <<doc, key, keyOf, owner, boot, begun, faults>>

Retry(c) ==
    LET s == call[c].s IN
    /\ call[c].pc = "retry"
    /\ doc' = [doc EXCEPT ![s].status = "RUNNING"]
    /\ Returns(c)
    /\ UNCHANGED <<key, keyOf, owner, boot, begun, faults>>

-----------------------------------------------------------------------------
(* The instance dies: a call goes with it, or a bootstrap that waits.         *)
Crash(c) ==
    /\ call[c].pc # "idle" /\ Fault("crash")
    /\ Ends(c)
    /\ UNCHANGED <<doc, key, keyOf, owner, boot, begun>>

LoseBootstrap(s) ==
    /\ s \in boot /\ Fault("crash")
    /\ boot' = boot \ {s}
    /\ UNCHANGED <<doc, key, keyOf, owner, begun, call>>

-----------------------------------------------------------------------------
Init ==
    /\ doc = [s \in Sessions |-> None]
    /\ key = [k \in Keys |-> None]
    /\ keyOf = [s \in Sessions |-> None]
    /\ owner = [s \in Sessions |-> None]
    /\ boot = {} /\ begun = {}
    /\ call = [c \in Calls |-> Idle]
    /\ faults = 0

Start(c) ==
    \/ \E u \in Users, k \in StartKeys, s \in Sessions : ResolveKey(c, u, k, s)
    \/ CreateSession(c) \/ RegisterKey(c) \/ RecordStart(c)

SingleStep(c) ==
    \/ \E s \in Sessions : Bootstrap(c, s) \/ Tick(c, s)
    \/ EnterRunning(c) \/ BudgetSpent(c) \/ AlreadyEnded(c)
    \/ AnnounceImage(c) \/ AnalyzeImage(c) \/ VerifyBoundary(c)
    \/ FlagSession(c) \/ CheckRecords(c) \/ AnnounceThought(c) \/ Conclude(c)
    \/ SaveState(c) \/ SaveRaises(c) \/ StepRaises(c)

Next ==
    \/ \E c \in Calls :
        \/ Start(c) \/ SingleStep(c)
        \/ Answer(c) \/ AuditRaises(c) \/ FailBootstrap(c)
        \/ \E s \in Sessions : ReadForRetry(c, s)
        \/ Retry(c) \/ Crash(c)
    \/ \E s \in Sessions : LoseBootstrap(s)

Spec == Init /\ [][Next]_vars

-----------------------------------------------------------------------------
(* Documents and calls hold what the code stores in them.                     *)
TypeOK ==
    /\ doc \in [Sessions -> Documents \cup {None}]
    /\ key \in [Keys -> Sessions \cup {None}]
    /\ keyOf \in [Sessions -> Keys \cup {None}]
    /\ owner \in [Sessions -> Users \cup {None}]
    /\ boot \subseteq begun /\ begun \subseteq Sessions
    /\ faults \in 0..MaxFaults
    /\ call \in [Calls -> CallRecords]

(* A repeated POST does not duplicate an investigation: of the starts with    *)
(* one key at most one is bootstrapped, however they interleave.              *)
OneInvestigationPerKey ==
    \A s, t \in begun : keyOf[s] = keyOf[t] /\ keyOf[s] # None => s = t

(* Whatever snapshots overlap, a step of the checklist is never ticked        *)
(* without the evidence that backs it.                                        *)
FlagsBacked ==
    \A s \in Sessions : doc[s] # None => doc[s].flags \subseteq doc[s].evidence

(* A completed investigation has verified every mandatory check, except while *)
(* the call that concluded it has yet to save.                                *)
ConclusionJustified ==
    faults = 0 =>
        \A s \in Sessions : doc[s] # None /\ doc[s].status = "COMPLETED" =>
            \/ BudgetChecks \subseteq doc[s].evidence
            \/ \E c \in Calls : call[c].s = s /\ call[c].pc = "save"

(* COMPLETED and FLAGGED are replaced only by a step at its budget, by a call *)
(* that read the session before it ended, or by a bootstrap that failed.      *)
EndedOverwritten(s) ==
    \E c \in Calls :
        /\ call[c].s = s /\ call'[c] # call[c]
        /\ ~call[c].sawEnd \/ call[c].spent
EndedStands ==
    [][\A s \in Sessions :
        doc[s] # None /\ doc[s].status \in {"COMPLETED", "FLAGGED"} =>
            doc'[s].status = doc[s].status \/ EndedOverwritten(s)]_vars
=============================================================================
