--------------------------- MODULE RealtimeClient ----------------------------
(* The app's realtime controller and service (lib/realtime) composed with the *)
(* broadcaster: one screen watches one session over a connection that breaks  *)
(* and resumes.  A handler runs up to its next await, and others run before   *)
(* it goes on: the preferences are written, and a recovery proceeds, one key  *)
(* and one answer at a time.  Writes of one key complete in order.            *)
EXTENDS Broadcaster

CONSTANTS
    MaxGap,       \* how far ahead an event may be before the state is fetched
    MaxBreaks     \* disconnections and restarts (a bound of the instance)

ASSUME ClientAssumption == MaxGap \in Nat \ {0} /\ MaxBreaks \in Nat

VARIABLES
    connected,    \* the SSE response is being read
    last,         \* RealtimeService._lastEventId (0: null)
    current,      \* RealtimeController._currentLastEventId
    savedId,      \* the preferences: last event
    savedSeq,     \* the preferences: latest sequence (0: none)
    expected,     \* _expectedSequence (0: null)
    seen,         \* _seenEventIds
    reorder,      \* _reorderBuffer
    saving,       \* handlers in _persistProgress, and what they write next
    recoveries,   \* _recoverFromGap calls under way
    applied,      \* numbers applied since the app started (history)
    got,          \* ids received, or known to be missed (history)
    breaks        \* how many disconnections and restarts

cVars == <<connected, last, current, savedId, savedSeq, expected, seen, reorder,
           saving, recoveries, applied, got, breaks>>
vars == <<bVars, cVars>>

Handlers == [event : Events, at : {"id", "number"}]
Positions == IF mode = "streams" THEN 0..(2 * MaxEvents) ELSE 0..MaxEvents
Recoveries == [at : {"asked", "answered", "removing", "removed"}, position : Positions]

-----------------------------------------------------------------------------
(* _applyEvent, and _persistProgress up to its first await: others may still  *)
(* be writing.                                                                *)
Apply(e, others) ==
    /\ applied' = Append(applied, e.seq)
    /\ expected' = e.seq + 1
    /\ current' = e.id
    /\ saving' = Append(others, [event |-> e, at |-> "id"])

(* Mutant: events ahead of the expected one are applied as they come.         *)
DeferNot(e) ==
    Apply(e, saving) /\ UNCHANGED <<reorder, recoveries>>

(* A gap: the event waits; MaxGap numbers ahead of the expected one it makes  *)
(* the controller ask for the authoritative state.                            *)
Defer(e) ==
    /\ reorder' = {f \in reorder : f.seq # e.seq} \cup {e}
    /\ recoveries' = IF e.seq - expected >= MaxGap
                     THEN Append(recoveries, [at |-> "asked", position |-> 0])
                     ELSE recoveries
    /\ UNCHANGED <<expected, applied, current, saving>>

Ignore == UNCHANGED <<expected, reorder, saving, recoveries, applied, current>>

(* _handleEvent.  Events without a number are shown and change nothing here.  *)
(* The first number received becomes the one expected: those below it are     *)
(* dropped should they still come.                                            *)
HandleEvent(e) ==
    LET next == IF expected = 0 THEN e.seq ELSE expected IN
    /\ last' = e.id /\ got' = got \cup {e.id}
    /\ seen' = IF e.seq = 0 THEN seen ELSE seen \cup {e.id}
    /\ IF e.seq = 0 \/ e.id \in seen \/ e.seq < next THEN Ignore
       ELSE IF e.seq = next THEN Apply(e, saving) /\ UNCHANGED <<reorder, recoveries>>
       ELSE Defer(e)
    /\ IF expected = 0 /\ e.seq > 1 THEN Loses("first") ELSE UNCHANGED lost

Deliver ==
    /\ connected /\ queue # <<>>
    /\ HandleEvent(Head(queue))
    /\ queue' = Tail(queue)
    /\ UNCHANGED <<connected, savedId, savedSeq, breaks>>
    /\ UNCHANGED <<mode, events, shared, local, publisher, stream, wire, listening,
                   degraded, replay, sub, sent, faults>>

Unbroadcast == UNCHANGED <<mode, events, shared, local, publisher, stream, wire,
                           listening, degraded, replay, sub, queue, sent, faults>>

(* persistLastEventId of the first handler that has not written its event.    *)
SaveId ==
    /\ \E k \in 1..Len(saving) :
        /\ saving[k].at = "id" /\ \A j \in 1..(k - 1) : saving[j].at = "number"
        /\ saving' = [saving EXCEPT ![k].at = "number"]
        /\ savedId' = saving[k].event.id
    /\ UNCHANGED <<connected, last, current, savedSeq, expected, seen, reorder,
                   recoveries, applied, got, breaks, lost>>
    /\ Unbroadcast

(* Mutant: nothing looks at the reorder buffer when its turn has come.        *)
DrainNot(others) ==
    saving' = others /\ UNCHANGED <<reorder, applied, expected, current>>

(* _drainReorderBuffer: the event expected now, should it wait.               *)
Drain(others) ==
    LET ready == {f \in reorder : f.seq = expected} IN
    \/ \E f \in ready : reorder' = reorder \ {f} /\ Apply(f, others)
    \/ /\ ready = {} /\ saving' = others
       /\ UNCHANGED <<reorder, applied, expected, current>>

(* persistLatestSequence, which lets the handler go on to the reorder buffer. *)
SaveNumber ==
    /\ saving # <<>> /\ Head(saving).at = "number"
    /\ savedSeq' = Head(saving).event.seq
    /\ Drain(Tail(saving))
    /\ UNCHANGED <<connected, last, savedId, seen, recoveries, got, breaks, lost>>
    /\ Unbroadcast

-----------------------------------------------------------------------------
(* _recoverFromGap: last_state() answers with the newest event of any session *)
(* that the stream, or without streams the replay buffer, holds; or with none *)
(* (also when the stream cannot be read), or not at all.                      *)
Newests ==
    IF mode = "streams"
    THEN {0} \cup {OffsetOf(stream[i]) : i \in {Len(stream)} \ {0}}
    ELSE {IF replay = <<>> THEN 0 ELSE replay[Len(replay)].id}

Without(k) == recoveries' = RemoveAt(recoveries, k)
Stage(k, at) == recoveries' = [recoveries EXCEPT ![k].at = at]

AnswerLastState(k) ==
    /\ recoveries[k].at = "asked"
    /\ \/ Without(k)
       \/ \E position \in Newests :
            recoveries' = [recoveries EXCEPT ![k] = [at |-> "answered", position |-> position]]
    /\ UNCHANGED <<connected, last, current, savedId, savedSeq, expected, seen, reorder,
                   saving, applied, got, breaks, lost>>
    /\ Unbroadcast

(* clearSessionCheckpoint removes the saved event, then the saved number.     *)
RemoveId(k) ==
    /\ recoveries[k].at = "answered" /\ Stage(k, "removing")
    /\ savedId' = 0
    /\ IF \E j \in 1..Len(saving) : saving[j].at = "number"
       THEN Loses("torn") ELSE UNCHANGED lost
    /\ UNCHANGED <<connected, last, current, savedSeq, expected, seen, reorder, saving,
                   applied, got, breaks>>
    /\ Unbroadcast

RemoveNumber(k) ==
    /\ recoveries[k].at = "removing" /\ Stage(k, "removed")
    /\ savedSeq' = 0
    /\ UNCHANGED <<connected, last, current, savedId, expected, seen, reorder, saving,
                   applied, got, breaks, lost>>
    /\ Unbroadcast

(* The rest of it: the snapshot holds no sequence_id, so that expected stays; *)
(* the position is that of the snapshot, if it names one; the reorder buffer  *)
(* and the seen ids are cleared.                                              *)
Reconcile(k) ==
    /\ recoveries[k].at = "removed" /\ Without(k)
    /\ current' = IF recoveries[k].position = 0 THEN current ELSE recoveries[k].position
    /\ reorder' = {} /\ seen' = {}
    /\ IF reorder = {} THEN UNCHANGED lost ELSE Loses("recovery")
    /\ UNCHANGED <<connected, last, savedId, savedSeq, expected, saving, applied, got,
                   breaks>>
    /\ Unbroadcast

RecoverFromGap(k) ==
    AnswerLastState(k) \/ RemoveId(k) \/ RemoveNumber(k) \/ Reconcile(k)

-----------------------------------------------------------------------------
Connect ==
    /\ ~connected /\ connected' = TRUE
    /\ \E failed \in BOOLEAN :
        Register(last, got, failed) /\ got' = got \cup Missed(last, got, failed)
    /\ UNCHANGED <<last, current, savedId, savedSeq, expected, seen, reorder, saving,
                   recoveries, applied, breaks>>

Break == breaks < MaxBreaks /\ breaks' = breaks + 1

(* The connection breaks: what the queue holds is lost with it, and the loop  *)
(* resumes after the last event it received.                                  *)
Disconnect ==
    /\ connected /\ connected' = FALSE /\ Break
    /\ Unregister /\ UNCHANGED lost
    /\ UNCHANGED <<last, current, savedId, savedSeq, expected, seen, reorder, saving,
                   recoveries, applied, got>>

(* The app is paused and resumed: the controller names its own position.      *)
(* That may be one a recovery gave it, of an event it never received: those   *)
(* before it that it has not received either are not sent again.              *)
PauseAndResume ==
    /\ connected /\ connected' = FALSE /\ Break
    /\ last' = current
    /\ Unregister
    /\ IF EventAt(current) \in got \cup {0} THEN UNCHANGED lost ELSE Loses("jumped")
    /\ UNCHANGED <<current, savedId, savedSeq, expected, seen, reorder, saving,
                   recoveries, applied, got>>

(* One of the two preferences was written or removed, the other was not yet.  *)
BetweenWrites ==
    \/ \E k \in 1..Len(saving) : saving[k].at = "number"
    \/ \E k \in 1..Len(recoveries) : recoveries[k].at = "removing"

(* The app restarts and starts at the saved position.  The saved number is    *)
(* that of the last event saved, and becomes the one expected.                *)
Restart ==
    /\ Break
    /\ connected' = FALSE
    /\ last' = savedId /\ current' = savedId /\ expected' = savedSeq
    /\ seen' = {} /\ reorder' = {} /\ saving' = <<>> /\ recoveries' = <<>>
    /\ applied' = <<>>
    /\ UNCHANGED <<savedId, savedSeq, got>>
    /\ sub' = "none" /\ queue' = <<>>
    /\ lost' = lost \cup {"restart"} \cup (IF BetweenWrites THEN {"torn"} ELSE {})
    /\ UNCHANGED <<mode, events, shared, local, publisher, stream, wire, listening,
                   degraded, replay, sent, faults>>

-----------------------------------------------------------------------------
Init ==
    /\ BInit
    /\ connected = FALSE /\ last = 0 /\ current = 0 /\ savedId = 0 /\ savedSeq = 0
    /\ expected = 0 /\ seen = {} /\ reorder = {} /\ saving = <<>> /\ recoveries = <<>>
    /\ applied = <<>> /\ got = {} /\ breaks = 0

Next ==
    \/ BNext /\ UNCHANGED cVars
    \/ Connect \/ Deliver \/ SaveId \/ SaveNumber
    \/ \E k \in 1..Len(recoveries) : RecoverFromGap(k)
    \/ Disconnect \/ PauseAndResume \/ Restart

Spec == Init /\ [][Next]_vars

-----------------------------------------------------------------------------
(* Positions and buffers hold events and ids; no queue or buffer outgrows its *)
(* bound.                                                                     *)
TypeOK ==
    /\ {e.event : e \in {publisher[p] : p \in Publishers}} \subseteq Events
    /\ ToSet(stream) \cup ToSet(replay) \cup ToSet(queue) \cup wire \subseteq Events
    /\ Len(queue) <= QueueSize /\ Len(replay) <= ReplaySize
    /\ reorder \subseteq Events /\ lost \subseteq Causes
    /\ saving \in Seq(Handlers) /\ recoveries \in Seq(Recoveries)
    /\ seen \cup got \cup sent \subseteq 1..MaxEvents
    /\ {last, current} \subseteq Positions /\ {savedId, savedSeq} \subseteq 0..MaxEvents

(* The timeline shows the numbers of a session one after the other, none      *)
(* twice and none skipped, whatever order the events arrive in.               *)
AppliedInOrder ==
    \A i \in 1..(Len(applied) - 1) : applied[i + 1] = applied[i] + 1

(* Once everything published has been delivered and every handler is done,    *)
(* each number that was taken has been applied, unless one of the named       *)
(* causes took an event or its number away.                                   *)
Settled ==
    /\ connected /\ queue = <<>> /\ wire = {} /\ saving = <<>> /\ recoveries = <<>>
    /\ \A p \in Publishers : publisher[p].pc = "idle"
CaughtUp ==
    \A n \in 1..shared \cup 1..local : \E i \in 1..Len(applied) : applied[i] = n
NothingMissed == Settled /\ lost = {} => CaughtUp

(* Without Redis a client that resumes after an event still in the buffer     *)
(* misses none of the events fanned out since, but those that a full queue    *)
(* dropped, unless a recovery moved its position past events on their way.    *)
ResumesSeamlessly ==
    mode = "memory" /\ "misordered" \in lost =>
        lost \cap {"full", "pruned", "jumped"} # {}

(* An event with an offset that a client can name is in the stream.           *)
SeenIsDurable ==
    mode = "streams" /\ ~degraded => \A i \in 1..Len(queue) :
        queue[i].stored => \E j \in 1..Len(stream) : stream[j].id = queue[i].id
=============================================================================
