----------------------------- MODULE Broadcaster -----------------------------
(* One instance of realtime/broadcaster.py as one SSE connection sees it:     *)
(* numbering, storing and fanning out events, the replay at registration, and *)
(* Redis Pub/Sub and Streams, which are optional and may fail.                *)
(*                                                                            *)
(* An action runs from one await to the next.  Agents publish from threads of *)
(* their own, each with an event loop of its own, so that without Redis the   *)
(* reading and the writing of a counter are two steps, and that an acquire of *)
(* the one asyncio.Lock may raise when the lock is held under another loop.   *)
(* Where that ends a registration or the listener it is a failure like those  *)
(* the model has; where it ends a fan-out the event is lost ("lock").  Events *)
(* of the session that is watched carry a number; those of other sessions and *)
(* heartbeats (seq = 0) matter only as positions of the stream.               *)
EXTENDS Naturals, Sequences, SequencesExt

CONSTANTS
    Publishers,       \* tasks and threads that publish at a time
    Modes,            \* which of "memory", "pubsub" and "streams" to look at
    QueueSize,        \* BROADCASTER_MAX_QUEUE_SIZE
    ReplaySize,       \* BROADCASTER_REPLAY_BUFFER
    MaxEvents,        \* events published (a bound of the instance)
    MaxFaults         \* failures, and events of others (a bound of the instance)

ASSUME BroadcasterAssumption ==
    /\ Modes \subseteq {"memory", "pubsub", "streams"}
    /\ {QueueSize, ReplaySize, MaxEvents} \subseteq Nat \ {0}
    /\ MaxFaults \in Nat

VARIABLES
    mode,        \* REDIS_PUBSUB_ENABLED ("pubsub") and _STREAMS_ENABLED too
    events,      \* how many events were created: the last event_id
    shared,      \* the counter seq:{session} in Redis
    local,       \* _seq_counters[session]
    publisher,   \* publish() under way: program counter and event
    stream,      \* the Redis Stream
    wire,        \* events on their way through the channel
    listening,   \* the subscriber loop has a subscription
    degraded,    \* _degraded_mode
    replay,      \* _replay_buffer
    sub,         \* the subscriber: "none", "live" or "pruned"
    queue,       \* its asyncio.Queue
    sent,        \* ids fanned out (history)
    lost,        \* why the client may miss a number (history)
    faults       \* how many failures and events of others there were

bVars == <<mode, events, shared, local, publisher, stream, wire, listening,
           degraded, replay, sub, queue, sent, lost, faults>>

Redis == mode # "memory"
Events == [id : 1..MaxEvents, seq : 0..MaxEvents, stored : BOOLEAN]
Quiet == [pc |-> "idle", event |-> [id |-> 1, seq |-> 0, stored |-> FALSE]]

Causes == {"number", "oversized", "unstored", "full", "pruned", "evicted",
           "misordered", "recovery", "jumped", "restart", "lock", "first", "torn"}
Loses(why) == lost' = lost \cup {why}
Fault == faults < MaxFaults /\ faults' = faults + 1

(* The Redis Stream gives every entry an id of its own, a second name for the *)
(* position of its event.                                                     *)
OffsetOf(e) == MaxEvents + e.id
EventAt(position) == IF position > MaxEvents THEN position - MaxEvents ELSE position

At(p, pc, e) == publisher' = [publisher EXCEPT ![p] = [pc |-> pc, event |-> e]]

(* deque(maxlen): the newest n entries.                                       *)
Newest(s, n) == IF Len(s) > n THEN SubSeq(s, Len(s) - n + 1, Len(s)) ELSE s

(* What follows the first entry of s with this id; all of it for no id.       *)
After(s, id) ==
    IF id = 0 THEN s
    ELSE LET found == {i \in 1..Len(s) : s[i].id = id} IN
         IF found = {} THEN <<>>
         ELSE SubSeq(s, (CHOOSE i \in found : \A j \in found : i <= j) + 1, Len(s))

-----------------------------------------------------------------------------
(* publish(): Redis numbers the event; without it, or when INCR fails, a      *)
(* local counter does.                                                        *)
Publish(p, mine) ==
    LET e == [id |-> events + 1, seq |-> 0, stored |-> FALSE] IN
    /\ publisher[p].pc = "idle" /\ events < MaxEvents
    /\ events' = events + 1
    /\ \/ ~mine /\ Fault /\ At(p, "numbered", e) /\ UNCHANGED <<shared, lost>>
       \/ /\ mine /\ Redis
          /\ shared' = shared + 1
          /\ At(p, "numbered", [e EXCEPT !.seq = shared + 1])
          /\ UNCHANGED <<faults, lost>>
       \/ /\ mine /\ At(p, "counting", [e EXCEPT !.seq = local + 1])
          /\ IF Redis THEN Fault /\ Loses("number") ELSE UNCHANGED <<faults, lost>>
          /\ UNCHANGED shared
    /\ UNCHANGED <<mode, local, stream, wire, listening, degraded, replay, sub,
                   queue, sent>>

(* The second of two threads that read one value gives its number again.      *)
Count(p) ==
    LET e == publisher[p].event IN
    /\ publisher[p].pc = "counting"
    /\ local' = e.seq
    /\ IF local >= e.seq THEN Loses("number") ELSE UNCHANGED lost
    /\ At(p, "numbered", e)
    /\ UNCHANGED <<mode, events, shared, stream, wire, listening, degraded, replay,
                   sub, queue, sent, faults>>

(* The size is tested after the number was taken.  (One without a number      *)
(* leaves no trace.)                                                          *)
RejectOversized(p) ==
    /\ publisher[p].pc = "numbered" /\ Fault
    /\ publisher[p].event.seq # 0 /\ Loses("oversized")
    /\ publisher' = [publisher EXCEPT ![p] = Quiet]
    /\ UNCHANGED <<mode, events, shared, local, stream, wire, listening, degraded,
                   replay, sub, queue, sent>>

(* Mutant: the append to the stream is left to a task of its own.             *)
StoreLater(p) ==
    /\ publisher[p].pc = "numbered"
    /\ At(p, "stored", [publisher[p].event EXCEPT !.stored = TRUE])
    /\ UNCHANGED <<mode, events, shared, local, stream, wire, listening, degraded,
                   replay, sub, queue, sent, lost, faults>>

(* store.append(): the stream, or memory, which nothing reads back.  A failed *)
(* XADD is logged and the event goes on without an offset.                    *)
Store(p) ==
    LET e == publisher[p].event IN
    /\ publisher[p].pc = "numbered"
    /\ \/ /\ stream' = IF mode = "streams" /\ ~degraded
                       THEN Append(stream, e) ELSE stream
          /\ At(p, "stored", [e EXCEPT !.stored = TRUE])
          /\ IF mode = "streams" /\ degraded
             THEN Loses("unstored") ELSE UNCHANGED lost
          /\ UNCHANGED faults
       \/ /\ mode = "streams" /\ ~degraded /\ Fault /\ Loses("unstored")
          /\ At(p, "stored", e) /\ UNCHANGED stream
    /\ UNCHANGED <<mode, events, shared, local, wire, listening, degraded, replay,
                   sub, queue, sent>>

(* Mutant: an event with nobody to receive it is not kept for replay.         *)
FanoutRawToLive(e) ==
    /\ replay' = IF sub = "live" THEN Newest(Append(replay, e), ReplaySize) ELSE replay
    /\ sent' = sent \cup {e.id}
    /\ IF sub = "live" /\ Len(queue) < QueueSize
       THEN queue' = Append(queue, e) /\ UNCHANGED lost
       ELSE /\ UNCHANGED queue
            /\ IF sub # "none" THEN Loses(IF sub = "live" THEN "full" ELSE "pruned")
               ELSE UNCHANGED lost

(* Mutant: the queue of a subscriber has no bound.                            *)
FanoutRawUnbounded(e) ==
    /\ replay' = Newest(Append(replay, e), ReplaySize)
    /\ sent' = sent \cup {e.id}
    /\ queue' = IF sub = "live" THEN Append(queue, e) ELSE queue
    /\ UNCHANGED lost

(* _fanout_raw(): under the lock, into the replay buffer and the queues; a    *)
(* full queue drops the event.                                                *)
FanoutRaw(e) ==
    /\ replay' = Newest(Append(replay, e), ReplaySize)
    /\ sent' = sent \cup {e.id}
    /\ IF sub = "live" /\ Len(queue) < QueueSize
       THEN queue' = Append(queue, e) /\ UNCHANGED lost
       ELSE /\ UNCHANGED queue
            /\ IF sub # "none" THEN Loses(IF sub = "live" THEN "full" ELSE "pruned")
               ELSE UNCHANGED lost

(* The task that publishes to the channel is cancelled when it belongs to the *)
(* loop of a thread that ends first.                                          *)
Fanout(p) ==
    LET e == publisher[p].event IN
    /\ publisher[p].pc = "stored"
    /\ \/ UNCHANGED wire
       \/ Redis /\ ~degraded /\ wire' = wire \cup {e}
    /\ \/ FanoutRaw(e) /\ UNCHANGED faults
       \/ Fault /\ Loses("lock") /\ UNCHANGED <<replay, sent, queue>>
    /\ publisher' = [publisher EXCEPT ![p] = Quiet]
    /\ UNCHANGED <<mode, events, shared, local, stream, listening, degraded, sub>>

(* The instance hears its own events again and fans them out again; what is   *)
(* published while it does not listen is gone.                                *)
Receive(e) ==
    /\ e \in wire /\ wire' = wire \ {e}
    /\ IF listening THEN FanoutRaw(e) ELSE UNCHANGED <<replay, sent, queue, lost>>
    /\ UNCHANGED <<mode, events, shared, local, publisher, stream, listening,
                   degraded, sub, faults>>

(* The subscriber loop fails, subscribes again, or after its fourth failure   *)
(* in a row degrades the instance, from which only start() would bring it     *)
(* back.                                                                      *)
ListenerFails ==
    /\ Redis /\ listening /\ Fault
    /\ listening' = FALSE
    /\ UNCHANGED <<mode, events, shared, local, publisher, stream, wire, degraded,
                   replay, sub, queue, sent, lost>>

ListenerRecovers ==
    /\ Redis /\ ~listening
    /\ listening' = TRUE
    /\ UNCHANGED <<mode, events, shared, local, publisher, stream, wire, degraded,
                   replay, sub, queue, sent, lost, faults>>

Degrade ==
    /\ Redis /\ ~listening /\ ~degraded
    /\ degraded' = TRUE
    /\ UNCHANGED <<mode, events, shared, local, publisher, stream, wire, listening,
                   replay, sub, queue, sent, lost, faults>>

(* _prune_inactive(): a subscriber that got nothing for four heartbeats is    *)
(* forgotten; only a full queue makes that happen.                            *)
PruneInactive ==
    /\ sub = "live" /\ Len(queue) = QueueSize /\ Fault
    /\ sub' = "pruned"
    /\ UNCHANGED <<mode, events, shared, local, publisher, stream, wire, listening,
                   degraded, replay, queue, sent, lost>>

(* The events that have an offset.                                            *)
StoredOnly(items) ==
    LET F[n \in 0..Len(items)] ==
            IF n = 0 THEN <<>>
            ELSE IF items[n].stored THEN Append(F[n - 1], items[n]) ELSE F[n - 1] IN
    F[Len(items)]

(* register(): under the lock, the replay and the subscription in one.  The   *)
(* stream is asked first, the buffer when the stream has nothing to offer;    *)
(* all of the buffer is offered when reading the stream failed.               *)
Replayed(last, failed) ==
    LET kept == After(Newest(stream, ReplaySize), EventAt(last))
        buffered == After(replay, last) IN
    IF failed THEN replay
    ELSE IF mode # "streams" THEN buffered
    ELSE IF last # 0 /\ kept = <<>> THEN StoredOnly(buffered)
    ELSE kept

Known(last) ==
    \/ \E i \in 1..Len(replay) : replay[i].id = last
    \/ mode = "streams" /\ \E i \in 1..Len(stream) : stream[i].id = EventAt(last)

(* What was fanned out before, is not replayed and not among the ids got.     *)
Missed(last, got, failed) ==
    LET items == Replayed(last, failed) IN
    {id \in sent \ got : \A i \in 1..Len(items) : items[i].id # id}

Register(last, got, failed) ==
    LET items == Replayed(last, failed)
        offered == SubSeq(items, 1, QueueSize)
        missed == Missed(last, got, failed) IN
    /\ IF failed THEN mode = "streams" /\ Fault ELSE UNCHANGED faults
    /\ sub' = "live"
    /\ queue' = IF Len(items) > QueueSize THEN offered ELSE items
    /\ lost' = lost \cup (IF Len(items) > QueueSize THEN {"full"} ELSE {})
                    \cup (IF missed = {} THEN {}
                          ELSE {IF Known(last) THEN "misordered" ELSE "evicted"})
    /\ UNCHANGED <<mode, events, shared, local, publisher, stream, wire, listening,
                   degraded, replay, sent>>

Unregister ==
    /\ sub' = "none" /\ queue' = <<>>
    /\ UNCHANGED <<mode, events, shared, local, publisher, stream, wire, listening,
                   degraded, replay, sent, faults>>

-----------------------------------------------------------------------------
BInit ==
    /\ mode \in Modes
    /\ events = 0 /\ shared = 0 /\ local = 0 /\ faults = 0
    /\ publisher = [p \in Publishers |-> Quiet]
    /\ stream = <<>> /\ wire = {} /\ replay = <<>> /\ queue = <<>>
    /\ listening = TRUE /\ degraded = FALSE
    /\ sub = "none" /\ sent = {} /\ lost = {}

BNext ==
    \/ \E p \in Publishers :
        \/ \E mine \in BOOLEAN : Publish(p, mine)
        \/ Count(p) \/ RejectOversized(p) \/ Store(p) \/ Fanout(p)
    \/ \E e \in wire : Receive(e)
    \/ ListenerFails \/ ListenerRecovers \/ Degrade \/ PruneInactive
=============================================================================
