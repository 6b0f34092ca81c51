------------------------------ MODULE AuditLog ------------------------------
(* AuditEventRepository.append: many threads and processes (requests, cloud   *)
(* task ticks, workers) add events about one session.  Each call runs a       *)
(* Firestore transaction: read the last event, number and hash the new one    *)
(* after it, and create the document named by its number.                     *)
(*                                                                            *)
(* Of Firestore the model assumes only what create() asks for: a commit fails *)
(* if a document of that name exists.  Whether a lost race shows up as        *)
(* Aborted, which the transaction wrapper retries, or as AlreadyExists, which *)
(* it raises, is left open, and so are spurious aborts and lost replies.      *)
EXTENDS Naturals

CONSTANTS
    Calls,        \* calls of append(), each with its own event
    Sessions,
    SessionOf,    \* the session_id a call passes
    MaxAttempts   \* of the transaction wrapper (5 in the library)

ASSUME LogAssumption ==
    /\ SessionOf \in [Calls -> Sessions]
    /\ MaxAttempts \in Nat \ {0}

VARIABLES
    documents,    \* per session: its event documents, by sequence number
    pc,           \* per call: before the read, before the commit, over
    attempt,      \* per call: transaction attempts begun
    read,         \* per call: what its last read of the trail returned
    answer        \* per call: what the caller got

vars == <<documents, pc, attempt, read, answer>>

-----------------------------------------------------------------------------
(* sha256 taken as injective: a hash is the tuple of what it covers.  <<>> is *)
(* the "" that stands for the hash before the first event.                    *)
NoHash == <<>>
Hash(session, sequence, event, previous) == <<session, sequence, event, previous>>

Document(session, sequence, event, previous) ==
    [event         |-> event,
     previous_hash |-> previous,
     event_hash    |-> Hash(session, sequence, event, previous)]

(* order_by("sequence", DESCENDING).limit(1)                                  *)
LastSequence(s) ==
    CHOOSE n \in DOMAIN documents[s] : \A m \in DOMAIN documents[s] : m <= n

NothingRead == [sequence |-> 1, previous_hash |-> NoHash]

TypeOK ==
    /\ \A s \in Sessions : DOMAIN documents[s] \subseteq Nat \ {0}
    /\ \A s \in Sessions : \A n \in DOMAIN documents[s] :
           documents[s][n].event \in Calls
    /\ DOMAIN documents = Sessions
    /\ pc \in [Calls -> {"begin", "read", "over"}]
    /\ attempt \in [Calls -> 0..MaxAttempts]
    /\ DOMAIN read = Calls
    /\ \A c \in Calls : read[c].sequence \in Nat \ {0}
    /\ answer \in [Calls -> {"none", "recorded", "raised"}]
    /\ \A c \in Calls : pc[c] = "over" <=> answer[c] # "none"

Init ==
    /\ documents = [s \in Sessions |-> <<>>]
    /\ pc = [c \in Calls |-> "begin"]
    /\ attempt = [c \in Calls |-> 0]
    /\ read = [c \in Calls |-> NothingRead]
    /\ answer = [c \in Calls |-> "none"]

-----------------------------------------------------------------------------
Answer(c, a) ==
    /\ pc' = [pc EXCEPT ![c] = "over"]
    /\ answer' = [answer EXCEPT ![c] = a]

(* Mutant: on a retry the number is read again and the hash is not.           *)
ReadRenumbering(c) ==
    LET s == SessionOf[c]
    IN  /\ pc[c] = "begin"
        /\ pc' = [pc EXCEPT ![c] = "read"]
        /\ attempt' = [attempt EXCEPT ![c] = @ + 1]
        /\ read' = [read EXCEPT ![c] =
               IF DOMAIN documents[s] = {} THEN NothingRead
               ELSE [sequence      |-> LastSequence(s) + 1,
                     previous_hash |-> IF attempt[c] = 0
                         THEN documents[s][LastSequence(s)].event_hash
                         ELSE read[c].previous_hash]]
        /\ UNCHANGED <<documents, answer>>

(* The body of the transaction; the number and the hash come from one read.   *)
Read(c) ==
    LET s == SessionOf[c]
    IN  /\ pc[c] = "begin"
        /\ pc' = [pc EXCEPT ![c] = "read"]
        /\ attempt' = [attempt EXCEPT ![c] = @ + 1]
        /\ read' = [read EXCEPT ![c] =
               IF DOMAIN documents[s] = {} THEN NothingRead
               ELSE [sequence      |-> LastSequence(s) + 1,
                     previous_hash |-> documents[s][LastSequence(s)].event_hash]]
        /\ UNCHANGED <<documents, answer>>

(* Mutant: txn.set() for txn.create().                                        *)
CreateOverwriting(c) ==
    LET s == SessionOf[c]
        n == read[c].sequence
    IN  documents' = [documents EXCEPT ![s] =
            [m \in DOMAIN documents[s] \cup {n} |->
                IF m = n THEN Document(s, n, c, read[c].previous_hash)
                         ELSE documents[s][m]]]

(* txn.create() of the document named <session>-<sequence>.                   *)
Create(c) ==
    LET s == SessionOf[c]
        n == read[c].sequence
    IN  /\ n \notin DOMAIN documents[s]
        /\ documents' = [documents EXCEPT ![s] =
               [m \in DOMAIN documents[s] \cup {n} |->
                   IF m = n THEN Document(s, n, c, read[c].previous_hash)
                            ELSE documents[s][m]]]

Commit(c) ==
    /\ pc[c] = "read"
    /\ Create(c)
    /\ Answer(c, "recorded")
    /\ UNCHANGED <<attempt, read>>

(* Mutant: a commit whose reply is lost is tried again.                       *)
CommitUnansweredRetrying(c) ==
    /\ pc[c] = "read"
    /\ Create(c)
    /\ attempt[c] < MaxAttempts
    /\ pc' = [pc EXCEPT ![c] = "begin"]
    /\ UNCHANGED <<attempt, read, answer>>

(* The commit is applied and its reply lost: the caller sees an error.        *)
CommitUnanswered(c) ==
    /\ pc[c] = "read"
    /\ Create(c)
    /\ Answer(c, "raised")
    /\ UNCHANGED <<attempt, read>>

(* Mutant: one attempt too many.                                              *)
AbortOnceMore(c) ==
    /\ pc[c] = "read"
    /\ attempt[c] <= MaxAttempts
    /\ pc' = [pc EXCEPT ![c] = "begin"]
    /\ UNCHANGED <<documents, attempt, read, answer>>

(* Aborted: the whole function runs again and reads again.                    *)
Abort(c) ==
    /\ pc[c] = "read"
    /\ attempt[c] < MaxAttempts
    /\ pc' = [pc EXCEPT ![c] = "begin"]
    /\ UNCHANGED <<documents, attempt, read, answer>>

(* Attempts exhausted, AlreadyExists, another API error, or the caller died.  *)
GiveUp(c) ==
    /\ pc[c] # "over"
    /\ Answer(c, "raised")
    /\ UNCHANGED <<documents, attempt, read>>

Next ==
    \E c \in Calls :
        Read(c) \/ Commit(c) \/ CommitUnanswered(c) \/ Abort(c) \/ GiveUp(c)

Spec == Init /\ [][Next]_vars

-----------------------------------------------------------------------------
(* Reading a session's events in order and recomputing the hashes succeeds:   *)
(* the numbers have no gap, every event names the hash of the one before it,  *)
(* and every hash covers its own event.  Racing appends cannot fork a trail.  *)
ChainIntact ==
    \A s \in Sessions : \A n \in DOMAIN documents[s] :
        LET d == documents[s][n]
        IN  /\ d = Document(s, n, d.event, d.previous_hash)
            /\ IF n = 1 THEN d.previous_hash = NoHash
               ELSE /\ n - 1 \in DOMAIN documents[s]
                    /\ d.previous_hash = documents[s][n - 1].event_hash

(* The event of a call that returned is in the trail of its session, and the  *)
(* event of any call is there once at most, however often it was retried.     *)
RecordedOnce ==
    /\ \A c \in Calls : answer[c] = "recorded" =>
           \E n \in DOMAIN documents[SessionOf[c]] :
               documents[SessionOf[c]][n].event = c
    /\ \A s, t \in Sessions :
           \A m \in DOMAIN documents[s], n \in DOMAIN documents[t] :
               documents[s][m].event = documents[t][n].event => s = t /\ m = n

(* The documents implement the trail: every step of a call is a step of the   *)
(* promise or invisible to it.                                                *)
Trail ==
    [s \in Sessions |-> [n \in DOMAIN documents[s] |-> documents[s][n].event]]

Promise == INSTANCE AuditTrail WITH trail <- Trail

ImplementsTrail == Promise!Spec
=============================================================================
