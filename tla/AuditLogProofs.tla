--------------------------- MODULE AuditLogProofs ---------------------------
(* The audit trail, for any number of sessions, concurrent calls, retries and *)
(* failures.                                                                  *)
EXTENDS AuditLog, Sequences, SequenceTheorems, TLAPS

-----------------------------------------------------------------------------
(* Every variable stays in its type; documents and read are functions.        *)
Shape ==
    /\ TypeOK
    /\ documents = [s \in Sessions |-> documents[s]]
    /\ \A s \in Sessions :
           documents[s] = [n \in DOMAIN documents[s] |-> documents[s][n]]
    /\ read = [c \in Calls |-> read[c]]

(* The events of a session are numbered 1..k.                                 *)
Gapless ==
    \A s \in Sessions : \E k \in Nat : DOMAIN documents[s] = 1..k

(* What a call has read is still there when it commits, although it may no    *)
(* longer be the last event.                                                  *)
ReadsStand ==
    \A c \in Calls : pc[c] = "read" =>
        LET s == SessionOf[c]
            n == read[c].sequence
        IN  IF n = 1 THEN read[c].previous_hash = NoHash
            ELSE /\ n - 1 \in DOMAIN documents[s]
                 /\ read[c].previous_hash = documents[s][n - 1].event_hash

(* An event is in its own session's trail, and only after its call is over.   *)
EventsOwned ==
    \A s \in Sessions : \A n \in DOMAIN documents[s] :
        LET c == documents[s][n].event
        IN  SessionOf[c] = s /\ pc[c] = "over"

AttemptsLeft == \A c \in Calls : pc[c] = "begin" => attempt[c] < MaxAttempts

IInv == Shape /\ AttemptsLeft /\ Gapless /\ ReadsStand /\ EventsOwned
        /\ ChainIntact /\ RecordedOnce

-----------------------------------------------------------------------------
LEMMA LastIsLast ==
    ASSUME Gapless, NEW s \in Sessions, DOMAIN documents[s] # {}
    PROVE  /\ LastSequence(s) \in DOMAIN documents[s]
           /\ LastSequence(s) \in Nat \ {0}
<1>1. PICK k \in Nat : DOMAIN documents[s] = 1..k
  BY DEF Gapless
<1>2. k \in DOMAIN documents[s] /\ \A m \in DOMAIN documents[s] : m <= k
  BY <1>1
<1>3. LastSequence(s) \in DOMAIN documents[s]
  BY <1>2 DEF LastSequence
<1>4. QED BY <1>1, <1>3

(* A document is only ever created right after the last one of its session,   *)
(* and leaves all others as they are.                                         *)
LEMMA CreateAppends ==
    ASSUME IInv, NEW c \in Calls, pc[c] = "read", Create(c)
    PROVE  LET s == SessionOf[c]
               n == read[c].sequence
           IN  /\ s \in Sessions
               /\ n \in Nat \ {0}
               /\ n \notin DOMAIN documents[s]
               /\ DOMAIN documents[s] = 1..n - 1
               /\ DOMAIN documents'[s] = 1..n
               /\ documents'[s][n] = Document(s, n, c, read[c].previous_hash)
               /\ \A m \in 1..n - 1 : documents'[s][m] = documents[s][m]
               /\ \A t \in Sessions \ {s} : documents'[t] = documents[t]
               /\ documents' = [t \in Sessions |-> documents'[t]]
               /\ documents'[s] = [m \in DOMAIN documents'[s] |-> documents'[s][m]]
<1> DEFINE s == SessionOf[c]
           n == read[c].sequence
<1>1. s \in Sessions /\ n \in Nat \ {0} /\ n \notin DOMAIN documents[s]
  BY LogAssumption DEF LogAssumption, IInv, Shape, TypeOK, Create
<1>2. PICK k \in Nat : DOMAIN documents[s] = 1..k
  BY <1>1 DEF IInv, Gapless
<1>3. n = 1 \/ n - 1 \in DOMAIN documents[s]
  BY DEF IInv, ReadsStand
<1>4. DOMAIN documents[s] = 1..n - 1
  BY <1>1, <1>2, <1>3
<1>5. documents'[s] = [m \in DOMAIN documents[s] \cup {n} |->
                          IF m = n THEN Document(s, n, c, read[c].previous_hash)
                                   ELSE documents[s][m]]
  BY <1>1 DEF IInv, Shape, Create
<1>6. /\ \A t \in Sessions \ {s} : documents'[t] = documents[t]
      /\ documents' = [t \in Sessions |-> documents'[t]]
  <2> DEFINE new == [m \in DOMAIN documents[s] \cup {n} |->
                        IF m = n THEN Document(s, n, c, read[c].previous_hash)
                                 ELSE documents[s][m]]
  <2>1. documents' = [documents EXCEPT ![s] = new]
    BY DEF Create
  <2>2. DOMAIN documents = Sessions
    BY DEF IInv, Shape, TypeOK
  <2> HIDE DEF new, s
  <2>3. documents' = [t \in Sessions |-> IF t = s THEN new ELSE documents[t]]
    BY <2>1, <2>2
  <2>4. QED BY <2>3
<1>7. DOMAIN documents'[s] = 1..n
  BY <1>1, <1>4, <1>5
<1>8. /\ documents'[s][n] = Document(s, n, c, read[c].previous_hash)
      /\ \A m \in 1..n - 1 : documents'[s][m] = documents[s][m]
  BY <1>1, <1>4, <1>5
<1>9. documents'[s] = [m \in DOMAIN documents'[s] |-> documents'[s][m]]
  BY <1>5
<1>10. QED BY <1>1, <1>4, <1>6, <1>7, <1>8, <1>9

-----------------------------------------------------------------------------
LEMMA InitIInv == Init => IInv
<1> SUFFICES ASSUME Init PROVE IInv
  OBVIOUS
<1> USE LogAssumption DEF LogAssumption, Init
<1>1. Shape
  BY DEF Shape, TypeOK, NothingRead
<1>2. Gapless
  <2>1. \A s \in Sessions : DOMAIN documents[s] = 1..0
    OBVIOUS
  <2>2. QED BY <2>1 DEF Gapless
<1>3. ReadsStand /\ EventsOwned /\ ChainIntact /\ RecordedOnce /\ AttemptsLeft
  BY DEF AttemptsLeft, ReadsStand, EventsOwned, ChainIntact, RecordedOnce
<1>4. QED BY <1>1, <1>2, <1>3 DEF IInv

(* A step that writes no document and answers no call "recorded".             *)
LEMMA ReadKeepsIInv ==
    ASSUME IInv, NEW c \in Calls, Read(c)
    PROVE  IInv'
<1> USE LogAssumption DEF LogAssumption
<1> DEFINE s == SessionOf[c]
<1>1. s \in Sessions
  OBVIOUS
<1>2. /\ read'[c].sequence \in Nat \ {0}
      /\ IF read'[c].sequence = 1 THEN read'[c].previous_hash = NoHash
         ELSE /\ read'[c].sequence - 1 \in DOMAIN documents[s]
              /\ read'[c].previous_hash
                     = documents[s][read'[c].sequence - 1].event_hash
  <2>1. CASE DOMAIN documents[s] = {}
    BY <2>1 DEF Read, NothingRead, IInv, Shape, TypeOK
  <2>2. CASE DOMAIN documents[s] # {}
    <3>1. LastSequence(s) \in DOMAIN documents[s] /\ LastSequence(s) \in Nat \ {0}
      BY <1>1, <2>2, LastIsLast DEF IInv
    <3>2. read'[c] = [sequence      |-> LastSequence(s) + 1,
                      previous_hash |-> documents[s][LastSequence(s)].event_hash]
      BY <2>2 DEF Read, IInv, Shape, TypeOK
    <3>3. QED BY <3>1, <3>2
  <2>3. QED BY <2>1, <2>2
<1>3. \A d \in Calls \ {c} : read'[d] = read[d] /\ pc'[d] = pc[d]
  BY DEF Read, IInv, Shape, TypeOK
<1>4. Shape'
  <2>1. read' = [d \in Calls |-> read'[d]]
    BY DEF Read, IInv, Shape, TypeOK
  <2>2. attempt' \in [Calls -> 0..MaxAttempts]
    BY DEF Read, IInv, Shape, TypeOK, AttemptsLeft
  <2>3. \A d \in Calls : read'[d].sequence \in Nat \ {0}
    BY <1>2, <1>3 DEF IInv, Shape, TypeOK
  <2>4. DOMAIN read' = Calls
    BY DEF Read, IInv, Shape, TypeOK
  <2>5. TypeOK'
    BY <2>2, <2>3, <2>4 DEF Read, IInv, Shape, TypeOK
  <2>6. QED BY <2>1, <2>5 DEF Read, IInv, Shape
<1>5. ReadsStand'
  BY <1>2, <1>3 DEF Read, IInv, ReadsStand
<1>6. EventsOwned'
  BY DEF Read, IInv, EventsOwned, Shape, TypeOK
<1>7. Gapless' /\ ChainIntact' /\ RecordedOnce'
  BY DEF Read, IInv, Gapless, ChainIntact, RecordedOnce
<1>8. AttemptsLeft'
  BY <1>3 DEF Read, IInv, AttemptsLeft, Shape, TypeOK
<1>9. QED BY <1>4, <1>5, <1>6, <1>7, <1>8 DEF IInv

LEMMA FailureKeepsIInv ==
    ASSUME IInv, NEW c \in Calls, Abort(c) \/ GiveUp(c)
    PROVE  IInv'
<1>1. Shape'
  BY DEF Abort, GiveUp, Answer, IInv, Shape, TypeOK
<1>2. ReadsStand'
  BY DEF Abort, GiveUp, Answer, IInv, ReadsStand, Shape, TypeOK
<1>3. EventsOwned'
  BY DEF Abort, GiveUp, Answer, IInv, EventsOwned, Shape, TypeOK
<1>4. Gapless' /\ ChainIntact'
  BY DEF Abort, GiveUp, IInv, Gapless, ChainIntact
<1>5. RecordedOnce'
  <2>1. \A d \in Calls : answer'[d] = "recorded" => answer[d] = "recorded"
    BY DEF Abort, GiveUp, Answer, IInv, Shape, TypeOK
  <2>2. UNCHANGED documents
    BY DEF Abort, GiveUp
  <2>3. QED BY <2>1, <2>2 DEF IInv, RecordedOnce
<1>6. AttemptsLeft'
  BY DEF Abort, GiveUp, Answer, IInv, AttemptsLeft, Shape, TypeOK
<1>7. QED BY <1>1, <1>2, <1>3, <1>4, <1>5, <1>6 DEF IInv

LEMMA CreateKeepsIInv ==
    ASSUME IInv, NEW c \in Calls, Commit(c) \/ CommitUnanswered(c)
    PROVE  IInv'
<1> DEFINE s == SessionOf[c]
           n == read[c].sequence
<1>1. pc[c] = "read" /\ Create(c) /\ read' = read /\ attempt' = attempt
  BY DEF Commit, CommitUnanswered
<1>2. /\ s \in Sessions
      /\ n \in Nat \ {0}
      /\ n \notin DOMAIN documents[s]
      /\ DOMAIN documents[s] = 1..n - 1
      /\ DOMAIN documents'[s] = 1..n
      /\ documents'[s][n] = Document(s, n, c, read[c].previous_hash)
      /\ \A m \in 1..n - 1 : documents'[s][m] = documents[s][m]
      /\ \A t \in Sessions \ {s} : documents'[t] = documents[t]
      /\ documents' = [t \in Sessions |-> documents'[t]]
      /\ documents'[s] = [m \in DOMAIN documents'[s] |-> documents'[s][m]]
  BY <1>1, CreateAppends
<1>3. /\ pc'[c] = "over" /\ answer'[c] \in {"recorded", "raised"}
      /\ \A d \in Calls \ {c} : pc'[d] = pc[d] /\ answer'[d] = answer[d]
      /\ pc' \in [Calls -> {"begin", "read", "over"}]
      /\ answer' \in [Calls -> {"none", "recorded", "raised"}]
  BY DEF Commit, CommitUnanswered, Answer, IInv, Shape, TypeOK
<1>4. /\ documents'[s][n].event = c
      /\ documents'[s][n].previous_hash = read[c].previous_hash
      /\ documents'[s][n].event_hash = Hash(s, n, c, read[c].previous_hash)
  BY <1>2 DEF Document
<1> HIDE DEF s, n
<1>a. ASSUME NEW t \in Sessions, NEW m \in DOMAIN documents'[t]
      PROVE  \/ t = s /\ m = n
             \/ /\ m \in DOMAIN documents[t]
                /\ documents'[t][m] = documents[t][m]
  <2>1. CASE t = s
    <3>1. m = n \/ m \in 1..n - 1
      BY <1>2, <2>1
    <3>2. QED BY <1>2, <2>1, <3>1
  <2>2. CASE t # s
    BY <1>2, <2>2
  <2>3. QED BY <2>1, <2>2
<1>b. \A t \in Sessions : \A m \in DOMAIN documents[t] :
          m \in DOMAIN documents'[t] /\ documents'[t][m] = documents[t][m]
  BY <1>2
<1>5. Shape'
  <2>1. \A t \in Sessions : DOMAIN documents'[t] \subseteq Nat \ {0}
    <3>1. DOMAIN documents'[s] \subseteq Nat \ {0}
      BY <1>2
    <3>2. QED BY <1>2, <3>1 DEF IInv, Shape, TypeOK
  <2>2. \A t \in Sessions : \A m \in DOMAIN documents'[t] : documents'[t][m].event \in Calls
    BY <1>2, <1>4, <1>a DEF IInv, Shape, TypeOK
  <2>3. DOMAIN documents' = Sessions
    BY <1>2
  <2>4. \A d \in Calls : pc'[d] = "over" <=> answer'[d] # "none"
    BY <1>3 DEF IInv, Shape, TypeOK
  <2>5. TypeOK'
    BY <1>1, <1>3, <2>1, <2>2, <2>3, <2>4 DEF IInv, Shape, TypeOK
  <2>6. \A t \in Sessions :
            documents'[t] = [m \in DOMAIN documents'[t] |-> documents'[t][m]]
    BY <1>2 DEF IInv, Shape
  <2>7. QED BY <1>1, <1>2, <2>5, <2>6 DEF IInv, Shape
<1>6. Gapless'
  BY <1>2 DEF IInv, Gapless
<1>7. ReadsStand'
  <2>1. SUFFICES ASSUME NEW d \in Calls, pc[d] = "read", read[d].sequence # 1
                 PROVE  LET t == SessionOf[d]
                            m == read[d].sequence
                        IN  /\ m - 1 \in DOMAIN documents'[t]
                            /\ read[d].previous_hash = documents'[t][m - 1].event_hash
    BY <1>1, <1>3 DEF IInv, ReadsStand
  <2>2. SessionOf[d] \in Sessions
    BY LogAssumption DEF LogAssumption
  <2>3. QED BY <1>b, <2>1, <2>2 DEF IInv, ReadsStand
<1>8. EventsOwned'
  BY <1>3, <1>4, <1>a DEF IInv, EventsOwned, Shape, TypeOK, s
<1>9. ChainIntact'
  <2>1. SUFFICES ASSUME NEW t \in Sessions, NEW m \in DOMAIN documents'[t]
                 PROVE  LET d == documents'[t][m]
                        IN  /\ d = Document(t, m, d.event, d.previous_hash)
                            /\ IF m = 1 THEN d.previous_hash = NoHash
                               ELSE /\ m - 1 \in DOMAIN documents'[t]
                                    /\ d.previous_hash = documents'[t][m - 1].event_hash
    BY DEF ChainIntact
  <2>2. CASE t = s /\ m = n
    <3>1. documents'[t][m] = Document(t, m, c, read[c].previous_hash)
      BY <1>2, <2>2
    <3>2. IF n = 1 THEN read[c].previous_hash = NoHash
          ELSE /\ n - 1 \in DOMAIN documents[s]
               /\ read[c].previous_hash = documents[s][n - 1].event_hash
      BY <1>1 DEF IInv, ReadsStand, s, n
    <3>3. IF n = 1 THEN read[c].previous_hash = NoHash
          ELSE /\ n - 1 \in DOMAIN documents'[s]
               /\ read[c].previous_hash = documents'[s][n - 1].event_hash
      BY <1>2, <1>b, <3>2
    <3>4. QED BY <1>4, <2>2, <3>1, <3>3
  <2>3. CASE m \in DOMAIN documents[t] /\ documents'[t][m] = documents[t][m]
    BY <1>b, <2>3 DEF IInv, ChainIntact
  <2>4. QED BY <1>a, <2>2, <2>3
<1>10. RecordedOnce'
  <2>1. ASSUME NEW d \in Calls, answer'[d] = "recorded"
        PROVE  \E m \in DOMAIN documents'[SessionOf[d]] :
                   documents'[SessionOf[d]][m].event = d
    <3>1. CASE d = c
      BY <1>2, <1>4, <3>1 DEF s
    <3>2. CASE d # c
      BY <1>3, <1>b, <2>1, <3>2, LogAssumption DEF IInv, RecordedOnce, LogAssumption
    <3>3. QED BY <3>1, <3>2
  <2>2. ASSUME NEW t \in Sessions, NEW m \in DOMAIN documents[t]
        PROVE  documents[t][m].event # c
    BY <1>1 DEF IInv, EventsOwned
  <2>3. QED BY <1>4, <1>a, <2>1, <2>2 DEF IInv, RecordedOnce
<1>11. AttemptsLeft'
  BY <1>1, <1>3 DEF IInv, AttemptsLeft
<1>12. QED BY <1>5, <1>6, <1>7, <1>8, <1>9, <1>10, <1>11 DEF IInv

LEMMA Invariance == Spec => []IInv
<1>1. IInv /\ [Next]_vars => IInv'
  <2> SUFFICES ASSUME IInv, [Next]_vars PROVE IInv'
    OBVIOUS
  <2>1. CASE UNCHANGED vars
    <3> USE <2>1 DEF vars, IInv
    <3>1. Shape' BY DEF Shape, TypeOK
    <3>2. AttemptsLeft' BY DEF AttemptsLeft
    <3>3. Gapless' BY DEF Gapless
    <3>4. ReadsStand' BY DEF ReadsStand
    <3>5. EventsOwned' BY DEF EventsOwned
    <3>6. ChainIntact' BY DEF ChainIntact
    <3>7. RecordedOnce' BY DEF RecordedOnce
    <3>8. QED BY <3>1, <3>2, <3>3, <3>4, <3>5, <3>6, <3>7
  <2>2. CASE Next
    BY <2>2, ReadKeepsIInv, FailureKeepsIInv, CreateKeepsIInv DEF Next
  <2>3. QED BY <2>1, <2>2
<1>2. QED BY <1>1, InitIInv, PTL DEF Spec

-----------------------------------------------------------------------------
(* Trails, reads and answers stay in their types, and a call has an answer    *)
(* exactly when it is over.                                                   *)
THEOREM TypeCorrect == Spec => []TypeOK
<1>1. IInv => TypeOK
  BY DEF IInv, Shape
<1>2. QED BY <1>1, Invariance, PTL

(* However calls race, retry and fail, every trail is a gapless hash chain.   *)
THEOREM ChainIntactHolds == Spec => []ChainIntact
<1>1. IInv => ChainIntact
  BY DEF IInv
<1>2. QED BY <1>1, Invariance, PTL

(* An answered event is in its trail, and no event is in a trail twice.       *)
THEOREM RecordedOnceHolds == Spec => []RecordedOnce
<1>1. IInv => RecordedOnce
  BY DEF IInv
<1>2. QED BY <1>1, Invariance, PTL

(* OPERATIONS_AND_RUNTIME.md:185, "audit events are append-only": an event,   *)
(* once written, is never replaced or removed.                                *)
AppendOnly ==
    [][\A s \in Sessions : \A n \in DOMAIN documents[s] :
           /\ n \in DOMAIN documents'[s]
           /\ documents'[s][n] = documents[s][n]]_documents

(* No step replaces or removes an event.                                      *)
THEOREM AppendOnlyHolds == Spec => AppendOnly
<1>1. IInv /\ [Next]_vars =>
        [\A s \in Sessions : \A n \in DOMAIN documents[s] :
             /\ n \in DOMAIN documents'[s]
             /\ documents'[s][n] = documents[s][n]]_documents
  <2> SUFFICES ASSUME IInv, [Next]_vars,
                      NEW s \in Sessions, NEW n \in DOMAIN documents[s]
               PROVE  n \in DOMAIN documents'[s] /\ documents'[s][n] = documents[s][n]
    OBVIOUS
  <2>1. CASE UNCHANGED documents
    BY <2>1
  <2>2. ASSUME NEW c \in Calls, pc[c] = "read", Create(c)
        PROVE  n \in DOMAIN documents'[s] /\ documents'[s][n] = documents[s][n]
    <3>1. CASE s = SessionOf[c]
      <4> DEFINE last == read[c].sequence
      <4>1. /\ last \in Nat \ {0}
            /\ DOMAIN documents[s] = 1..last - 1
            /\ DOMAIN documents'[s] = 1..last
            /\ \A m \in 1..last - 1 : documents'[s][m] = documents[s][m]
        BY <2>2, <3>1, CreateAppends
      <4> HIDE DEF last
      <4>2. QED BY <4>1
    <3>2. CASE s # SessionOf[c]
      BY <2>2, <3>2, CreateAppends
    <3>3. QED BY <3>1, <3>2
  <2>3. QED
    BY <2>1, <2>2 DEF Next, Read, Commit, CommitUnanswered, Abort, GiveUp, vars
<1>2. QED BY <1>1, Invariance, PTL DEF Spec, AppendOnly

-----------------------------------------------------------------------------
(* A create is an Append to the list the promise speaks of.                   *)
LEMMA CreateExtends ==
    ASSUME IInv, NEW c \in Calls, pc[c] = "read", Create(c)
    PROVE  Trail' = [Trail EXCEPT ![SessionOf[c]] = Append(@, c)]
<1> DEFINE s == SessionOf[c]
           n == read[c].sequence
           old == [m \in 1..n - 1 |-> documents[s][m].event]
<1>1. /\ s \in Sessions
      /\ n \in Nat \ {0}
      /\ DOMAIN documents[s] = 1..n - 1
      /\ DOMAIN documents'[s] = 1..n
      /\ documents'[s][n] = Document(s, n, c, read[c].previous_hash)
      /\ \A m \in 1..n - 1 : documents'[s][m] = documents[s][m]
      /\ \A t \in Sessions \ {s} : documents'[t] = documents[t]
  BY CreateAppends
<1>2. Trail[s] = old
  BY <1>1 DEF Trail
<1>3. \A m \in 1..n - 1 : documents[s][m].event \in Calls
  BY <1>1 DEF IInv, Shape, TypeOK
<1>4. Trail'[s] = [m \in 1..n |-> documents'[s][m].event]
  BY <1>1 DEF Trail
<1>5. \A m \in 1..n : documents'[s][m].event = IF m = n THEN c ELSE documents[s][m].event
  <2> HIDE DEF s, n
  <2>1. SUFFICES ASSUME NEW m \in 1..n
                 PROVE  documents'[s][m].event = IF m = n THEN c ELSE documents[s][m].event
    OBVIOUS
  <2>2. CASE m = n
    BY <1>1, <2>2 DEF Document
  <2>3. CASE m # n
    <3>1. m \in 1..n - 1
      BY <1>1, <2>3
    <3>2. QED BY <1>1, <2>3, <3>1
  <2>4. QED BY <2>2, <2>3
<1>6. [m \in 1..n |-> documents'[s][m].event] = Append(old, c)
  <2> HIDE DEF s, n
  <2>1. old \in Seq(Calls) /\ Len(old) = n - 1
    BY <1>1, <1>3
  <2>2. Append(old, c) \in Seq(Calls) /\ Len(Append(old, c)) = n
    BY <1>1, <2>1
  <2>3. \A m \in 1..n : Append(old, c)[m] = IF m = n THEN c ELSE documents[s][m].event
    BY <1>1, <2>1
  <2>4. Append(old, c) = [m \in 1..n |-> Append(old, c)[m]]
    <3>1. Append(old, c) \in [1..n -> Calls]
      BY <2>2, LenProperties
    <3>2. QED BY <3>1
  <2>5. QED BY <1>5, <2>3, <2>4
<1>7. \A t \in Sessions \ {s} : Trail'[t] = Trail[t]
  BY <1>1 DEF Trail
<1>8. DOMAIN Trail = Sessions /\ DOMAIN Trail' = Sessions
  BY DEF Trail
<1>9. Trail' = [t \in Sessions |-> Trail'[t]]
  BY DEF Trail
<1>10. Trail = [t \in Sessions |-> Trail[t]]
  BY DEF Trail
<1> DEFINE new == [Trail EXCEPT ![s] = Append(@, c)]
<1>11. new = [t \in Sessions |-> IF t = s THEN Append(old, c) ELSE Trail[t]]
  <2> HIDE DEF s, old
  <2>1. new = [t \in DOMAIN Trail |-> IF t = s THEN Append(Trail[s], c) ELSE Trail[t]]
    BY <1>10
  <2>2. QED BY <1>2, <1>8, <2>1
<1>12. \A t \in Sessions : Trail'[t] = new[t]
  <2> HIDE DEF s, old, new
  <2>1. Trail'[s] = Append(old, c)
    BY <1>4, <1>6
  <2>2. QED BY <1>7, <1>11, <2>1
<1> HIDE DEF new
<1>13. Trail' = new
  BY <1>9, <1>11, <1>12
<1>14. QED BY <1>13 DEF new

(* The repository keeps the promise of AuditTrail: a step of a call is an     *)
(* atomic append, a failure with or without one, or nothing a caller sees.    *)
THEOREM ImplementsTrailHolds == Spec => ImplementsTrail
<1>1. Init => Promise!Init
  BY DEF Init, Promise!Init, Trail
<1>2. IInv /\ [Next]_vars => [Promise!Next]_<<Trail, answer>>
  <2> SUFFICES ASSUME IInv, [Next]_vars
               PROVE  [Promise!Next]_<<Trail, answer>>
    OBVIOUS
  <2>1. CASE UNCHANGED <<documents, answer>>
    BY <2>1 DEF Trail
  <2>2. ASSUME NEW c \in Calls, Commit(c) \/ CommitUnanswered(c)
        PROVE  Promise!Next
    <3>1. pc[c] = "read" /\ Create(c) /\ answer[c] = "none"
      BY <2>2 DEF Commit, CommitUnanswered, IInv, Shape, TypeOK
    <3>2. Promise!Extend(c)
      BY <3>1, CreateExtends DEF Promise!Extend
    <3>3. QED
      BY <2>2, <3>1, <3>2
      DEF Commit, CommitUnanswered, Answer, Promise!Next, Promise!Record, Promise!Fail
  <2>3. ASSUME NEW c \in Calls, GiveUp(c) PROVE Promise!Next
    <3>1. answer[c] = "none" /\ UNCHANGED documents
      BY <2>3 DEF GiveUp, IInv, Shape, TypeOK
    <3>2. Trail' = Trail
      BY <3>1 DEF Trail
    <3>3. QED BY <2>3, <3>1, <3>2 DEF GiveUp, Answer, Promise!Next, Promise!Fail
  <2>4. QED BY <2>1, <2>2, <2>3 DEF Next, Read, Abort, vars
<1>3. QED BY <1>1, <1>2, Invariance, PTL DEF Spec, ImplementsTrail, Promise!Spec
=============================================================================
