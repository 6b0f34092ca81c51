-------------------------- MODULE RequestGateProofs --------------------------
(* The gate of the API and the device sessions behind it, for any number of   *)
(* requests, users, secrets, fingerprints and times, and for every limit and  *)
(* window.                                                                    *)
EXTENDS RequestGate, SequenceTheorems, FiniteSetTheorems, WellFoundedInduction, TLAPS

-----------------------------------------------------------------------------
RequestRecords ==
    [pc : {"free", "limit", "handler", "write", "signature"},
     kind : Kinds \cup {None}, user : Users \cup {None}, secret : Secrets \cup {None},
     read : Documents \cup {None}, late : BOOLEAN]

(* What a request under way is, and what it knows is there.                   *)
Handled(q) ==
    /\ q.pc # "free" => q.kind \in {"register", "list", "revoke"} /\ q.user \in Users
    /\ q.pc # "free" /\ q.kind = "register" => q.secret \in Secrets
    /\ q.pc = "signature" => q.kind \in {"list", "revoke"}
    /\ q.pc = "write" => q.kind \in {"register", "revoke"}
    /\ q.pc \in {"signature", "write"} /\ q.kind # "register" => device # None

-----------------------------------------------------------------------------
(* A set of naturals has a least element.                                     *)
LEMMA LeastNatural ==
    ASSUME NEW T \in SUBSET Nat, T # {}
    PROVE  \E n \in T : \A m \in T : n <= m
<1> DEFINE R == {p \in Nat \X Nat : p[1] < p[2]}
<1>1. R = OpToRel(<, Nat)
  BY Zenon DEF OpToRel
<1>2. IsWellFoundedOn(R, Nat)
  BY <1>1, NatLessThanWellFounded, Zenon
<1>3. \A m, n \in Nat : m < n => <<m, n>> \in R
  OBVIOUS
<1> HIDE DEF R
<1>4. PICK n \in T : \A m \in T : ~(<<m, n>> \in R)
  BY <1>2, WFMin
<1>5. \A m \in T : ~(m < n)
  BY <1>3, <1>4
<1>6. \A m \in T : n <= m
  BY <1>5
<1>7. QED BY <1>6

(* What is left of a list of times when the old ones are dropped from its     *)
(* front: the rest, in its order.                                             *)
LEMMA SinceFacts ==
    ASSUME NEW times \in Seq(Nat), NEW from \in Int
    PROVE  \E n \in 0..Len(times) :
               /\ \A i \in 1..n : times[i] < from
               /\ n < Len(times) => times[n + 1] >= from
               /\ Since(times, from) \in Seq(Nat)
               /\ Len(Since(times, from)) = Len(times) - n
               /\ \A j \in 1..(Len(times) - n) : Since(times, from)[j] = times[n + j]
<1> DEFINE P(n) == /\ \A i \in 1..n : times[i] < from
                   /\ n < Len(times) => times[n + 1] >= from
           T == {n \in 0..Len(times) : n < Len(times) => times[n + 1] >= from}
<1>1. PICK n \in T : \A m \in T : n <= m
  <2>1. Len(times) \in Nat
    OBVIOUS
  <2>2. Len(times) \in T /\ T \in SUBSET Nat
    BY <2>1
  <2> HIDE DEF T
  <2>3. QED BY <2>2, LeastNatural
<1>2. ASSUME NEW i \in 1..n PROVE times[i] < from
  <2>1. n \in Nat /\ Len(times) \in Nat /\ n <= Len(times)
    BY <1>1
  <2>2. i \in 1..Len(times) /\ i - 1 \in 0..Len(times) /\ i - 1 < n
    BY <2>1
  <2>3. i - 1 \notin T
    <3> HIDE DEF T
    <3>1. ~(n <= i - 1)
      BY <2>1, <2>2
    <3>2. QED BY <1>1, <3>1
  <2>4. i - 1 < Len(times) /\ ~(times[i - 1 + 1] >= from)
    BY <2>1, <2>2, <2>3
  <2>5. times[i] \in Nat /\ i - 1 + 1 = i
    BY <2>2
  <2>6. QED BY <2>4, <2>5
<1>3. n \in 0..Len(times) /\ P(n)
  BY <1>1, <1>2
<1>4. PICK old : old = CHOOSE m \in 0..Len(times) : P(m)
  OBVIOUS
<1>5. old \in 0..Len(times) /\ P(old)
  BY <1>3, <1>4
<1>6. Since(times, from) = SubSeq(times, old + 1, Len(times))
  BY <1>4 DEF Since
<1>7. /\ SubSeq(times, old + 1, Len(times)) \in Seq(Nat)
      /\ Len(SubSeq(times, old + 1, Len(times))) = Len(times) - old
      /\ \A j \in 1..(Len(times) - old) :
             SubSeq(times, old + 1, Len(times))[j] = times[old + j]
  BY <1>5
<1>8. QED BY <1>5, <1>6, <1>7

-----------------------------------------------------------------------------
(* The device sessions.                                                       *)

(* What a registration has read and may write is not dead, unless it was      *)
(* overtaken by a revocation.                                                 *)
ReadsLive ==
    ~revived => \A r \in Requests :
        /\ request[r].pc = "write" /\ request[r].kind = "register" /\ ~request[r].late
        /\ request[r].read # None
        => request[r].read.secret \notin dead

(* Only a call that is about to write can be overtaken.                       *)
LateWrites == \A r \in Requests : request[r].late => request[r].pc = "write"

DeviceTyped ==
    /\ device \in Documents \cup {None}
    /\ dead \subseteq Secrets /\ revived \in BOOLEAN
    /\ request \in [Requests -> RequestRecords]
    /\ \A r \in Requests : Handled(request[r])
DeviceInv == DeviceTyped /\ LateWrites /\ ReadsLive /\ DeadSecretsStayDead

LEMMA RequestFacts ==
    ASSUME DeviceTyped, NEW r \in Requests
    PROVE  request[r] \in RequestRecords /\ Handled(request[r])
BY DEF DeviceTyped

LEMMA FreeRecord == Free \in RequestRecords /\ Handled(Free) /\ Free.pc = "free" /\ ~Free.late
BY DEF Free, RequestRecords, Handled

(* A step of request r that changes no document.                              *)
LEMMA RequestOnly ==
    ASSUME DeviceInv, NEW r \in Requests, NEW q \in RequestRecords,
           request' = [request EXCEPT ![r] = q],
           UNCHANGED <<device, dead, revived>>, Handled(q), q.late => q.pc = "write",
           q.pc = "write" /\ q.kind = "register" => q.read = device
    PROVE  DeviceInv'
<1>1. /\ request' \in [Requests -> RequestRecords] /\ request'[r] = q
      /\ \A p \in Requests : p # r => request'[p] = request[p]
  BY DEF DeviceInv, DeviceTyped
<1>2. DeviceTyped'
  BY <1>1 DEF DeviceInv, DeviceTyped, Handled
<1>3. LateWrites'
  BY <1>1 DEF DeviceInv, LateWrites
<1>4. ReadsLive'
  BY <1>1 DEF DeviceInv, ReadsLive, DeadSecretsStayDead
<1>5. DeadSecretsStayDead'
  BY DEF DeviceInv, DeadSecretsStayDead
<1>6. QED BY <1>2, <1>3, <1>4, <1>5 DEF DeviceInv

LEMMA AnswersKeep ==
    ASSUME DeviceInv, NEW r \in Requests, Answers(r), UNCHANGED <<device, dead, revived>>
    PROVE  DeviceInv'
BY FreeRecord, RequestOnly DEF Answers

LEMMA GoesRecord ==
    ASSUME DeviceInv, NEW r \in Requests,
           NEW pc \in {"free", "limit", "handler", "write", "signature"}, Goes(r, pc)
    PROVE  \E q \in RequestRecords :
               /\ request' = [request EXCEPT ![r] = q] /\ q.pc = pc
               /\ q.kind = request[r].kind /\ q.user = request[r].user
               /\ q.secret = request[r].secret /\ q.read = request[r].read
               /\ q.late = request[r].late
<1> DEFINE q == [request[r] EXCEPT !.pc = pc]
<1>1. request' = [request EXCEPT ![r] = q]
  BY DEF Goes, DeviceInv, DeviceTyped
<1>2. /\ q \in RequestRecords /\ q.pc = pc /\ q.kind = request[r].kind
      /\ q.user = request[r].user /\ q.secret = request[r].secret
      /\ q.read = request[r].read /\ q.late = request[r].late
  BY RequestFacts DEF RequestRecords, DeviceInv
<1> HIDE DEF q
<1>3. QED BY <1>1, <1>2

LEMMA GoesKeeps ==
    ASSUME DeviceInv, NEW r \in Requests,
           NEW pc \in {"free", "limit", "handler", "write", "signature"}, Goes(r, pc),
           UNCHANGED <<device, dead, revived>>, request[r].pc # "write",
           request[r].pc # "free",
           pc \in {"signature", "write"} =>
               request[r].kind \in {"list", "revoke"} /\ device # None,
           pc = "write" => request[r].kind = "revoke"
    PROVE  DeviceInv'
<1>1. PICK q \in RequestRecords :
          /\ request' = [request EXCEPT ![r] = q] /\ q.pc = pc
          /\ q.kind = request[r].kind /\ q.user = request[r].user
          /\ q.secret = request[r].secret /\ q.late = request[r].late
  BY GoesRecord
<1>2. ~q.late
  BY <1>1 DEF DeviceInv, LateWrites
<1>3. Handled(q)
  BY <1>1, RequestFacts DEF Handled, DeviceInv
<1>4. QED BY <1>1, <1>2, <1>3, RequestOnly

LEMMA ReadForUpsertKeeps ==
    ASSUME DeviceInv, NEW r \in Requests, ReadForUpsert(r)
    PROVE  DeviceInv'
<1>1. CASE Answers(r)
  BY <1>1, AnswersKeep DEF ReadForUpsert
<1>2. CASE request' = [request EXCEPT ![r].pc = "write", ![r].read = device]
  <2> DEFINE q == [request[r] EXCEPT !.pc = "write", !.read = device]
  <2>1. request' = [request EXCEPT ![r] = q]
    BY <1>2 DEF DeviceInv, DeviceTyped
  <2>2. /\ q \in RequestRecords /\ q.pc = "write" /\ q.kind = request[r].kind
        /\ q.user = request[r].user /\ q.secret = request[r].secret /\ q.read = device
    BY RequestFacts DEF RequestRecords, DeviceInv, DeviceTyped
  <2> HIDE DEF q
  <2>3. Handled(q)
    BY <2>2, RequestFacts DEF Handled, DeviceInv, ReadForUpsert, At
  <2>4. QED BY <2>1, <2>2, <2>3, RequestOnly DEF ReadForUpsert
<1>3. QED BY <1>1, <1>2 DEF ReadForUpsert

LEMMA ReadForCheckKeeps ==
    ASSUME DeviceInv, NEW r \in Requests, ReadForCheck(r)
    PROVE  DeviceInv'
<1>1. CASE Answers(r)
  BY <1>1, AnswersKeep DEF ReadForCheck
<1>2. CASE Goes(r, "signature") /\ device # None
  BY <1>2, GoesKeeps DEF ReadForCheck, At
<1>3. QED BY <1>1, <1>2 DEF ReadForCheck

LEMMA CheckSignatureKeeps ==
    ASSUME DeviceInv, NEW r \in Requests, CheckSignature(r)
    PROVE  DeviceInv'
<1>1. CASE Answers(r)
  BY <1>1, AnswersKeep DEF CheckSignature
<1>2. CASE Goes(r, "write") /\ request[r].kind = "revoke"
  <2>1. device # None
    BY RequestFacts DEF Handled, DeviceInv, CheckSignature, At
  <2>2. QED BY <1>2, <2>1, GoesKeeps DEF CheckSignature, At
<1>3. QED BY <1>1, <1>2 DEF CheckSignature

LEMMA WriteUpsertKeeps ==
    ASSUME DeviceInv, NEW r \in Requests, WriteUpsert(r)
    PROVE  DeviceInv'
<1> PICK secret, user, read : secret = request[r].secret /\ user = request[r].user
                              /\ read = request[r].read
  OBVIOUS
<1> PICK previous : previous = IF read # None /\ read.secret \notin {None, secret}
                               THEN read.secret
                               ELSE IF device = None THEN None ELSE device.previous
  OBVIOUS
<1>1. /\ request[r] \in RequestRecords /\ secret \in Secrets /\ user \in Users
      /\ read \in Documents \cup {None} /\ request[r].pc = "write"
      /\ request[r].kind = "register"
  BY RequestFacts DEF DeviceInv, WriteUpsert, At, Handled, RequestRecords
<1>2. previous \in Secrets \cup {None}
  BY <1>1 DEF DeviceInv, DeviceTyped, Documents
<1>3. /\ device' = [user |-> user, revoked |-> FALSE, secret |-> secret,
                    previous |-> previous]
      /\ request' = [request EXCEPT ![r] = Free]
      /\ dead' = dead \ {secret} /\ revived' = (revived \/ request[r].late)
  BY DEF WriteUpsert, Registered, Answers
<1>4. /\ device' \in Documents /\ device' # None /\ device'.secret = secret
      /\ device'.previous = previous
  <2>1. device' \in Documents
    BY <1>1, <1>2, <1>3 DEF Documents
  <2>2. QED BY <1>3, <2>1, NoneIsNoDocument
<1>5. /\ request' \in [Requests -> RequestRecords] /\ request'[r] = Free
      /\ \A p \in Requests : p # r => request'[p] = request[p]
  BY <1>3, FreeRecord DEF DeviceInv, DeviceTyped
<1>6. DeviceTyped'
  <2>1. dead' \subseteq Secrets /\ revived' \in BOOLEAN
    BY <1>1, <1>3 DEF DeviceInv, DeviceTyped, RequestRecords
  <2>2. \A p \in Requests : Handled(request[p])'
    BY <1>4, <1>5, FreeRecord DEF DeviceInv, DeviceTyped, Handled
  <2>3. QED BY <1>4, <1>5, <2>1, <2>2 DEF DeviceTyped
<1>7. LateWrites'
  BY <1>5, FreeRecord DEF DeviceInv, LateWrites
<1>8. ReadsLive'
  BY <1>3, <1>5, FreeRecord DEF DeviceInv, ReadsLive
<1>9. DeadSecretsStayDead'
  <2>1. SUFFICES ASSUME ~revived' PROVE {secret, previous} \cap dead' = {}
    BY <1>4 DEF DeadSecretsStayDead
  <2>2. ~revived /\ ~request[r].late
    BY <1>3, <2>1
  <2>3. read # None => read.secret \notin dead
    BY <1>1, <2>2 DEF DeviceInv, ReadsLive
  <2>4. device # None => device.previous \notin dead
    BY <2>2 DEF DeviceInv, DeadSecretsStayDead
  <2>5. None \notin dead
    BY DeviceAssumption DEF DeviceInv, DeviceTyped
  <2>6. previous \notin dead
    BY <2>3, <2>4, <2>5
  <2>7. QED BY <1>3, <2>6
<1>10. QED BY <1>6, <1>7, <1>8, <1>9 DEF DeviceInv

LEMMA WriteRevokeKeeps ==
    ASSUME DeviceInv, NEW r \in Requests, WriteRevoke(r)
    PROVE  DeviceInv'
<1>1. /\ device \in Documents /\ request[r].user \in Users /\ request[r].pc = "write"
  BY RequestFacts DEF DeviceInv, DeviceTyped, WriteRevoke, At, Handled
<1>2. device' \in Documents /\ device'.secret = None /\ device'.previous = None
  BY <1>1 DEF WriteRevoke, Cleared, Documents
<1>3. device' # None
  BY <1>2, NoneIsNoDocument
<1>4. dead' \subseteq Secrets /\ None \notin dead' /\ revived' = revived
  BY <1>1, DeviceAssumption DEF WriteRevoke, DeviceInv, DeviceTyped, Documents
<1>5. ASSUME NEW p \in Requests
      PROVE  /\ request'[p] \in RequestRecords /\ Handled(request[p])'
             /\ request'[p].late => request'[p].pc = "write"
             /\ request'[p].pc = "write" => request'[p].late
  <2>1. CASE p = r
    <3>1. request'[p] = Free
      BY <2>1 DEF WriteRevoke
    <3>2. QED BY <3>1, FreeRecord DEF Handled
  <2>2. CASE p # r
    <3> DEFINE late == request[p].late \/ request[p].pc = "write"
               q == [request[p] EXCEPT !.late = late]
    <3>1. request'[p] = q
      BY <2>2 DEF WriteRevoke
    <3>2. request[p] \in RequestRecords /\ Handled(request[p]) /\ late \in BOOLEAN
      BY RequestFacts DEF DeviceInv
    <3>3. /\ q \in RequestRecords /\ (q.late <=> late) /\ q.pc = request[p].pc
          /\ q.kind = request[p].kind /\ q.user = request[p].user
          /\ q.secret = request[p].secret
      <4> HIDE DEF late
      <4>1. QED BY <3>2 DEF RequestRecords
    <3> HIDE DEF q
    <3>4. Handled(request[p])'
      BY <1>3, <3>1, <3>2, <3>3 DEF Handled
    <3>5. late <=> request[p].pc = "write"
      BY DEF DeviceInv, LateWrites
    <3>6. QED BY <3>1, <3>3, <3>4, <3>5
  <2>3. QED BY <2>1, <2>2
<1>6. request' \in [Requests -> RequestRecords]
  <2>1. request' = [p \in Requests |-> request'[p]]
    BY DEF WriteRevoke
  <2>2. QED BY <1>5, <2>1
<1>7. DeviceTyped'
  BY <1>2, <1>4, <1>5, <1>6 DEF DeviceInv, DeviceTyped
<1>8. LateWrites' /\ ReadsLive'
  BY <1>5 DEF LateWrites, ReadsLive
<1>9. DeadSecretsStayDead'
  BY <1>2, <1>4 DEF DeadSecretsStayDead
<1>10. QED BY <1>7, <1>8, <1>9 DEF DeviceInv

LEMMA DeviceNextKeeps == ASSUME DeviceInv, DeviceNext PROVE DeviceInv'
BY ReadForUpsertKeeps, WriteUpsertKeeps, ReadForCheckKeeps, CheckSignatureKeeps,
   WriteRevokeKeeps DEF DeviceNext

LEMMA ArriveKeepsDevice ==
    ASSUME DeviceInv, NEW r \in Requests, NEW kind \in Kinds, NEW u \in Users,
           NEW secret \in Secrets \cup {None}, NEW f \in Fingerprints \cup {None},
           Arrive(r, kind, u, secret, f)
    PROVE  DeviceInv'
<1> DEFINE q == [Free EXCEPT !.pc = "limit", !.kind = kind, !.user = u, !.secret = secret]
<1>1. UNCHANGED <<device, dead, revived>>
  BY DEF Arrive
<1>2. CASE UNCHANGED request
  BY <1>1, <1>2 DEF DeviceInv, DeviceTyped, Handled, LateWrites, ReadsLive,
                    DeadSecretsStayDead
<1>3. CASE kind # "login" /\ request' = [request EXCEPT ![r] = q]
  <2>1. /\ q \in RequestRecords /\ q.pc = "limit" /\ q.kind = kind /\ q.user = u
        /\ q.secret = secret /\ ~q.late
    BY DEF Free, RequestRecords
  <2>2. kind = "register" => secret \in Secrets
    BY DEF Arrive
  <2> HIDE DEF q
  <2>3. Handled(q)
    BY <1>3, <2>1, <2>2 DEF Handled, Kinds
  <2>4. QED BY <1>1, <1>3, <2>1, <2>3, RequestOnly
<1>4. QED BY <1>2, <1>3 DEF Arrive

LEMMA EnforceKeepsDevice ==
    ASSUME DeviceInv, NEW r \in Requests, EnforceRateLimit(r)
    PROVE  DeviceInv'
<1>1. /\ UNCHANGED <<device, dead, revived>> /\ request[r].pc = "limit"
      /\ Answers(r) \/ Goes(r, "handler")
  BY DEF EnforceRateLimit
<1>2. CASE Answers(r)
  BY <1>1, <1>2, AnswersKeep
<1>3. CASE Goes(r, "handler")
  BY <1>1, <1>3, GoesKeeps
<1>4. QED BY <1>1, <1>2, <1>3

-----------------------------------------------------------------------------
(* Adaptive protection.                                                       *)
EngineTyped ==
    /\ now \in 0..MaxTime
    /\ observed \in [Fingerprints -> 0..ClusterSize]
    /\ signal \in [Fingerprints -> [count : 0..MaxCount, seen : 0..MaxTime]]
    /\ verdict \in [Fingerprints -> Actions]

(* Only what is hashed into a fingerprint and a full cluster score without a  *)
(* signal, and that is short of a block.                                      *)
Weight(f) ==
    (IF f \in Dense THEN 20 ELSE 0) + ClusterScore(f)
    + (IF f \in Scripted THEN 50 ELSE 0)

(* Nothing but a script is ever known, and a fingerprint that was blocked     *)
(* would be again, were its signal still valid.                               *)
OnlyScriptsKnown == \A f \in Fingerprints : signal[f].count > 0 => f \in Scripted
BlocksRemembered ==
    \A f \in Fingerprints :
        verdict[f] = "BLOCK" => Weight(f) + 70 + 5 * signal[f].count >= 160
EngineInv == EngineTyped /\ OnlyScriptsKnown /\ BlocksRemembered

Escalates ==
    \A f \in Fingerprints : verdict'[f] # verdict[f] =>
        /\ verdict'[f] = "BLOCK" => f \in Scripted /\ Known(f)
        /\ verdict[f] = "BLOCK" => ~Known(f)

LEMMA AssessKeeps ==
    ASSUME EngineInv, NEW f \in Fingerprints, Assess(f), now' = now
    PROVE  EngineInv' /\ Escalates
<1> PICK score, action, count, full :
        /\ score = Score(f) /\ action = Classify(score) /\ count = signal[f].count
        /\ full = ClusterScore(f)
  OBVIOUS
<1>1. /\ count \in 0..MaxCount /\ observed[f] \in 0..ClusterSize
      /\ signal[f].seen \in 0..MaxTime /\ verdict[f] \in Actions /\ now \in 0..MaxTime
      /\ count > 0 => f \in Scripted
      /\ verdict[f] = "BLOCK" => Weight(f) + 70 + 5 * count >= 160
  BY DEF EngineInv, EngineTyped, OnlyScriptsKnown, BlocksRemembered
<1>2. full \in {0, 40}
  BY DEF ClusterScore
<1>3. /\ score = Weight(f) + (IF Known(f) THEN 70 + 5 * count ELSE 0)
      /\ score \in Nat /\ Weight(f) \in Nat /\ Weight(f) <= 110
      /\ f \notin Scripted => Weight(f) <= 60
  <2>1. PICK dense, script :
            /\ dense = (IF f \in Dense THEN 20 ELSE 0)
            /\ script = (IF f \in Scripted THEN 50 ELSE 0)
    OBVIOUS
  <2>2. PICK known : known = (IF Known(f) THEN 70 + 5 * count ELSE 0)
    OBVIOUS
  <2>3. score = dense + known + full + script /\ Weight(f) = dense + full + script
    BY <2>1, <2>2 DEF Score, Weight
  <2>4. /\ dense \in {0, 20} /\ script \in {0, 50} /\ known \in Nat /\ count \in Nat
        /\ f \notin Scripted => script = 0
    BY <1>1, <2>1, <2>2 DEF MaxCount
  <2>5. /\ dense + full + script \in Nat /\ dense + full + script <= 110
        /\ script = 0 => dense + full + script <= 60
        /\ dense + known + full + script = (dense + full + script) + known
    BY <1>2, <2>4
  <2>6. Weight(f) \in Nat /\ score = Weight(f) + known /\ score \in Nat
    BY <2>3, <2>4, <2>5
  <2>7. QED BY <2>2, <2>3, <2>4, <2>5, <2>6
<1>4. /\ action \in Actions
      /\ action = "BLOCK" <=> score >= 160
      /\ action \in {"ALLOW", "THROTTLE"} <=> score < 80
  BY <1>3 DEF Classify, Actions
<1>5. Known(f) => f \in Scripted
  BY <1>1 DEF Known
<1> DEFINE marked == Marked(f)
           more == IF observed[f] < ClusterSize THEN observed[f] + 1 ELSE observed[f]
<1>6. /\ marked \in [count : 0..MaxCount, seen : 0..MaxTime]
      /\ Known(f) => marked.count >= count
  BY <1>1 DEF Marked, MaxCount
<1>7. more \in 0..ClusterSize /\ more >= observed[f]
  BY <1>1, GateAssumption DEF GateAssumption
<1>8. /\ verdict' = [verdict EXCEPT ![f] = action]
      /\ observed' = [observed EXCEPT ![f] = more]
      /\ signal' = [signal EXCEPT ![f] = IF action \in {"ALLOW", "THROTTLE"}
                                        THEN signal[f] ELSE marked]
  BY DEF Assess, EngineInv, EngineTyped
<1> HIDE DEF marked, more
<1>9. /\ verdict'[f] = action /\ observed'[f] = more
      /\ signal'[f] = IF action \in {"ALLOW", "THROTTLE"} THEN signal[f] ELSE marked
      /\ \A g \in Fingerprints : g # f =>
             verdict'[g] = verdict[g] /\ observed'[g] = observed[g] /\ signal'[g] = signal[g]
  BY <1>8 DEF EngineInv, EngineTyped
<1>10. EngineTyped'
  BY <1>4, <1>6, <1>7, <1>8 DEF EngineInv, EngineTyped
<1>11. OnlyScriptsKnown'
  <2>1. action \notin {"ALLOW", "THROTTLE"} => f \in Scripted
    BY <1>3, <1>4, <1>5
  <2>2. signal'[f].count > 0 => f \in Scripted
    BY <1>1, <1>9, <2>1
  <2>3. QED BY <1>9, <2>2 DEF EngineInv, OnlyScriptsKnown
<1>12. ClusterScore(f)' >= ClusterScore(f)
  BY <1>1, <1>7, <1>9, GateAssumption DEF ClusterScore, GateAssumption
<1>13. Weight(f)' >= Weight(f) /\ Weight(f)' \in Nat
  <2>1. ClusterScore(f)' \in {0, 40} /\ ClusterScore(f) \in {0, 40}
    BY DEF ClusterScore
  <2>2. QED BY <1>12, <2>1 DEF Weight
<1>14. action = "BLOCK" => Known(f)
  BY <1>3, <1>4
<1>15. BlocksRemembered'
  <2>1. ASSUME action = "BLOCK" PROVE Weight(f)' + 70 + 5 * signal'[f].count >= 160
    <3>1. Known(f) /\ score >= 160 /\ signal'[f] = marked
      BY <1>4, <1>9, <1>14, <2>1
    <3>2. marked.count >= count /\ marked.count \in 0..MaxCount
      BY <1>6, <3>1
    <3>3. Weight(f) + 70 + 5 * count >= 160
      BY <1>1, <1>3, <3>1
    <3>4. QED BY <1>1, <1>3, <1>13, <3>1, <3>2, <3>3
  <2>2. ASSUME NEW g \in Fingerprints, g # f
        PROVE  Weight(g)' = Weight(g) /\ verdict'[g] = verdict[g] /\ signal'[g] = signal[g]
    BY <1>9, <2>2 DEF Weight, ClusterScore
  <2>3. QED BY <1>9, <2>1, <2>2 DEF EngineInv, BlocksRemembered
<1>16. Escalates
  <2>1. verdict[f] = "BLOCK" /\ Known(f) => action = "BLOCK"
    BY <1>1, <1>3, <1>4
  <2>2. QED BY <1>5, <1>9, <1>14, <2>1 DEF Escalates
<1>17. QED BY <1>10, <1>11, <1>15, <1>16 DEF EngineInv

LEMMA EngineKeeps ==
    ASSUME EngineInv, UNCHANGED <<observed, signal, verdict>>, now' \in 0..MaxTime
    PROVE  EngineInv' /\ Escalates
<1>1. \A f \in Fingerprints : Weight(f)' = Weight(f)
  BY DEF Weight, ClusterScore
<1>2. EngineInv'
  BY <1>1 DEF EngineInv, EngineTyped, OnlyScriptsKnown, BlocksRemembered
<1>3. QED BY <1>2 DEF Escalates

LEMMA EngineNext ==
    ASSUME EngineInv, [Next]_vars
    PROVE  EngineInv' /\ Escalates
<1>1. now \in 0..MaxTime
  BY DEF EngineInv, EngineTyped
<1>2. ASSUME NEW r \in Requests, NEW kind \in Kinds, NEW u \in Users,
             NEW secret \in Secrets \cup {None}, NEW f \in Fingerprints \cup {None},
             Arrive(r, kind, u, secret, f)
      PROVE  EngineInv' /\ Escalates
  <2>1. now' = now
    BY <1>2 DEF Arrive
  <2>2. CASE f = None
    BY <1>1, <1>2, <2>1, <2>2, EngineKeeps DEF Arrive
  <2>3. CASE f # None
    BY <1>2, <2>1, <2>3, AssessKeeps DEF Arrive
  <2>4. QED BY <2>2, <2>3
<1>3. ASSUME NEW r \in Requests, EnforceRateLimit(r) PROVE EngineInv' /\ Escalates
  BY <1>1, <1>3, EngineKeeps DEF EnforceRateLimit
<1>4. CASE UNCHANGED gateVars
  BY <1>1, <1>4, EngineKeeps DEF gateVars
<1>5. CASE Tick
  <2>1. now' \in 0..MaxTime
    BY <1>1, <1>5, GateAssumption DEF Tick, GateAssumption
  <2>2. QED BY <1>5, <2>1, EngineKeeps DEF Tick
<1>6. QED BY <1>2, <1>3, <1>4, <1>5 DEF Next, vars

-----------------------------------------------------------------------------
(* The rate limit, over a list h of the times in a store and a list a of the  *)
(* times let through, at time t.                                              *)

(* The store's times are in order, and none is yet to come.                   *)
Ordered(h, t) ==
    \A i, j \in 1..Len(h) : h[i] <= t /\ (i <= j => h[i] <= h[j])

(* Counted from the end, a time let through is no later than the one in the   *)
(* store, or it is too old to count.                                          *)
Covered(a, h, t) ==
    \A i \in 1..Len(a) :
        IF i + (Len(h) - Len(a)) > 0 THEN a[i] <= h[i + (Len(h) - Len(a))]
        ELSE a[i] < t - Window

(* Two requests let through that are as far apart in the list as the limit    *)
(* are further apart in time than the window.                                 *)
Spread(a) ==
    \A i, j \in 1..Len(a) : j - i >= Limit - 1 => a[i] + Window < a[j]

MemoryRight(a, h, t) ==
    Len(h) <= Limit /\ Ordered(h, t) /\ Covered(a, h, t) /\ Spread(a)

(* The Redis store holds every time let through that still counts, and no     *)
(* window holds as many as the limit.                                         *)
Stored(a, h, t) == \A i \in 1..Len(a) : a[i] > t - Window => Contains(h, a[i])
SecondsOf(a, from) == {t \in ToSet(a) : from < t /\ t <= from + Window}
Sparse(a) ==
    \A from \in Int : /\ IsFiniteSet(SecondsOf(a, from))
                      /\ Cardinality(SecondsOf(a, from)) < Limit
RedisRight(a, h, t) == Stored(a, h, t) /\ Sparse(a)

LEMMA LimitIsPositive ==
    Limit \in Nat /\ Limit >= 1 /\ Window \in Nat /\ Window >= 1 /\ MaxTime \in Nat
BY GateAssumption DEF GateAssumption

LEMMA AppendFacts ==
    ASSUME NEW h \in Seq(Nat), NEW t \in Nat
    PROVE  /\ Append(h, t) \in Seq(Nat) /\ Len(Append(h, t)) = Len(h) + 1
           /\ Append(h, t)[Len(h) + 1] = t
           /\ \A i \in 1..Len(h) : Append(h, t)[i] = h[i]
           /\ Len(h) \in Nat
OBVIOUS

LEMMA ElementFacts ==
    ASSUME NEW h \in Seq(Nat)
    PROVE  Len(h) \in Nat /\ \A i \in 1..Len(h) : h[i] \in Nat
OBVIOUS

(* What memory keeps is in order, recent, and covers what it covered.         *)
LEMMA MemoryKeeps ==
    ASSUME NEW a \in Seq(Nat), NEW h \in Seq(Nat), NEW t \in Nat,
           Ordered(h, t), Covered(a, h, t)
    PROVE  LET kept == Since(h, t - Window) IN
           /\ kept \in Seq(Nat) /\ Len(kept) <= Len(h)
           /\ Ordered(kept, t) /\ Covered(a, kept, t)
           /\ \A i \in 1..Len(kept) : kept[i] >= t - Window
<1> DEFINE kept == Since(h, t - Window)
<1>0. Len(h) \in Nat /\ Len(a) \in Nat /\ t - Window \in Int /\ t - Window <= t
  BY LimitIsPositive, ElementFacts
<1>1. PICK l, m, from : /\ l = Len(h) /\ m = Len(a) /\ from = t - Window
                        /\ l \in Nat /\ m \in Nat /\ from \in Int
  BY <1>0
<1>2. PICK n \in 0..l :
          /\ \A i \in 1..n : h[i] < from
          /\ n < l => h[n + 1] >= from
          /\ kept \in Seq(Nat) /\ Len(kept) = l - n
          /\ \A j \in 1..(l - n) : kept[j] = h[n + j]
  BY <1>1, SinceFacts
<1> HIDE DEF kept
<1>3. \A j \in 1..(l - n) : n + j \in 1..l /\ n + 1 \in 1..l
  BY <1>1
<1>4. /\ \A i, j \in 1..l : h[i] <= t /\ (i <= j => h[i] <= h[j])
      /\ \A i \in 1..l : h[i] \in Nat
  BY <1>1, ElementFacts DEF Ordered
<1>5. Ordered(kept, t)
  <2>1. ASSUME NEW i \in 1..(l - n), NEW j \in 1..(l - n)
        PROVE  kept[i] <= t /\ (i <= j => kept[i] <= kept[j])
    <3>1. /\ kept[i] = h[n + i] /\ kept[j] = h[n + j]
          /\ n + i \in 1..l /\ n + j \in 1..l
      BY <1>2, <1>3
    <3>2. i <= j => n + i <= n + j
      OBVIOUS
    <3>3. QED BY <1>4, <3>1, <3>2
  <2>2. QED BY <1>2, <2>1 DEF Ordered
<1>6. ASSUME NEW i \in 1..(l - n) PROVE kept[i] >= from
  <2>1. n + 1 <= n + i /\ n < l /\ n + i \in 1..l /\ n + 1 \in 1..l
    BY <1>1, <1>3
  <2>2. h[n + 1] <= h[n + i] /\ h[n + 1] \in Nat /\ h[n + i] \in Nat
    BY <1>4, <2>1
  <2>3. h[n + 1] >= from /\ kept[i] = h[n + i]
    BY <1>2, <2>1
  <2>4. QED BY <1>1, <2>2, <2>3
<1>7. ASSUME NEW i \in 1..m
      PROVE  IF i + ((l - n) - m) > 0 THEN a[i] <= kept[i + ((l - n) - m)]
             ELSE a[i] < from
  <2>1. PICK s : s = i + (l - m) /\ s \in Int /\ s <= l /\ i + ((l - n) - m) = s - n
    BY <1>1
  <2>2. /\ s > 0 => a[i] <= h[s]
        /\ ~(s > 0) => a[i] < from
        /\ a[i] \in Nat
    BY <1>1, <2>1, ElementFacts DEF Covered
  <2>3. CASE s - n > 0
    <3>1. s - n \in 1..(l - n) /\ n + (s - n) = s /\ s > 0
      BY <1>1, <2>1, <2>3
    <3>2. kept[s - n] = h[s]
      BY <1>2, <3>1
    <3>3. QED BY <2>1, <2>2, <2>3, <3>1, <3>2
  <2>4. CASE ~(s - n > 0) /\ s > 0
    <3>1. s \in 1..n /\ s \in 1..l
      BY <1>1, <2>1, <2>4
    <3>2. a[i] <= h[s] /\ h[s] < from /\ h[s] \in Nat
      BY <1>2, <1>4, <2>2, <2>4, <3>1
    <3>3. a[i] < from
      BY <1>1, <2>2, <3>2
    <3>4. QED BY <2>1, <2>4, <3>3
  <2>5. CASE ~(s > 0)
    <3>1. ~(s - n > 0)
      BY <2>1, <2>5
    <3>2. QED BY <2>1, <2>2, <2>5, <3>1
  <2>6. QED BY <2>3, <2>4, <2>5
<1>8. Covered(a, kept, t)
  BY <1>1, <1>2, <1>7 DEF Covered
<1>9. Len(kept) <= Len(h)
  BY <1>1, <1>2
<1>10. kept \in Seq(Nat) /\ \A i \in 1..Len(kept) : kept[i] >= t - Window
  BY <1>1, <1>2, <1>6
<1>11. QED BY <1>5, <1>8, <1>9, <1>10 DEF kept

(* A refused request that is counted.                                         *)
LEMMA MemoryCounts ==
    ASSUME NEW a \in Seq(Nat), NEW h \in Seq(Nat), NEW t \in Nat,
           Ordered(h, t), Covered(a, h, t), \A i \in 1..Len(h) : h[i] >= t - Window
    PROVE  Ordered(Append(h, t), t) /\ Covered(a, Append(h, t), t)
<1> DEFINE g == Append(h, t)
<1>0. Len(h) \in Nat /\ Len(a) \in Nat /\ t - Window \in Int /\ t - Window <= t
  BY LimitIsPositive, ElementFacts
<1>1. PICK l, m, from : /\ l = Len(h) /\ m = Len(a) /\ from = t - Window
                        /\ l \in Nat /\ m \in Nat /\ from \in Int /\ from <= t
  BY <1>0
<1>2. Len(g) = l + 1 /\ g[l + 1] = t /\ \A i \in 1..l : g[i] = h[i]
  BY <1>1, AppendFacts
<1> HIDE DEF g
<1>3. /\ \A i, j \in 1..l : h[i] <= t /\ (i <= j => h[i] <= h[j])
      /\ \A i \in 1..l : h[i] \in Nat /\ h[i] >= from
  BY <1>1, ElementFacts DEF Ordered
<1>4. ASSUME NEW i \in 1..(l + 1), NEW j \in 1..(l + 1)
      PROVE  g[i] <= t /\ g[i] \in Nat /\ g[i] >= from /\ (i <= j => g[i] <= g[j])
  <2>1. CASE i \in 1..l /\ j \in 1..l
    BY <1>2, <1>3, <2>1
  <2>2. CASE i \in 1..l /\ j = l + 1
    BY <1>2, <1>3, <2>2
  <2>3. CASE i = l + 1
    <3>1. i <= j => j = l + 1
      BY <1>1, <2>3
    <3>2. QED BY <1>1, <1>2, <2>3, <3>1
  <2>4. (i \in 1..l \/ i = l + 1) /\ (j \in 1..l \/ j = l + 1)
    BY <1>1
  <2>5. QED BY <2>1, <2>2, <2>3, <2>4
<1>5. ASSUME NEW i \in 1..m
      PROVE  IF i + ((l + 1) - m) > 0 THEN a[i] <= g[i + ((l + 1) - m)]
             ELSE a[i] < from
  <2>1. PICK s : s = i + (l - m) /\ s \in Int /\ s <= l /\ i + ((l + 1) - m) = s + 1
    BY <1>1
  <2>2. /\ s > 0 => a[i] <= h[s]
        /\ ~(s > 0) => a[i] < from
        /\ a[i] \in Nat
    BY <1>1, <2>1, ElementFacts DEF Covered
  <2>3. CASE s > 0
    <3>1. s \in 1..l /\ s \in 1..(l + 1) /\ s + 1 \in 1..(l + 1) /\ s <= s + 1
      BY <1>1, <2>1, <2>3
    <3>2. g[s] = h[s] /\ g[s] <= g[s + 1] /\ g[s] \in Nat /\ g[s + 1] \in Nat
      BY <1>2, <1>4, <3>1
    <3>3. QED BY <2>1, <2>2, <2>3, <3>1, <3>2
  <2>4. CASE s = 0
    <3>1. a[i] < from /\ s + 1 \in 1..(l + 1)
      BY <1>1, <2>2, <2>4
    <3>2. g[s + 1] >= from /\ g[s + 1] \in Nat
      BY <1>4, <3>1
    <3>3. QED BY <1>1, <2>1, <2>2, <2>4, <3>1, <3>2
  <2>5. CASE s < 0
    <3>1. ~(s + 1 > 0)
      BY <2>1, <2>5
    <3>2. a[i] < from
      BY <2>1, <2>2, <2>5
    <3>3. QED BY <2>1, <3>1, <3>2
  <2>6. QED BY <2>1, <2>3, <2>4, <2>5
<1>6. Ordered(g, t)
  BY <1>2, <1>4 DEF Ordered
<1>7. Covered(a, g, t)
  BY <1>1, <1>2, <1>5 DEF Covered
<1>8. QED BY <1>6, <1>7 DEF g

(* A request that is let through: the store held two times less than the      *)
(* limit.                                                                     *)
LEMMA MemoryAdmits ==
    ASSUME NEW a \in Seq(Nat), NEW h \in Seq(Nat), NEW t \in Nat,
           Covered(a, h, t), Spread(a), Len(h) <= Limit - 2
    PROVE  Covered(Append(a, t), Append(h, t), t) /\ Spread(Append(a, t))
<1> DEFINE b == Append(a, t)
           g == Append(h, t)
<1>0. Len(h) \in Nat /\ Len(a) \in Nat /\ t - Window \in Int /\ t - Window <= t
  BY LimitIsPositive, ElementFacts
<1>1. PICK l, m, from : /\ l = Len(h) /\ m = Len(a) /\ from = t - Window
                        /\ l \in Nat /\ m \in Nat /\ from \in Int /\ l <= Limit - 2
  BY <1>0
<1>2. /\ Len(g) = l + 1 /\ g[l + 1] = t /\ \A i \in 1..l : g[i] = h[i]
      /\ Len(b) = m + 1 /\ b[m + 1] = t /\ \A i \in 1..m : b[i] = a[i]
  BY <1>1, AppendFacts
<1> HIDE DEF b, g
<1>3. /\ \A i \in 1..m : a[i] \in Nat
      /\ \A i \in 1..m : IF i + (l - m) > 0 THEN a[i] <= h[i + (l - m)] ELSE a[i] < from
  BY <1>1, ElementFacts DEF Covered
<1>4. ASSUME NEW i \in 1..(m + 1)
      PROVE  IF i + ((l + 1) - (m + 1)) > 0 THEN b[i] <= g[i + ((l + 1) - (m + 1))]
             ELSE b[i] < from
  <2>1. PICK s : s = i + (l - m) /\ s \in Int /\ i + ((l + 1) - (m + 1)) = s
    BY <1>1
  <2>2. CASE i = m + 1
    <3>1. s = l + 1 /\ s > 0
      BY <1>1, <2>1, <2>2
    <3>2. g[s] = t /\ b[i] = t
      BY <1>2, <2>2, <3>1
    <3>3. QED BY <2>1, <3>1, <3>2
  <2>3. CASE i \in 1..m /\ s > 0
    <3>1. s \in 1..l
      BY <1>1, <2>1, <2>3
    <3>2. g[s] = h[s] /\ b[i] = a[i] /\ a[i] <= h[s]
      BY <1>2, <1>3, <2>1, <2>3, <3>1
    <3>3. QED BY <2>1, <2>3, <3>2
  <2>4. CASE i \in 1..m /\ ~(s > 0)
    <3>1. b[i] = a[i] /\ a[i] < from
      BY <1>2, <1>3, <2>1, <2>4
    <3>2. QED BY <2>1, <2>4, <3>1
  <2>5. QED BY <1>1, <2>2, <2>3, <2>4
<1>5. ASSUME NEW i \in 1..(m + 1), NEW j \in 1..(m + 1), j - i >= Limit - 1
      PROVE  b[i] + Window < b[j]
  <2>1. i \in 1..m
    BY <1>1, <1>5, LimitIsPositive
  <2>2. CASE j \in 1..m
    <3>1. a[i] + Window < a[j]
      BY <1>1, <1>5, <2>1, <2>2 DEF Spread
    <3>2. QED BY <1>2, <2>1, <2>2, <3>1
  <2>3. CASE j = m + 1
    <3>1. ~(i + (l - m) > 0)
      BY <1>1, <1>5, <2>1, <2>3, LimitIsPositive
    <3>2. a[i] < from /\ a[i] \in Nat /\ b[i] = a[i] /\ b[j] = t
      BY <1>2, <1>3, <2>1, <2>3, <3>1
    <3>3. QED BY <1>1, <3>2, LimitIsPositive
  <2>4. QED BY <1>1, <2>2, <2>3
<1>6. Covered(b, g, t)
  BY <1>1, <1>2, <1>4 DEF Covered
<1>7. Spread(b)
  BY <1>2, <1>5 DEF Spread
<1>8. QED BY <1>6, <1>7 DEF b, g

(* hit() of the memory store.                                                 *)
LEMMA MemoryHitRight ==
    ASSUME NEW key \in Keys, NEW a \in Seq(Nat), hits[key] \in Seq(Nat), now \in Nat,
           MemoryRight(a, hits[key], now)
    PROVE  /\ MemoryHit(key).kept \in Seq(Nat)
           /\ MemoryRight(a, MemoryHit(key).kept, now)
           /\ MemoryHit(key).left # 0 =>
                  MemoryRight(Append(a, now), MemoryHit(key).kept, now)
<1>1. PICK h, t, kept : h = hits[key] /\ t = now /\ kept = Since(h, t - Window)
  OBVIOUS
<1>2. h \in Seq(Nat) /\ t \in Nat /\ MemoryRight(a, h, t)
  BY <1>1
<1>3. /\ kept \in Seq(Nat) /\ Len(kept) <= Len(h) /\ Ordered(kept, t) /\ Covered(a, kept, t)
      /\ \A i \in 1..Len(kept) : kept[i] >= t - Window
  BY <1>1, <1>2, MemoryKeeps DEF MemoryRight
<1>4. Len(kept) \in Nat /\ Len(h) \in Nat /\ Len(h) <= Limit /\ Spread(a)
  BY <1>2, <1>3, ElementFacts DEF MemoryRight
<1>5. CASE Len(kept) >= Limit
  <2>1. MemoryHit(key).kept = kept /\ MemoryHit(key).left = 0
    BY <1>1, <1>5 DEF MemoryHit, Recent
  <2>2. Len(kept) <= Limit
    BY <1>3, <1>4, LimitIsPositive
  <2>3. QED BY <1>1, <1>3, <1>4, <2>1, <2>2 DEF MemoryRight
<1>6. CASE ~(Len(kept) >= Limit)
  <2>1. MemoryHit(key).kept = Append(kept, t) /\ MemoryHit(key).left = Limit - Len(kept) - 1
    BY <1>1, <1>6 DEF MemoryHit, Recent
  <2>2. /\ Append(kept, t) \in Seq(Nat) /\ Len(Append(kept, t)) <= Limit
        /\ Limit - Len(kept) - 1 # 0 => Len(kept) <= Limit - 2
    BY <1>2, <1>3, <1>4, <1>6, AppendFacts, LimitIsPositive
  <2>3. Ordered(Append(kept, t), t) /\ Covered(a, Append(kept, t), t)
    BY <1>2, <1>3, MemoryCounts
  <2>4. Len(kept) <= Limit - 2 =>
            Covered(Append(a, t), Append(kept, t), t) /\ Spread(Append(a, t))
    BY <1>2, <1>3, <1>4, MemoryAdmits
  <2>5. QED BY <1>1, <1>4, <2>1, <2>2, <2>3, <2>4 DEF MemoryRight
<1>7. QED BY <1>5, <1>6

(* A window of a list let through by the memory store.                        *)
LEMMA MemoryWindow ==
    ASSUME NEW a \in Seq(Nat), Spread(a), NEW from \in Nat
    PROVE  Cardinality({i \in 1..Len(a) : a[i] \in from..(from + Window)}) < Limit
<1> DEFINE W == {i \in 1..Len(a) : a[i] \in from..(from + Window)}
<1>1. Len(a) \in Nat /\ \A i \in 1..Len(a) : a[i] \in Nat
  BY ElementFacts
<1>2. CASE W = {}
  <2>1. Cardinality({}) = 0
    BY FS_EmptySet
  <2> HIDE DEF W
  <2>2. Cardinality(W) < Limit
    BY <1>2, <2>1, LimitIsPositive
  <2>3. QED BY <2>2 DEF W
<1>3. CASE W # {}
  <2>1. W \in SUBSET Nat
    BY <1>1
  <2> HIDE DEF W
  <2>2. PICK n \in W : \A m \in W : n <= m
    BY <1>3, <2>1, LeastNatural
  <2>3. PICK e : e = n + (Limit - 2) /\ n \in Nat /\ n \in Int /\ e \in Int
    BY <2>1, <2>2, LimitIsPositive
  <2>4. ASSUME NEW m \in W PROVE m \in n..e
    <3>1. /\ n \in 1..Len(a) /\ m \in 1..Len(a) /\ a[n] \in Nat /\ a[m] \in Nat
          /\ from <= a[n] /\ a[m] <= from + Window
      BY <1>1, <2>2 DEF W
    <3>2. ~(a[n] + Window < a[m])
      BY <3>1, LimitIsPositive
    <3>3. ~(m - n >= Limit - 1)
      BY <3>1, <3>2 DEF Spread
    <3>4. n <= m
      BY <2>2
    <3>5. QED BY <2>3, <3>1, <3>3, <3>4, LimitIsPositive
  <2>5. IsFiniteSet(n..e) /\ Cardinality(n..e) = (IF n > e THEN 0 ELSE e - n + 1)
    BY <2>3, FS_Interval
  <2>6. Cardinality(W) <= Cardinality(n..e) /\ IsFiniteSet(W)
    BY <2>4, <2>5, FS_Subset
  <2>7. Cardinality(n..e) < Limit
    BY <2>3, <2>5, LimitIsPositive
  <2>8. Cardinality(W) \in Nat /\ Cardinality(n..e) \in Nat
    BY <2>5, <2>6, FS_CardinalityType
  <2>9. QED BY <2>6, <2>7, <2>8, LimitIsPositive DEF W
<1>4. QED BY <1>2, <1>3

-----------------------------------------------------------------------------
(* A list has no more elements than places.                                   *)
LEMMA FewElements ==
    ASSUME NEW h \in Seq(Nat)
    PROVE  /\ IsFiniteSet(ToSet(h)) /\ Cardinality(ToSet(h)) <= Len(h)
           /\ \A u : u \in ToSet(h) <=> \E i \in 1..Len(h) : h[i] = u
<1>1. Len(h) \in Nat /\ h \in [1..Len(h) -> Nat] /\ DOMAIN h = 1..Len(h)
  OBVIOUS
<1>2. h \in Surjection(1..Len(h), ToSet(h))
  BY <1>1 DEF Surjection, ToSet
<1>3. IsFiniteSet(1..Len(h)) /\ Cardinality(1..Len(h)) = Len(h)
  <2>1. 1 \in Int /\ Len(h) \in Int
    BY <1>1
  <2>2. /\ IsFiniteSet(1..Len(h))
        /\ Cardinality(1..Len(h)) = (IF 1 > Len(h) THEN 0 ELSE Len(h) - 1 + 1)
    BY <2>1, FS_Interval
  <2>3. QED BY <1>1, <2>2
<1>4. IsFiniteSet(ToSet(h)) /\ Cardinality(ToSet(h)) <= Cardinality(1..Len(h))
  BY <1>2, <1>3, FS_Surjection
<1>5. \A u : u \in ToSet(h) <=> \E i \in 1..Len(h) : h[i] = u
  BY <1>1 DEF ToSet
<1>6. QED BY <1>3, <1>4, <1>5

(* hit() of the Redis store, at a time when it keeps those of the window.     *)
LEMMA RedisStores ==
    ASSUME NEW a \in Seq(Nat), NEW h \in Seq(Nat), NEW t \in Nat, RedisRight(a, h, t)
    PROVE  \A kept, g :
               /\ kept = Since(h, t - Window + 1)
               /\ g = IF Contains(kept, t) THEN kept ELSE Append(kept, t)
               => /\ kept \in Seq(Nat) /\ g \in Seq(Nat)
                  /\ RedisRight(a, g, t)
                  /\ Len(kept) <= Limit - 2 => RedisRight(Append(a, t), g, t)
<1> SUFFICES ASSUME NEW kept, NEW g, kept = Since(h, t - Window + 1),
                    g = IF Contains(kept, t) THEN kept ELSE Append(kept, t)
             PROVE  /\ kept \in Seq(Nat) /\ g \in Seq(Nat)
                    /\ RedisRight(a, g, t)
                    /\ Len(kept) <= Limit - 2 => RedisRight(Append(a, t), g, t)
  OBVIOUS
<1>0. Len(h) \in Nat /\ t - Window + 1 \in Int
  BY LimitIsPositive, ElementFacts
<1>1. PICK l, from : l = Len(h) /\ from = t - Window + 1 /\ l \in Nat /\ from \in Int
  BY <1>0
<1>2. PICK n \in 0..l :
          /\ \A i \in 1..n : h[i] < from
          /\ kept \in Seq(Nat) /\ Len(kept) = l - n
          /\ \A j \in 1..(l - n) : kept[j] = h[n + j]
  <2>1. kept = Since(h, from)
    BY <1>1
  <2>2. PICK n \in 0..Len(h) :
            /\ \A i \in 1..n : h[i] < from
            /\ Since(h, from) \in Seq(Nat) /\ Len(Since(h, from)) = Len(h) - n
            /\ \A j \in 1..(Len(h) - n) : Since(h, from)[j] = h[n + j]
    BY <1>1, SinceFacts
  <2>3. QED BY <1>1, <2>1, <2>2
<1>3. /\ g \in Seq(Nat) /\ Contains(g, t) /\ Len(g) <= Len(kept) + 1 /\ Len(g) \in Nat
      /\ \A u : Contains(kept, u) => Contains(g, u)
  <2>1. CASE Contains(kept, t)
    BY <1>2, <2>1, ElementFacts
  <2>2. CASE ~Contains(kept, t)
    <3>1. /\ g = Append(kept, t) /\ g \in Seq(Nat) /\ Len(g) = Len(kept) + 1
          /\ g[Len(kept) + 1] = t /\ \A i \in 1..Len(kept) : g[i] = kept[i]
          /\ Len(kept) \in Nat
      BY <1>2, <2>2, AppendFacts
    <3>2. Len(kept) + 1 \in 1..Len(g) /\ \A i \in 1..Len(kept) : i \in 1..Len(g)
      BY <3>1
    <3>3. QED BY <3>1, <3>2 DEF Contains
  <2>3. QED BY <2>1, <2>2
<1>4. \A u \in Nat : Contains(h, u) /\ u > t - Window => Contains(g, u)
  <2>1. SUFFICES ASSUME NEW u \in Nat, NEW p \in 1..l, h[p] = u, u > t - Window
                 PROVE  Contains(kept, u)
    BY <1>1, <1>3 DEF Contains
  <2>2. u >= from
    BY <1>1, <2>1, LimitIsPositive
  <2>3. ~(p \in 1..n)
    BY <1>1, <1>2, <2>1, <2>2
  <2>4. p - n \in 1..(l - n) /\ n + (p - n) = p
    BY <1>1, <2>3
  <2>5. QED BY <1>2, <2>1, <2>4 DEF Contains
<1>5. \A i \in 1..Len(a) : a[i] \in Nat /\ (a[i] > t - Window => Contains(g, a[i]))
  BY <1>4, ElementFacts DEF RedisRight, Stored
<1>6. RedisRight(a, g, t)
  BY <1>5 DEF RedisRight, Stored
<1>7. ASSUME Len(kept) <= Limit - 2 PROVE RedisRight(Append(a, t), g, t)
  <2> DEFINE b == Append(a, t)
  <2>1. /\ b \in Seq(Nat) /\ Len(b) = Len(a) + 1 /\ b[Len(a) + 1] = t /\ Len(a) \in Nat
        /\ \A i \in 1..Len(a) : b[i] = a[i]
    BY AppendFacts
  <2> HIDE DEF b
  <2>2. \A i \in 1..Len(b) : b[i] > t - Window => Contains(g, b[i])
    <3>1. \A i \in 1..Len(b) : i \in 1..Len(a) \/ i = Len(a) + 1
      BY <2>1
    <3>2. QED BY <1>3, <1>5, <2>1, <3>1
  <2>3. \A u : u \in ToSet(b) <=> (u \in ToSet(a) \/ u = t)
    <3>1. \A u : /\ u \in ToSet(b) <=> \E i \in 1..Len(b) : b[i] = u
                 /\ u \in ToSet(a) <=> \E i \in 1..Len(a) : a[i] = u
      BY <2>1, FewElements
    <3>2. 1..Len(b) = (1..Len(a)) \cup {Len(a) + 1}
      BY <2>1
    <3>3. QED BY <2>1, <3>1, <3>2
  <2>4. ASSUME NEW start \in Int
        PROVE  /\ IsFiniteSet(SecondsOf(b, start))
               /\ Cardinality(SecondsOf(b, start)) < Limit
    <3>1. CASE start + Window < t
      <4>1. SecondsOf(b, start) = SecondsOf(a, start)
        BY <2>3, <3>1, LimitIsPositive DEF SecondsOf
      <4>2. QED BY <4>1 DEF RedisRight, Sparse
    <3>2. CASE ~(start + Window < t)
      <4>1. ASSUME NEW u \in SecondsOf(b, start) PROVE u \in ToSet(g)
        <5>1. PICK i \in 1..Len(b) : b[i] = u
          BY <2>1, FewElements DEF SecondsOf
        <5>2. u \in Nat /\ start < u
          BY <2>1, <5>1, ElementFacts DEF SecondsOf
        <5>3. u > t - Window
          BY <3>2, <5>2, LimitIsPositive
        <5>4. Contains(g, u)
          BY <2>2, <5>1, <5>3
        <5>5. QED BY <1>3, <5>4, FewElements DEF Contains
      <4>2. IsFiniteSet(ToSet(g)) /\ Cardinality(ToSet(g)) <= Len(g)
        BY <1>3, FewElements
      <4>3. /\ IsFiniteSet(SecondsOf(b, start))
            /\ Cardinality(SecondsOf(b, start)) <= Cardinality(ToSet(g))
        BY <4>1, <4>2, FS_Subset
      <4>4. /\ Cardinality(SecondsOf(b, start)) \in Nat /\ Cardinality(ToSet(g)) \in Nat
            /\ Len(kept) \in Nat
        BY <1>2, <4>2, <4>3, FS_CardinalityType, ElementFacts
      <4>5. QED BY <1>3, <1>7, <4>2, <4>3, <4>4, LimitIsPositive
    <3>3. QED BY <3>1, <3>2
  <2>5. QED BY <2>2, <2>4 DEF b, RedisRight, Stored, Sparse
<1>8. QED BY <1>2, <1>3, <1>6, <1>7

-----------------------------------------------------------------------------
(* The gate: its lists are right for every key.                               *)
KeyRight(key) ==
    IF store = "memory" THEN MemoryRight(admitted[key], hits[key], now)
    ELSE RedisRight(admitted[key], hits[key], now)
GateTyped ==
    /\ now \in 0..MaxTime /\ arrived \in 0..MaxRequests /\ store \in {"memory", "redis"}
    /\ hits \in [Keys -> Seq(Nat)] /\ admitted \in [Keys -> Seq(Nat)]
GateInv == GateTyped /\ \A key \in Keys : KeyRight(key)

IInv == DeviceInv /\ EngineInv /\ GateInv

LEMMA TimePasses ==
    ASSUME NEW a \in Seq(Nat), NEW h \in Seq(Nat), NEW t \in Nat
    PROVE  /\ MemoryRight(a, h, t) => MemoryRight(a, h, t + 1)
           /\ RedisRight(a, h, t) => RedisRight(a, h, t + 1)
<1>1. /\ \A i \in 1..Len(a) : a[i] \in Nat
      /\ \A i \in 1..Len(h) : h[i] \in Nat
  BY ElementFacts
<1>2. Ordered(h, t) => Ordered(h, t + 1)
  BY <1>1 DEF Ordered
<1>3. Covered(a, h, t) => Covered(a, h, t + 1)
  <2>1. \A i \in 1..Len(a) : a[i] < t - Window => a[i] < t + 1 - Window
    BY <1>1, LimitIsPositive
  <2>2. QED BY <1>1, <2>1, LimitIsPositive DEF Covered
<1>4. Stored(a, h, t) => Stored(a, h, t + 1)
  <2>1. \A i \in 1..Len(a) : a[i] > t + 1 - Window => a[i] > t - Window
    BY <1>1, LimitIsPositive
  <2>2. QED BY <1>1, <2>1, LimitIsPositive DEF Stored
<1>5. QED BY <1>2, <1>3, <1>4 DEF MemoryRight, RedisRight

LEMMA EnforceKeepsGate ==
    ASSUME DeviceInv, GateInv, NEW r \in Requests, EnforceRateLimit(r)
    PROVE  GateInv'
<1>1. PICK key, hit :
          /\ key = <<request[r].kind, request[r].user>>
          /\ hit = IF store = "memory" THEN MemoryHit(key) ELSE RedisHit(key)
  OBVIOUS
<1>2. key \in Keys
  BY <1>1, RequestFacts DEF EnforceRateLimit, DeviceInv, Handled, Keys, Kinds
<1>3. /\ UNCHANGED <<now, arrived, store>>
      /\ \/ /\ hits' = [hits EXCEPT ![key] = hit.kept]
            /\ admitted' = admitted
               \/ (hit.left # 0 /\ admitted' = [admitted EXCEPT ![key] = Append(@, now)])
         \/ UNCHANGED <<hits, admitted>>
  BY <1>1 DEF EnforceRateLimit
<1>4. PICK a, h, t, more : a = admitted[key] /\ h = hits[key] /\ t = now /\ more = Append(a, t)
  OBVIOUS
<1>5. /\ a \in Seq(Nat) /\ h \in Seq(Nat) /\ t \in Nat /\ more \in Seq(Nat)
      /\ store = "memory" => MemoryRight(a, h, t)
      /\ store # "memory" => RedisRight(a, h, t)
  BY <1>2, <1>4, AppendFacts, LimitIsPositive DEF GateInv, GateTyped, KeyRight
<1>6. CASE UNCHANGED <<hits, admitted>>
  BY <1>3, <1>6 DEF GateInv, GateTyped, KeyRight
<1>7. CASE hits' = [hits EXCEPT ![key] = hit.kept]
  <2>1. CASE store = "memory"
    <3>1. /\ hit.kept \in Seq(Nat) /\ MemoryRight(a, hit.kept, t)
          /\ hit.left # 0 => MemoryRight(more, hit.kept, t)
      BY <1>1, <1>2, <1>4, <1>5, <2>1, MemoryHitRight
    <3>2. \A k \in Keys : hits'[k] = (IF k = key THEN hit.kept ELSE hits[k])
      BY <1>7 DEF GateInv, GateTyped
    <3>3. CASE admitted' = admitted
      BY <1>2, <1>3, <1>4, <1>7, <2>1, <3>1, <3>2, <3>3 DEF GateInv, GateTyped, KeyRight
    <3>4. CASE hit.left # 0 /\ admitted' = [admitted EXCEPT ![key] = more]
      <4>1. \A k \in Keys : admitted'[k] = (IF k = key THEN more ELSE admitted[k])
        BY <3>4 DEF GateInv, GateTyped
      <4>2. GateTyped'
        BY <1>3, <1>5, <1>7, <3>1, <3>4 DEF GateInv, GateTyped
      <4>3. QED BY <1>3, <1>4, <2>1, <3>1, <3>2, <3>4, <4>1, <4>2 DEF GateInv, KeyRight
    <3>5. QED BY <1>3, <1>4, <3>3, <3>4, <1>6
  <2>2. CASE store # "memory"
    <3>1. PICK kept, g : /\ kept = Since(h, t - Window + 1)
                         /\ g = IF Contains(kept, t) THEN kept ELSE Append(kept, t)
      OBVIOUS
    <3>2. /\ hit.kept = g /\ kept \in Seq(Nat) /\ g \in Seq(Nat)
          /\ hit.left = IF Len(kept) >= Limit THEN 0 ELSE Limit - Len(kept) - 1
          /\ RedisRight(a, g, t)
          /\ Len(kept) <= Limit - 2 => RedisRight(more, g, t)
      <4>1. /\ kept \in Seq(Nat) /\ g \in Seq(Nat) /\ RedisRight(a, g, t)
            /\ Len(kept) <= Limit - 2 => RedisRight(Append(a, t), g, t)
        <5>1. RedisRight(a, h, t)
          BY <1>5, <2>2
        <5>2. QED BY <1>5, <3>1, <5>1, RedisStores
      <4>2. /\ hit.kept = g
            /\ hit.left = IF Len(kept) >= Limit THEN 0 ELSE Limit - Len(kept) - 1
        BY <1>1, <1>4, <2>2, <3>1 DEF RedisHit
      <4>3. QED BY <1>4, <4>1, <4>2
    <3>3. Len(kept) \in Nat /\ (hit.left # 0 => Len(kept) <= Limit - 2)
      BY <3>2, ElementFacts, LimitIsPositive
    <3>4. RedisRight(a, g, t) /\ (hit.left # 0 => RedisRight(more, g, t))
      BY <3>2, <3>3
    <3>5. \A k \in Keys : hits'[k] = (IF k = key THEN g ELSE hits[k])
      BY <1>7, <3>2 DEF GateInv, GateTyped
    <3>6. CASE admitted' = admitted
      <4>1. GateTyped'
        BY <1>3, <1>7, <3>2, <3>6 DEF GateInv, GateTyped
      <4>2. QED BY <1>3, <1>4, <2>2, <3>4, <3>5, <3>6, <4>1 DEF GateInv, KeyRight
    <3>7. CASE hit.left # 0 /\ admitted' = [admitted EXCEPT ![key] = more]
      <4>1. \A k \in Keys : admitted'[k] = (IF k = key THEN more ELSE admitted[k])
        BY <3>7 DEF GateInv, GateTyped
      <4>2. GateTyped'
        BY <1>3, <1>5, <1>7, <3>2, <3>7 DEF GateInv, GateTyped
      <4>3. QED BY <1>3, <1>4, <2>2, <3>4, <3>5, <3>7, <4>1, <4>2 DEF GateInv, KeyRight
    <3>8. QED BY <1>3, <1>4, <3>6, <3>7, <1>6
  <2>3. QED BY <2>1, <2>2
<1>8. QED BY <1>3, <1>6, <1>7

LEMMA GateNext ==
    ASSUME IInv, [Next]_vars
    PROVE  GateInv'
<1>1. ASSUME NEW r \in Requests, NEW kind \in Kinds, NEW u \in Users,
             NEW secret \in Secrets \cup {None}, NEW f \in Fingerprints \cup {None},
             Arrive(r, kind, u, secret, f)
      PROVE  GateInv'
  <2>1. arrived' \in 0..MaxRequests
    BY <1>1, GateAssumption DEF Arrive, IInv, GateInv, GateTyped, GateAssumption
  <2>2. UNCHANGED <<now, store, hits, admitted>>
    BY <1>1 DEF Arrive
  <2>3. QED BY <2>1, <2>2 DEF IInv, GateInv, GateTyped, KeyRight
<1>2. ASSUME NEW r \in Requests, EnforceRateLimit(r) PROVE GateInv'
  BY <1>2, EnforceKeepsGate DEF IInv
<1>3. CASE UNCHANGED gateVars
  BY <1>3 DEF gateVars, IInv, GateInv, GateTyped, KeyRight
<1>4. CASE Tick
  <2>1. /\ UNCHANGED <<arrived, store, hits, admitted>> /\ now' = now + 1
        /\ now \in Nat /\ now' \in 0..MaxTime
    BY <1>4, LimitIsPositive DEF Tick, IInv, GateInv, GateTyped
  <2>2. ASSUME NEW key \in Keys PROVE KeyRight(key)'
    <3>1. admitted[key] \in Seq(Nat) /\ hits[key] \in Seq(Nat) /\ KeyRight(key)
      BY DEF IInv, GateInv, GateTyped
    <3>2. QED BY <2>1, <3>1, TimePasses DEF KeyRight
  <2>3. QED BY <2>1, <2>2 DEF IInv, GateInv, GateTyped
<1>5. QED BY <1>1, <1>2, <1>3, <1>4 DEF Next, vars

LEMMA DeviceKept ==
    ASSUME DeviceInv, [Next]_vars
    PROVE  DeviceInv'
<1>1. CASE UNCHANGED deviceVars
  <2>1. UNCHANGED <<device, request, dead, revived>>
    BY <1>1 DEF deviceVars
  <2>2. QED BY <2>1 DEF DeviceInv, DeviceTyped, Handled, LateWrites, ReadsLive,
                        DeadSecretsStayDead
<1>2. CASE Tick
  BY <1>1, <1>2 DEF Tick
<1>3. QED BY <1>1, <1>2, ArriveKeepsDevice, EnforceKeepsDevice, DeviceNextKeeps
          DEF Next, vars

-----------------------------------------------------------------------------
LEMMA InitInv == Init => IInv
<1> SUFFICES ASSUME Init PROVE IInv
  OBVIOUS
<1>1. DeviceInv
  <2>1. \A r \in Requests : request[r] = Free
    BY DEF Init, DeviceInit
  <2>2. DeviceTyped
    BY <2>1, FreeRecord DEF Init, DeviceInit, DeviceTyped, Handled
  <2>3. LateWrites /\ ReadsLive /\ DeadSecretsStayDead
    BY <2>1, FreeRecord DEF Init, DeviceInit, LateWrites, ReadsLive, DeadSecretsStayDead
  <2>4. QED BY <2>2, <2>3 DEF DeviceInv
<1>2. EngineInv
  <2>1. EngineTyped
    BY LimitIsPositive, GateAssumption
       DEF Init, EngineTyped, Actions, MaxCount, GateAssumption
  <2>2. OnlyScriptsKnown /\ BlocksRemembered
    BY DEF Init, OnlyScriptsKnown, BlocksRemembered
  <2>3. QED BY <2>1, <2>2 DEF EngineInv
<1>3. GateInv
  <2>1. GateTyped
    BY LimitIsPositive, GateAssumption DEF Init, GateTyped, GateAssumption
  <2>2. ASSUME NEW key \in Keys PROVE KeyRight(key)
    <3>1. admitted[key] = << >> /\ hits[key] = << >> /\ Len(<< >>) = 0
      BY DEF Init
    <3>2. MemoryRight(<< >>, << >>, now)
      BY LimitIsPositive DEF MemoryRight, Ordered, Covered, Spread
    <3>3. \A from \in Int : SecondsOf(<< >>, from) = {}
      BY DEF SecondsOf, ToSet
    <3>4. RedisRight(<< >>, << >>, now)
      <4>1. IsFiniteSet({}) /\ Cardinality({}) = 0
        BY FS_EmptySet
      <4>2. Sparse(<< >>)
        <5>1. ASSUME NEW from \in Int
              PROVE  /\ IsFiniteSet(SecondsOf(<< >>, from))
                     /\ Cardinality(SecondsOf(<< >>, from)) < Limit
          <6>1. SecondsOf(<< >>, from) = {}
            BY <3>3
          <6>2. IsFiniteSet(SecondsOf(<< >>, from)) /\ Cardinality(SecondsOf(<< >>, from)) = 0
            BY <4>1, <6>1, Zenon
          <6>3. QED BY <6>2, LimitIsPositive
        <5>2. QED BY <5>1 DEF Sparse
      <4>3. Stored(<< >>, << >>, now)
        BY DEF Stored
      <4>4. QED BY <4>2, <4>3 DEF RedisRight
    <3>5. QED BY <3>1, <3>2, <3>4 DEF KeyRight
  <2>3. QED BY <2>1, <2>2 DEF GateInv
<1>4. QED BY <1>1, <1>2, <1>3 DEF IInv

LEMMA NextInv == IInv /\ [Next]_vars => IInv'
BY DeviceKept, EngineNext, GateNext DEF IInv

LEMMA Inductive == Spec => []IInv
BY InitInv, NextInv, PTL DEF Spec

-----------------------------------------------------------------------------
(* Every variable has its type, and the memory store keeps no more times of a *)
(* key than the limit.                                                        *)
THEOREM TypeCorrectness == Spec => []TypeOK
<1>1. IInv => TypeOK
  <2> SUFFICES ASSUME IInv PROVE TypeOK
    OBVIOUS
  <2>1. DeviceTypeOK
    <3>1. \A r \in Requests : request[r] \in RequestRecords /\ Handled(request[r])
      BY RequestFacts DEF IInv, DeviceInv
    <3>2. QED BY <3>1 DEF IInv, DeviceInv, DeviceTyped, DeviceTypeOK, RequestRecords
  <2>2. \A k \in Keys : Len(hits[k]) <= Limit \/ store = "redis"
    BY DEF IInv, GateInv, GateTyped, KeyRight, MemoryRight
  <2>3. QED BY <2>1, <2>2 DEF IInv, EngineInv, EngineTyped, GateInv, GateTyped, TypeOK
<1>2. QED BY <1>1, Inductive, PTL

(* However many users register, list and revoke at a time, a secret that a    *)
(* revocation removed signs nothing until it is registered again, unless a    *)
(* registration had read the session before.                                  *)
THEOREM DeadSecrets == Spec => []DeadSecretsStayDead
<1>1. IInv => DeadSecretsStayDead
  BY DEF IInv, DeviceInv
<1>2. QED BY <1>1, Inductive, PTL

(* For every limit and window: in memory no window of time sees as many       *)
(* requests of a key let through as the limit says, and under Redis none sees *)
(* requests let through in as many different seconds.                         *)
THEOREM NeverReachesLimit == Spec => []LimitNeverReached
<1>1. IInv => LimitNeverReached
  <2> SUFFICES ASSUME IInv, NEW key \in Keys, NEW from \in 0..now
               PROVE  IF store = "redis" THEN Cardinality(Seconds(key, from)) < Limit
                      ELSE Cardinality(Within(key, from)) < Limit
    BY DEF LimitNeverReached
  <2>1. /\ admitted[key] \in Seq(Nat) /\ from \in Nat /\ from \in Int /\ KeyRight(key)
        /\ store \in {"memory", "redis"}
    BY DEF IInv, GateInv, GateTyped
  <2>2. CASE store = "redis"
    <3>1. Sparse(admitted[key])
      BY <2>1, <2>2 DEF KeyRight, RedisRight
    <3>2. Seconds(key, from) = SecondsOf(admitted[key], from)
      BY DEF Seconds, SecondsOf
    <3>3. QED BY <2>1, <2>2, <3>1, <3>2 DEF Sparse
  <2>3. CASE store = "memory"
    <3>1. Spread(admitted[key])
      BY <2>1, <2>3 DEF KeyRight, MemoryRight
    <3>2. QED BY <2>1, <2>3, <3>1, MemoryWindow DEF Within
  <2>4. QED BY <2>1, <2>2, <2>3
<1>2. QED BY <1>1, Inductive, PTL

(* Adaptive protection escalates: it blocks only a script whose warning it    *)
(* still remembers, and lets it in again only when that is forgotten.         *)
THEOREM Escalation == Spec => BlocksEscalate
<1>1. IInv /\ [Next]_vars => [Escalates]_vars
  BY EngineNext DEF IInv
<1>2. Spec => [][Escalates]_vars
  BY <1>1, Inductive, PTL DEF Spec
<1>3. QED BY <1>2, PTL DEF BlocksEscalate, Escalates
=============================================================================
