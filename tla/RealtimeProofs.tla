---------------------------- MODULE RealtimeProofs ----------------------------
(* The broadcaster and the app's client, for any number of publishers, events,*)
(* failures and disconnections, and for queues and buffers of every size.     *)
EXTENDS RealtimeClient, SequenceTheorems, WellFoundedInduction, TLAPS

-----------------------------------------------------------------------------
(* A set of naturals has a least element.                                     *)
LEMMA LeastNatural ==
    ASSUME NEW T \in SUBSET Nat, T # {}
    PROVE  \E n \in T : \A m \in T : n <= m
<1> DEFINE R == {p \in Nat \X Nat : p[1] < p[2]}
<1>1. R = OpToRel(<, Nat)
  BY Zenon DEF OpToRel
<1>2. IsWellFoundedOn(R, Nat)
  BY <1>1, NatLessThanWellFounded, Zenon
<1>3. \A m, n \in Nat : m < n => <<m, n>> \in R
  OBVIOUS
<1> HIDE DEF R
<1>4. PICK n \in T : \A m \in T : ~(<<m, n>> \in R)
  BY <1>2, WFMin
<1>5. \A m \in T : ~(m < n)
  BY <1>3, <1>4
<1>6. \A m \in T : n <= m
  BY <1>5
<1>7. QED BY <1>6

(* What the parts of a list hold.                                             *)
LEMMA Elements ==
    ASSUME NEW T, NEW s \in Seq(T)
    PROVE  /\ \A e : e \in ToSet(s) <=> \E i \in 1..Len(s) : s[i] = e
           /\ ToSet(s) \subseteq T /\ Len(s) \in Nat
<1>1. DOMAIN s = 1..Len(s) /\ Len(s) \in Nat /\ \A i \in 1..Len(s) : s[i] \in T
  OBVIOUS
<1>2. QED BY <1>1 DEF ToSet

LEMMA AppendFacts ==
    ASSUME NEW T, NEW s \in Seq(T), NEW e \in T
    PROVE  /\ Append(s, e) \in Seq(T) /\ Len(Append(s, e)) = Len(s) + 1
           /\ Append(s, e)[Len(s) + 1] = e
           /\ \A i \in 1..Len(s) : Append(s, e)[i] = s[i]
           /\ ToSet(Append(s, e)) = ToSet(s) \cup {e}
<1> DEFINE a == Append(s, e)
<1>1. /\ a \in Seq(T) /\ Len(a) = Len(s) + 1 /\ a[Len(s) + 1] = e /\ Len(s) \in Nat
      /\ \A i \in 1..Len(s) : a[i] = s[i]
  OBVIOUS
<1> HIDE DEF a
<1>2. 1..Len(a) = (1..Len(s)) \cup {Len(s) + 1}
  BY <1>1
<1>3. /\ \A x : x \in ToSet(a) <=> \E i \in 1..Len(a) : a[i] = x
      /\ \A x : x \in ToSet(s) <=> \E i \in 1..Len(s) : s[i] = x
  BY <1>1, Elements
<1>4. ToSet(a) = ToSet(s) \cup {e}
  BY <1>1, <1>2, <1>3
<1>5. QED BY <1>1, <1>4 DEF a

(* A list without its first d entries.                                        *)
Drops(s, t, d) ==
    /\ d \in 0..Len(s) /\ Len(t) = Len(s) - d
    /\ \A i \in 1..Len(t) : t[i] = s[d + i]

LEMMA DropsHolds ==
    ASSUME NEW T, NEW s \in Seq(T), NEW t \in Seq(T), NEW d, Drops(s, t, d)
    PROVE  ToSet(t) \subseteq ToSet(s)
<1>1. /\ \A x : x \in ToSet(t) <=> \E i \in 1..Len(t) : t[i] = x
      /\ \A x : x \in ToSet(s) <=> \E i \in 1..Len(s) : s[i] = x
      /\ Len(s) \in Nat /\ Len(t) \in Nat
  BY Elements
<1>2. \A i \in 1..Len(t) : d + i \in 1..Len(s) /\ t[i] = s[d + i]
  BY <1>1 DEF Drops
<1>3. QED BY <1>1, <1>2

LEMMA RestFacts ==
    ASSUME NEW T, NEW s \in Seq(T), NEW d \in 0..Len(s)
    PROVE  SubSeq(s, d + 1, Len(s)) \in Seq(T) /\ Drops(s, SubSeq(s, d + 1, Len(s)), d)
BY DEF Drops

LEMMA NewestFacts ==
    ASSUME NEW T, NEW s \in Seq(T), NEW n \in Nat
    PROVE  /\ Newest(s, n) \in Seq(T) /\ Len(Newest(s, n)) <= n
           /\ \E d : Drops(s, Newest(s, n), d)
           /\ n > 0 /\ Len(s) > 0 => Len(Newest(s, n)) > 0
<1>1. Len(s) \in Nat
  OBVIOUS
<1>2. CASE Len(s) > n
  <2>1. PICK d : d = Len(s) - n /\ d \in 0..Len(s) /\ Len(s) - n + 1 = d + 1
    BY <1>1, <1>2
  <2>2. Newest(s, n) = SubSeq(s, d + 1, Len(s))
    BY <1>2, <2>1 DEF Newest
  <2>3. SubSeq(s, d + 1, Len(s)) \in Seq(T) /\ Drops(s, SubSeq(s, d + 1, Len(s)), d)
    BY <2>1, RestFacts
  <2>4. Len(SubSeq(s, d + 1, Len(s))) = n
    BY <1>1, <2>1, <2>3 DEF Drops
  <2>5. QED BY <2>2, <2>3, <2>4
<1>3. CASE ~(Len(s) > n)
  <2>1. Newest(s, n) = s
    BY <1>3 DEF Newest
  <2>2. Drops(s, s, 0)
    BY <1>1 DEF Drops
  <2>3. QED BY <1>1, <1>3, <2>1, <2>2
<1>4. QED BY <1>2, <1>3

LEMMA AfterFacts ==
    ASSUME NEW s \in Seq(Events), NEW id \in Nat
    PROVE  /\ After(s, id) \in Seq(Events)
           /\ \E d : /\ Drops(s, After(s, id), d)
                     /\ id = 0 => d = 0
                     /\ id # 0 => IF \E i \in 1..Len(s) : s[i].id = id
                                  THEN d \in 1..Len(s) /\ s[d].id = id
                                  ELSE d = Len(s)
<1> DEFINE found == {i \in 1..Len(s) : s[i].id = id}
<1>1. Len(s) \in Nat
  OBVIOUS
<1>2. CASE id = 0
  <2>1. After(s, id) = s
    BY <1>2 DEF After
  <2>2. Drops(s, s, 0)
    BY <1>1 DEF Drops
  <2>3. QED BY <1>2, <2>1, <2>2
<1>3. CASE id # 0 /\ found = {}
  <2>1. After(s, id) = << >>
    BY <1>3 DEF After
  <2>2. Drops(s, << >>, Len(s))
    BY <1>1 DEF Drops
  <2>3. QED BY <1>3, <2>1, <2>2
<1>4. CASE id # 0 /\ found # {}
  <2>1. PICK d : d = CHOOSE i \in found : \A j \in found : i <= j
    OBVIOUS
  <2>2. found \in SUBSET Nat
    BY <1>1
  <2>3. \E i \in found : \A j \in found : i <= j
    <3> HIDE DEF found
    <3>1. QED BY <1>4, <2>2, LeastNatural
  <2>4. d \in found
    <3> HIDE DEF found
    <3>1. QED BY <2>1, <2>3
  <2>5. After(s, id) = SubSeq(s, d + 1, Len(s))
    BY <1>4, <2>1 DEF After
  <2>6. d \in 0..Len(s) /\ d \in 1..Len(s) /\ s[d].id = id
    BY <1>1, <2>4
  <2>7. SubSeq(s, d + 1, Len(s)) \in Seq(Events) /\ Drops(s, SubSeq(s, d + 1, Len(s)), d)
    BY <2>6, RestFacts
  <2>8. QED BY <1>4, <2>5, <2>6, <2>7
<1>5. QED BY <1>2, <1>3, <1>4

(* The recursion of StoredOnly is that of a function, and selects.            *)
LEMMA StoredOnlyFacts ==
    ASSUME NEW s \in Seq(Events)
    PROVE  /\ StoredOnly(s) \in Seq(Events)
           /\ ToSet(StoredOnly(s)) \subseteq {e \in ToSet(s) : e.stored}
<1> DEFINE Right(F, l) ==
               F = [n \in 0..l |->
                       IF n = 0 THEN << >>
                       ELSE IF s[n].stored THEN Append(F[n - 1], s[n]) ELSE F[n - 1]]
           Wrong == {l \in 0..Len(s) : ~\E F : Right(F, l)}
<1>1. Len(s) \in Nat /\ \A i \in 1..Len(s) : s[i] \in Events
  OBVIOUS
<1>2. Wrong = {}
  <2>1. SUFFICES ASSUME Wrong # {} PROVE FALSE
    OBVIOUS
  <2>2. Wrong \in SUBSET Nat
    BY <1>1
  <2>3. PICK l \in Wrong : \A m \in Wrong : l <= m
    <3> HIDE DEF Wrong
    <3>1. QED BY <2>1, <2>2, LeastNatural
  <2>4. l # 0
    <3>1. Right([n \in 0..0 |-> << >>], 0)
      OBVIOUS
    <3>2. QED BY <2>3, <3>1
  <2>5. l - 1 \in 0..Len(s) /\ l \in 0..Len(s) /\ l - 1 < l /\ l \in Nat
    BY <1>1, <2>3, <2>4
  <2>6. PICK F : Right(F, l - 1)
    <3>1. l - 1 \notin Wrong
      <4> HIDE DEF Wrong
      <4>1. ~(l <= l - 1)
        BY <2>5
      <4>2. QED BY <2>3, <4>1
    <3>2. QED BY <2>5, <3>1
  <2> DEFINE G == [n \in 0..l |->
                      IF n = l THEN IF s[l].stored THEN Append(F[l - 1], s[l]) ELSE F[l - 1]
                      ELSE F[n]]
  <2>7. ASSUME NEW n \in 0..l
        PROVE  G[n] = IF n = 0 THEN << >>
                      ELSE IF s[n].stored THEN Append(G[n - 1], s[n]) ELSE G[n - 1]
    <3>1. CASE n = l
      <4>1. l - 1 \in 0..l /\ l - 1 # l
        BY <2>5
      <4>2. G[l - 1] = F[l - 1]
        BY <4>1
      <4>3. QED BY <2>4, <3>1, <4>2
    <3>2. CASE n # l
      <4>1. n \in 0..(l - 1) /\ (n # 0 => n - 1 \in 0..l /\ n - 1 # l)
        BY <2>5, <3>2
      <4>2. F[n] = IF n = 0 THEN << >>
                   ELSE IF s[n].stored THEN Append(F[n - 1], s[n]) ELSE F[n - 1]
        BY <2>6, <4>1
      <4>3. QED BY <3>2, <4>1, <4>2
    <3>3. QED BY <3>1, <3>2
  <2>8. Right(G, l)
    <3>1. G = [n \in 0..l |-> G[n]]
      OBVIOUS
    <3> HIDE DEF G
    <3>2. QED BY <2>7, <3>1
  <2>9. QED BY <2>3, <2>8
<1>3. PICK F : Right(F, Len(s)) /\ StoredOnly(s) = F[Len(s)]
  <2>1. \E F : Right(F, Len(s))
    <3>1. Len(s) \notin Wrong
      <4> HIDE DEF Wrong
      <4>1. QED BY <1>2
    <3>2. QED BY <1>1, <3>1
  <2>2. PICK F : F = CHOOSE H : Right(H, Len(s))
    OBVIOUS
  <2>3. Right(F, Len(s))
    <3> HIDE DEF Right
    <3>1. QED BY <2>1, <2>2
  <2>4. StoredOnly(s) = F[Len(s)]
    BY <2>2 DEF StoredOnly
  <2>5. QED BY <2>3, <2>4
<1> DEFINE P(t) == t \in Seq(Events) /\ ToSet(t) \subseteq {e \in ToSet(s) : e.stored}
           Bad == {n \in 0..Len(s) : ~P(F[n])}
<1>4. Bad = {}
  <2>1. SUFFICES ASSUME Bad # {} PROVE FALSE
    OBVIOUS
  <2>2. Bad \in SUBSET Nat
    BY <1>1
  <2>3. PICK l \in Bad : \A m \in Bad : l <= m
    <3> HIDE DEF Bad
    <3>1. QED BY <2>1, <2>2, LeastNatural
  <2>4. l # 0
    <3>1. F[0] = << >>
      BY <1>1, <1>3
    <3>2. P(<< >>)
      BY DEF ToSet
    <3>3. QED BY <2>3, <3>1, <3>2
  <2>5. l - 1 \in 0..Len(s) /\ l \in 1..Len(s) /\ l \in 0..Len(s) /\ l - 1 < l
    BY <1>1, <2>3, <2>4
  <2>6. P(F[l - 1])
    BY <2>3, <2>5
  <2>7. F[l] = IF s[l].stored THEN Append(F[l - 1], s[l]) ELSE F[l - 1]
    BY <1>3, <2>4, <2>5
  <2>8. s[l] \in Events /\ s[l] \in ToSet(s)
    BY <1>1, <2>5, Elements
  <2>9. s[l].stored => P(Append(F[l - 1], s[l]))
    BY <2>6, <2>8, AppendFacts
  <2>10. QED BY <2>3, <2>6, <2>7, <2>9
<1>5. Len(s) \notin Bad
  <2> HIDE DEF Bad
  <2>1. QED BY <1>4
<1>6. P(F[Len(s)])
  BY <1>1, <1>5
<1>7. QED BY <1>3, <1>6

(* A list without its k-th entry.                                             *)
LEMMA RemoveAtFacts ==
    ASSUME NEW T, NEW s \in Seq(T), NEW k \in 1..Len(s)
    PROVE  /\ RemoveAt(s, k) \in Seq(T)
           /\ \A i \in 1..Len(RemoveAt(s, k)) :
                  \E j \in 1..Len(s) : RemoveAt(s, k)[i] = s[j]
           /\ \A j \in 1..Len(s) : j # k =>
                  \E i \in 1..Len(RemoveAt(s, k)) : RemoveAt(s, k)[i] = s[j]
<1> DEFINE a == SubSeq(s, 1, k - 1)
           b == SubSeq(s, k + 1, Len(s))
<1>1. Len(s) \in Nat /\ k \in Nat /\ k <= Len(s) /\ k >= 1
  OBVIOUS
<1>2. /\ a \in Seq(T) /\ Len(a) = k - 1
      /\ \A i \in 1..(k - 1) : a[i] = s[i] /\ i \in 1..Len(s)
  BY <1>1
<1>3. /\ b \in Seq(T) /\ Len(b) = Len(s) - k
      /\ \A i \in 1..(Len(s) - k) : b[i] = s[k + i] /\ k + i \in 1..Len(s)
  BY <1>1
<1>4. RemoveAt(s, k) = a \o b
  BY DEF RemoveAt
<1> HIDE DEF a, b
<1>5. /\ a \o b \in Seq(T) /\ Len(a \o b) = Len(a) + Len(b)
      /\ \A i \in 1..(Len(a) + Len(b)) :
             (a \o b)[i] = IF i <= Len(a) THEN a[i] ELSE b[i - Len(a)]
  BY <1>2, <1>3, ConcatProperties
<1>6. ASSUME NEW i \in 1..(Len(a) + Len(b))
      PROVE  \E j \in 1..Len(s) : (a \o b)[i] = s[j]
  <2>1. CASE i <= Len(a)
    BY <1>1, <1>2, <1>5, <2>1
  <2>2. CASE ~(i <= Len(a))
    <3>1. i - Len(a) \in 1..(Len(s) - k)
      BY <1>1, <1>2, <1>3, <2>2
    <3>2. QED BY <1>3, <1>5, <2>2, <3>1
  <2>3. QED BY <2>1, <2>2
<1>7. ASSUME NEW j \in 1..Len(s), j # k
      PROVE  \E i \in 1..(Len(a) + Len(b)) : (a \o b)[i] = s[j]
  <2>1. CASE j < k
    <3>1. j \in 1..(Len(a) + Len(b)) /\ j <= Len(a) /\ a[j] = s[j]
      BY <1>1, <1>2, <1>3, <2>1
    <3>2. QED BY <1>5, <3>1
  <2>2. CASE j > k
    <3>1. /\ j - k \in 1..(Len(s) - k) /\ k + (j - k) = j
          /\ j - 1 \in 1..(Len(a) + Len(b)) /\ ~(j - 1 <= Len(a))
          /\ (j - 1) - Len(a) = j - k
      BY <1>1, <1>2, <1>3, <2>2
    <3>2. (a \o b)[j - 1] = s[j]
      BY <1>3, <1>5, <3>1
    <3>3. QED BY <3>1, <3>2
  <2>3. QED BY <1>1, <1>7, <2>1, <2>2
<1>8. QED BY <1>4, <1>5, <1>6, <1>7

(* The rest of a list that is not empty.                                      *)
LEMMA TailFacts ==
    ASSUME NEW T, NEW s \in Seq(T), s # << >>
    PROVE  /\ Head(s) = s[1] /\ Head(s) \in T /\ Tail(s) \in Seq(T)
           /\ Len(s) \in Nat /\ Len(s) > 0 /\ Len(Tail(s)) = Len(s) - 1
           /\ \A i \in 1..(Len(s) - 1) : Tail(s)[i] = s[i + 1]
OBVIOUS

(* What a registration offers comes from the buffer or from the stream.       *)
LEMMA ReplayedFacts ==
    ASSUME replay \in Seq(Events), stream \in Seq(Events), NEW id \in Nat,
           NEW failed \in BOOLEAN
    PROVE  /\ Replayed(id, failed) \in Seq(Events)
           /\ ToSet(Replayed(id, failed)) \subseteq ToSet(stream) \cup ToSet(replay)
           /\ ~failed /\ mode # "streams" => Replayed(id, failed) = After(replay, id)
<1> DEFINE newest == Newest(stream, ReplaySize)
           kept == After(newest, EventAt(id))
           buffered == After(replay, id)
<1>1. ReplaySize \in Nat /\ EventAt(id) \in Nat
  BY BroadcasterAssumption DEF BroadcasterAssumption, EventAt
<1>2. newest \in Seq(Events) /\ ToSet(newest) \subseteq ToSet(stream)
  BY <1>1, NewestFacts, DropsHolds
<1>3. kept \in Seq(Events) /\ ToSet(kept) \subseteq ToSet(newest)
  <2> HIDE DEF newest
  <2>1. QED BY <1>1, <1>2, AfterFacts, DropsHolds
<1>4. buffered \in Seq(Events) /\ ToSet(buffered) \subseteq ToSet(replay)
  BY AfterFacts, DropsHolds
<1>5. /\ StoredOnly(buffered) \in Seq(Events)
      /\ ToSet(StoredOnly(buffered)) \subseteq {e \in ToSet(buffered) : e.stored}
  <2> HIDE DEF buffered
  <2>1. QED BY <1>4, StoredOnlyFacts
<1>6. Replayed(id, failed) =
          IF failed THEN replay
          ELSE IF mode # "streams" THEN buffered
          ELSE IF id # 0 /\ kept = << >> THEN StoredOnly(buffered) ELSE kept
  BY DEF Replayed
<1> HIDE DEF newest, kept, buffered
<1>7. /\ Replayed(id, failed) \in Seq(Events)
      /\ ToSet(Replayed(id, failed)) \subseteq ToSet(stream) \cup ToSet(replay)
  BY <1>2, <1>3, <1>4, <1>5, <1>6
<1>8. QED BY <1>6, <1>7 DEF buffered

-----------------------------------------------------------------------------
(* Every copy of an event, wherever it is on its way.                         *)
Busy == {p \in Publishers : publisher[p].pc # "idle"}
Carried == {publisher[p].event : p \in Busy}
Copies == Carried \cup wire \cup reorder \cup ToSet(replay) \cup ToSet(queue)
          \cup ToSet(stream)
Offsets == {e.id : e \in ToSet(stream)}

PublisherRecords ==
    [pc : {"idle", "counting", "numbered", "stored"}, event : Events]
BTyped ==
    /\ mode \in {"memory", "pubsub", "streams"}
    /\ events \in 0..MaxEvents /\ shared \in 0..events /\ local \in 0..events
    /\ publisher \in [Publishers -> PublisherRecords]
    /\ \A p \in Publishers : /\ publisher[p].event.seq <= events
                             /\ publisher[p].pc \in {"counting", "numbered"} =>
                                    ~publisher[p].event.stored
    /\ stream \in Seq(Events) /\ replay \in Seq(Events) /\ queue \in Seq(Events)
    /\ Len(queue) <= QueueSize /\ Len(replay) <= ReplaySize
    /\ wire \subseteq Events /\ sent \subseteq 1..events /\ lost \subseteq Causes
    /\ sub \in {"none", "live", "pruned"} /\ degraded \in BOOLEAN
IdsKnown == \A e \in Copies : e.id \in 1..events

(* What a step does to the copies: those that are new are of the one event    *)
(* that was published, or have just got their offset.                         *)
Moves ==
    /\ mode' = mode /\ events' \in {events, events + 1} /\ (degraded => degraded')
    /\ lost \subseteq lost' /\ sent \subseteq sent' /\ Offsets \subseteq Offsets'
    /\ \E seq \in Nat : \A e \in Copies' :
           \/ e \in Copies
           \/ events' = events + 1 /\ e.id = events + 1 /\ e.seq = seq /\ ~e.stored
           \/ \E f \in Copies :
                 /\ e = [f EXCEPT !.stored = TRUE]
                 /\ mode = "streams" /\ ~degraded' => e.id \in Offsets'

BEffects ==
    /\ BTyped' /\ Moves
    /\ sub' = "none" <=> sub = "none"
    /\ sub = "none" => queue' = queue

LEMMA Bounds ==
    /\ MaxEvents \in Nat /\ MaxEvents > 0 /\ QueueSize \in Nat /\ QueueSize > 0
    /\ ReplaySize \in Nat /\ ReplaySize > 0 /\ MaxGap \in Nat /\ MaxGap > 0
BY BroadcasterAssumption, ClientAssumption DEF BroadcasterAssumption, ClientAssumption

LEMMA PublisherFacts ==
    ASSUME BTyped, NEW p \in Publishers
    PROVE  /\ publisher[p] \in PublisherRecords /\ publisher[p].event \in Events
           /\ publisher[p].pc # "idle" => publisher[p].event \in Carried
BY DEF BTyped, PublisherRecords, Carried, Busy

(* A step of one publisher: it carries e from now on, or nothing.             *)
LEMMA PublisherMoves ==
    ASSUME BTyped, NEW p \in Publishers, NEW r \in PublisherRecords,
           publisher' = [publisher EXCEPT ![p] = r]
    PROVE  /\ publisher' \in [Publishers -> PublisherRecords] /\ publisher'[p] = r
           /\ \A q \in Publishers : q # p => publisher'[q] = publisher[q]
           /\ Carried' \subseteq Carried \cup {r.event}
           /\ r.pc = "idle" => Carried' \subseteq Carried
<1>1. /\ publisher' \in [Publishers -> PublisherRecords] /\ publisher'[p] = r
      /\ \A q \in Publishers : q # p => publisher'[q] = publisher[q]
  BY DEF BTyped
<1>2. QED BY <1>1 DEF Carried, Busy

LEMMA QuietRecord == Quiet \in PublisherRecords /\ Quiet.pc = "idle" /\ Quiet.event.seq = 0
BY Bounds DEF Quiet, PublisherRecords, Events

LEMMA PublishEffects ==
    ASSUME BTyped, NEW p \in Publishers, NEW mine \in BOOLEAN, Publish(p, mine),
           UNCHANGED reorder
    PROVE  BEffects
<1>1. /\ events \in Nat /\ events + 1 \in 1..MaxEvents /\ events' = events + 1
      /\ shared \in 0..events /\ local \in 0..events
      /\ UNCHANGED <<mode, local, stream, wire, degraded, replay, sub, queue, sent>>
  BY Bounds DEF Publish, BTyped
<1>2. PICK r \in PublisherRecords :
          /\ publisher' = [publisher EXCEPT ![p] = r] /\ r.event.id = events + 1
          /\ ~r.event.stored /\ r.event.seq \in 0..(events + 1)
          /\ shared' \in 0..(events + 1) /\ lost \subseteq lost' /\ lost' \subseteq Causes
  <2> PICK e : e = [id |-> events + 1, seq |-> 0, stored |-> FALSE]
    OBVIOUS
  <2>1. e \in Events /\ e.id = events + 1 /\ e.seq = 0 /\ ~e.stored
    BY <1>1, Bounds DEF Events
  <2>2. ASSUME NEW n \in 0..(events + 1)
        PROVE  \E f \in Events : /\ f = [e EXCEPT !.seq = n] /\ f.id = events + 1
                                 /\ f.seq = n /\ ~f.stored
    <3> DEFINE f == [e EXCEPT !.seq = n]
    <3>1. n \in 0..MaxEvents
      BY <1>1, Bounds
    <3>2. f \in Events /\ f.id = events + 1 /\ f.seq = n /\ ~f.stored
      BY <2>1, <3>1 DEF Events
    <3> HIDE DEF f
    <3>3. QED BY <3>2 DEF f
  <2>3. /\ 0 \in 0..(events + 1) /\ shared + 1 \in 0..(events + 1)
        /\ local + 1 \in 0..(events + 1) /\ shared \in 0..(events + 1)
    BY <1>1
  <2>4. PICK pc \in {"numbered", "counting"}, f \in Events :
            /\ publisher' = [publisher EXCEPT ![p] = [pc |-> pc, event |-> f]]
            /\ f.id = events + 1 /\ f.seq \in 0..(events + 1) /\ ~f.stored
            /\ shared' \in 0..(events + 1)
    <3>1. CASE At(p, "numbered", e) /\ shared' = shared
      BY <2>1, <2>3, <3>1 DEF At
    <3>2. CASE At(p, "numbered", [e EXCEPT !.seq = shared + 1]) /\ shared' = shared + 1
      <4>1. PICK f \in Events : /\ f = [e EXCEPT !.seq = shared + 1] /\ f.id = events + 1
                                /\ f.seq = shared + 1 /\ ~f.stored
        BY <2>2, <2>3
      <4>2. publisher' = [publisher EXCEPT ![p] = [pc |-> "numbered", event |-> f]]
        BY <3>2, <4>1 DEF At
      <4>3. QED BY <2>3, <3>2, <4>1, <4>2
    <3>3. CASE At(p, "counting", [e EXCEPT !.seq = local + 1]) /\ shared' = shared
      <4>1. PICK f \in Events : /\ f = [e EXCEPT !.seq = local + 1] /\ f.id = events + 1
                                /\ f.seq = local + 1 /\ ~f.stored
        BY <2>2, <2>3
      <4>2. publisher' = [publisher EXCEPT ![p] = [pc |-> "counting", event |-> f]]
        BY <3>3, <4>1 DEF At
      <4>3. QED BY <2>3, <3>3, <4>1, <4>2
    <3>4. QED BY <3>1, <3>2, <3>3 DEF Publish
  <2>5. lost \subseteq lost' /\ lost' \subseteq Causes
    BY DEF Publish, Loses, Causes, BTyped
  <2>6. [pc |-> pc, event |-> f] \in PublisherRecords
    BY DEF PublisherRecords
  <2>7. [pc |-> pc, event |-> f].event = f
    OBVIOUS
  <2>8. QED BY <2>4, <2>5, <2>6, <2>7
<1>3. /\ publisher' \in [Publishers -> PublisherRecords] /\ publisher'[p] = r
      /\ \A q \in Publishers : q # p => publisher'[q] = publisher[q]
      /\ Carried' \subseteq Carried \cup {r.event}
  BY <1>2, PublisherMoves
<1>4. BTyped'
  <2>1. \A q \in Publishers : /\ publisher'[q].event.seq <= events + 1
                              /\ publisher'[q].pc \in {"counting", "numbered"} =>
                                     ~publisher'[q].event.stored
    <3>1. \A q \in Publishers : publisher[q].event.seq \in 0..events
      BY PublisherFacts DEF BTyped, Events
    <3>2. QED BY <1>1, <1>2, <1>3, <3>1 DEF BTyped
  <2>2. /\ events + 1 \in 0..MaxEvents /\ local \in 0..(events + 1)
        /\ sent \subseteq 1..(events + 1)
    BY <1>1 DEF BTyped
  <2>3. QED BY <1>1, <1>2, <1>3, <2>1, <2>2 DEF BTyped
<1>5. Moves
  <2>1. ASSUME NEW e \in Copies' PROVE e \in Copies \/ e = r.event
    BY <1>1, <1>3 DEF Copies
  <2>2. r.event.seq \in Nat
    BY <1>1, <1>2
  <2>3. QED BY <1>1, <1>2, <2>1, <2>2 DEF Moves, Offsets
<1>6. QED BY <1>1, <1>4, <1>5 DEF BEffects

LEMMA CountEffects ==
    ASSUME BTyped, NEW p \in Publishers, Count(p), UNCHANGED reorder
    PROVE  BEffects
<1> DEFINE r == [pc |-> "numbered", event |-> publisher[p].event]
<1>1. /\ publisher[p].event \in Events /\ publisher[p].event \in Carried
      /\ publisher[p].event.seq \in 0..events /\ ~publisher[p].event.stored
  BY PublisherFacts DEF BTyped, Count, Events
<1>2. r \in PublisherRecords /\ r.event = publisher[p].event
  BY <1>1 DEF PublisherRecords
<1>3. /\ publisher' = [publisher EXCEPT ![p] = r] /\ local' \in 0..events
      /\ UNCHANGED <<mode, events, shared, stream, wire, degraded, replay, sub, queue, sent>>
      /\ lost \subseteq lost' /\ lost' \subseteq Causes
  BY <1>1 DEF Count, At, Loses, Causes, BTyped
<1> HIDE DEF r
<1>4. /\ publisher' \in [Publishers -> PublisherRecords] /\ publisher'[p] = r
      /\ \A q \in Publishers : q # p => publisher'[q] = publisher[q]
      /\ Carried' \subseteq Carried \cup {r.event}
  BY <1>2, <1>3, PublisherMoves
<1>5. BTyped'
  BY <1>1, <1>2, <1>3, <1>4 DEF BTyped
<1>6. Copies' \subseteq Copies
  BY <1>1, <1>2, <1>3, <1>4 DEF Copies
<1>7. QED BY <1>3, <1>5, <1>6 DEF BEffects, Moves, Offsets

LEMMA RejectEffects ==
    ASSUME BTyped, NEW p \in Publishers, RejectOversized(p), UNCHANGED reorder
    PROVE  BEffects
<1>1. /\ publisher' = [publisher EXCEPT ![p] = Quiet]
      /\ UNCHANGED <<mode, events, shared, local, stream, wire, degraded, replay, sub,
                     queue, sent>>
      /\ lost \subseteq lost' /\ lost' \subseteq Causes
  BY DEF RejectOversized, Loses, Causes, BTyped
<1>2. /\ publisher' \in [Publishers -> PublisherRecords] /\ publisher'[p] = Quiet
      /\ \A q \in Publishers : q # p => publisher'[q] = publisher[q]
      /\ Carried' \subseteq Carried
  BY <1>1, QuietRecord, PublisherMoves
<1>3. BTyped'
  BY <1>1, <1>2, QuietRecord DEF BTyped
<1>4. Copies' \subseteq Copies
  BY <1>1, <1>2 DEF Copies
<1>5. QED BY <1>1, <1>3, <1>4 DEF BEffects, Moves, Offsets

LEMMA StoreEffects ==
    ASSUME BTyped, NEW p \in Publishers, Store(p), UNCHANGED reorder
    PROVE  BEffects
<1> PICK e : e = publisher[p].event
  OBVIOUS
<1>1. e \in Events /\ e \in Carried /\ e.seq \in 0..events /\ ~e.stored
  BY PublisherFacts DEF BTyped, Store, Events
<1>2. /\ UNCHANGED <<mode, events, shared, local, wire, degraded, replay, sub, queue, sent>>
      /\ lost \subseteq lost' /\ lost' \subseteq Causes
      /\ stream' = stream \/ stream' = Append(stream, e)
  BY DEF Store, Loses, Causes, BTyped
<1>3. /\ stream' \in Seq(Events) /\ ToSet(stream') \subseteq ToSet(stream) \cup {e}
      /\ ToSet(stream) \subseteq ToSet(stream')
  <2>1. stream \in Seq(Events)
    BY DEF BTyped
  <2>2. CASE stream' = Append(stream, e)
    BY <1>1, <2>1, <2>2, AppendFacts
  <2>3. CASE stream' = stream
    BY <2>1, <2>3
  <2>4. QED BY <1>2, <2>2, <2>3
<1>4. PICK f \in Events :
          /\ publisher' = [publisher EXCEPT ![p] = [pc |-> "stored", event |-> f]]
          /\ f = e \/ (f = [e EXCEPT !.stored = TRUE]
                       /\ (mode = "streams" /\ ~degraded => stream' = Append(stream, e)))
  <2>1. [e EXCEPT !.stored = TRUE] \in Events
    BY <1>1 DEF Events
  <2>2. QED BY <1>1, <2>1 DEF Store, At
<1> DEFINE r == [pc |-> "stored", event |-> f]
<1>5. r \in PublisherRecords /\ r.event = f /\ r.pc = "stored"
  BY DEF PublisherRecords
<1>6. publisher' = [publisher EXCEPT ![p] = r]
  BY <1>4
<1> HIDE DEF r
<1>7. /\ publisher' \in [Publishers -> PublisherRecords] /\ publisher'[p] = r
      /\ \A q \in Publishers : q # p => publisher'[q] = publisher[q]
      /\ Carried' \subseteq Carried \cup {f}
  BY <1>5, <1>6, PublisherMoves
<1>8. f.seq = e.seq /\ f.id = e.id
  BY <1>1, <1>4 DEF Events
<1>9. BTyped'
  BY <1>1, <1>2, <1>3, <1>5, <1>7, <1>8 DEF BTyped
<1>10. Moves
  <2>1. ASSUME NEW c \in Copies' PROVE c \in Copies \/ c = f
    BY <1>1, <1>2, <1>3, <1>7 DEF Copies
  <2>2. e \in Copies /\ Offsets \subseteq Offsets'
    BY <1>1, <1>3 DEF Copies, Offsets
  <2>3. stream' = Append(stream, e) => e.id \in Offsets'
    <3>1. stream' = Append(stream, e) => e \in ToSet(stream')
      BY <1>1, AppendFacts DEF BTyped
    <3>2. QED BY <3>1 DEF Offsets
  <2>4. f = e \/ (f = [e EXCEPT !.stored = TRUE]
                  /\ (mode = "streams" /\ ~degraded' => f.id \in Offsets'))
    BY <1>2, <1>4, <1>8, <2>3
  <2>5. QED BY <1>2, <2>1, <2>2, <2>4 DEF Moves
<1>11. QED BY <1>2, <1>9, <1>10 DEF BEffects

(* One event goes into the replay buffer and the queue.                       *)
LEMMA FanoutRawEffects ==
    ASSUME BTyped, NEW e \in Events, e.id \in 1..events, FanoutRaw(e)
    PROVE  /\ replay' \in Seq(Events) /\ Len(replay') <= ReplaySize
           /\ ToSet(replay') \subseteq ToSet(replay) \cup {e}
           /\ \E d : Drops(Append(replay, e), replay', d)
           /\ queue' \in Seq(Events) /\ Len(queue') <= QueueSize
           /\ ToSet(queue') \subseteq ToSet(queue) \cup {e}
           /\ sent' = sent \cup {e.id} /\ sent' \subseteq 1..events
           /\ lost \subseteq lost' /\ lost' \subseteq Causes
           /\ queue' = Append(queue, e)
              \/ (queue' = queue /\ (sub = "none" \/ lost' \cap {"full", "pruned"} # {}))
           /\ sub = "none" => queue' = queue
<1>1. /\ replay \in Seq(Events) /\ queue \in Seq(Events) /\ sent \subseteq 1..events
      /\ Len(queue) <= QueueSize /\ lost \subseteq Causes
  BY DEF BTyped
<1>2. /\ Append(replay, e) \in Seq(Events)
      /\ ToSet(Append(replay, e)) = ToSet(replay) \cup {e}
  BY <1>1, AppendFacts
<1>3. /\ replay' \in Seq(Events) /\ Len(replay') <= ReplaySize
      /\ \E d : Drops(Append(replay, e), replay', d)
  BY <1>2, Bounds, NewestFacts DEF FanoutRaw
<1>4. ToSet(replay') \subseteq ToSet(replay) \cup {e}
  BY <1>2, <1>3, DropsHolds
<1>0. sent' = sent \cup {e.id} /\ sent' \subseteq 1..events
  BY <1>1 DEF FanoutRaw
<1>5. CASE sub = "live" /\ Len(queue) < QueueSize
  <2>1. queue' = Append(queue, e) /\ lost' = lost
    BY <1>5 DEF FanoutRaw
  <2>2. /\ queue' \in Seq(Events) /\ Len(queue') = Len(queue) + 1
        /\ ToSet(queue') \subseteq ToSet(queue) \cup {e} /\ Len(queue) \in Nat
    BY <1>1, <2>1, AppendFacts
  <2>3. Len(queue') <= QueueSize /\ sub # "none"
    BY <1>5, <2>2, Bounds
  <2>4. QED BY <1>0, <1>1, <1>3, <1>4, <1>5, <2>1, <2>2, <2>3
<1>6. CASE ~(sub = "live" /\ Len(queue) < QueueSize)
  <2>1. /\ queue' = queue /\ lost \subseteq lost' /\ lost' \subseteq Causes
        /\ sub = "none" \/ lost' \cap {"full", "pruned"} # {}
    BY <1>1, <1>6 DEF FanoutRaw, Loses, Causes
  <2>2. QED BY <1>0, <1>1, <1>3, <1>4, <2>1
<1>7. QED BY <1>5, <1>6

LEMMA FanoutEffects ==
    ASSUME BTyped, IdsKnown, NEW p \in Publishers, Fanout(p), UNCHANGED reorder
    PROVE  BEffects
<1> PICK e : e = publisher[p].event
  OBVIOUS
<1>1. e \in Events /\ e \in Carried /\ e \in Copies /\ e.id \in 1..events
  BY PublisherFacts DEF Fanout, IdsKnown, Copies
<1>2. /\ FanoutRaw(e) \/ (Loses("lock") /\ UNCHANGED <<replay, sent, queue>>)
      /\ wire' \subseteq wire \cup {e}
      /\ publisher' = [publisher EXCEPT ![p] = Quiet]
      /\ UNCHANGED <<mode, events, shared, local, stream, degraded, sub>>
  BY DEF Fanout
<1>3. /\ publisher' \in [Publishers -> PublisherRecords] /\ publisher'[p] = Quiet
      /\ \A q \in Publishers : q # p => publisher'[q] = publisher[q]
      /\ Carried' \subseteq Carried
  BY <1>2, QuietRecord, PublisherMoves
<1>4. /\ replay' \in Seq(Events) /\ Len(replay') <= ReplaySize
      /\ ToSet(replay') \subseteq ToSet(replay) \cup {e}
      /\ queue' \in Seq(Events) /\ Len(queue') <= QueueSize
      /\ ToSet(queue') \subseteq ToSet(queue) \cup {e}
      /\ sent \subseteq sent' /\ sent' \subseteq 1..events
      /\ lost \subseteq lost' /\ lost' \subseteq Causes
      /\ sub = "none" => queue' = queue
  <2>1. CASE FanoutRaw(e)
    BY <1>1, <2>1, FanoutRawEffects
  <2>2. CASE Loses("lock") /\ UNCHANGED <<replay, sent, queue>>
    BY <2>2 DEF BTyped, Loses, Causes
  <2>3. QED BY <1>2, <2>1, <2>2
<1>5. BTyped'
  BY <1>1, <1>2, <1>3, <1>4, QuietRecord DEF BTyped
<1>6. Copies' \subseteq Copies
  BY <1>1, <1>2, <1>3, <1>4 DEF Copies
<1>7. QED BY <1>2, <1>4, <1>5, <1>6 DEF BEffects, Moves, Offsets

LEMMA ReceiveEffects ==
    ASSUME BTyped, IdsKnown, NEW e \in wire, Receive(e), UNCHANGED reorder
    PROVE  BEffects
<1>1. e \in Events /\ e \in Copies /\ e.id \in 1..events
  BY DEF BTyped, IdsKnown, Copies
<1>2. /\ wire' \subseteq wire
      /\ UNCHANGED <<mode, events, shared, local, publisher, stream, degraded, sub>>
      /\ FanoutRaw(e) \/ UNCHANGED <<replay, sent, queue, lost>>
  BY DEF Receive
<1>3. /\ replay' \in Seq(Events) /\ Len(replay') <= ReplaySize
      /\ ToSet(replay') \subseteq ToSet(replay) \cup {e}
      /\ queue' \in Seq(Events) /\ Len(queue') <= QueueSize
      /\ ToSet(queue') \subseteq ToSet(queue) \cup {e}
      /\ sent \subseteq sent' /\ sent' \subseteq 1..events
      /\ lost \subseteq lost' /\ lost' \subseteq Causes
      /\ sub = "none" => queue' = queue
  <2>1. CASE FanoutRaw(e)
    BY <1>1, <2>1, FanoutRawEffects
  <2>2. CASE UNCHANGED <<replay, sent, queue, lost>>
    BY <2>2 DEF BTyped
  <2>3. QED BY <1>2, <2>1, <2>2
<1>4. BTyped'
  BY <1>1, <1>2, <1>3 DEF BTyped
<1>5. Copies' \subseteq Copies
  BY <1>1, <1>2, <1>3 DEF Copies, Carried, Busy
<1>6. QED BY <1>2, <1>3, <1>4, <1>5 DEF BEffects, Moves, Offsets

LEMMA ListenerEffects ==
    ASSUME BTyped, ListenerFails \/ ListenerRecovers \/ Degrade \/ PruneInactive,
           UNCHANGED reorder
    PROVE  BEffects
<1>1. /\ UNCHANGED <<mode, events, shared, local, publisher, stream, wire, replay,
                     queue, sent, lost>>
      /\ degraded' \in BOOLEAN /\ (degraded => degraded')
      /\ sub' = sub \/ (sub = "live" /\ sub' = "pruned")
  BY DEF ListenerFails, ListenerRecovers, Degrade, PruneInactive, BTyped
<1>2. BTyped'
  BY <1>1 DEF BTyped
<1>3. Copies' = Copies /\ Offsets' = Offsets
  BY <1>1 DEF Copies, Carried, Busy, Offsets
<1>4. QED BY <1>1, <1>2, <1>3 DEF BEffects, Moves

LEMMA BNextEffects ==
    ASSUME BTyped, IdsKnown, BNext, UNCHANGED reorder
    PROVE  BEffects
BY PublishEffects, CountEffects, RejectEffects, StoreEffects, FanoutEffects,
   ReceiveEffects, ListenerEffects DEF BNext

-----------------------------------------------------------------------------
(* The client's side.                                                         *)
CTyped ==
    /\ connected \in BOOLEAN /\ (connected <=> sub # "none")
    /\ ~connected => queue = << >>
    /\ last \in Positions /\ current \in Positions
    /\ savedSeq \in 0..MaxEvents /\ savedId \in got \cup {0}
    /\ expected \in 0..(MaxEvents + 1)
    /\ seen \subseteq got /\ got \subseteq 1..events
    /\ reorder \subseteq Events /\ (expected = 0 => reorder = {})
    /\ \A f \in reorder : f.id \in got /\ (f.seq = expected => saving # << >>)
    /\ saving \in Seq(Handlers) /\ recoveries \in Seq(Recoveries) /\ applied \in Seq(Nat)
    /\ \A k \in 1..Len(saving) : saving[k].event.id \in got
    /\ applied = << >> => saving = << >>
Typed == BTyped /\ CTyped /\ IdsKnown

LEMMA SamePositions ==
    ASSUME mode' = mode
    PROVE  Positions' = Positions /\ Recoveries' = Recoveries
BY DEF Positions, Recoveries

LEMMA PositionBounds ==
    /\ Positions \subseteq Nat /\ 0 \in Positions
    /\ 0..MaxEvents \subseteq Positions
    /\ mode # "streams" => Positions = 0..MaxEvents
BY Bounds DEF Positions

(* What the broadcaster does leaves the client's side as it is.               *)
LEMMA BNextTyped ==
    ASSUME Typed, BNext, UNCHANGED cVars
    PROVE  BTyped' /\ CTyped' /\ Moves
<1>1. UNCHANGED <<connected, last, current, savedId, savedSeq, expected, seen, reorder,
                  saving, recoveries, applied, got>>
  BY DEF cVars
<1>2. BEffects
  BY <1>1, BNextEffects DEF Typed
<1>3. got \subseteq 1..events'
  <2>1. events \in Nat /\ events' \in {events, events + 1}
    BY <1>2 DEF BEffects, Moves, Typed, BTyped
  <2>2. QED BY <2>1 DEF Typed, CTyped
<1>4. Positions' = Positions /\ Recoveries' = Recoveries
  BY <1>2, SamePositions DEF BEffects, Moves
<1>5. CTyped'
  BY <1>1, <1>2, <1>3, <1>4 DEF BEffects, Typed, CTyped
<1>6. QED BY <1>2, <1>5 DEF BEffects

(* Nothing but the client's own variables, its queue and its losses change.   *)
ClientOnly ==
    /\ UNCHANGED <<mode, events, shared, local, publisher, stream, wire, degraded,
                   replay, sent>>
    /\ lost \subseteq lost' /\ lost' \subseteq Causes
    /\ sub' \in {"none", "live", "pruned"}
    /\ queue' \in Seq(Events) /\ Len(queue') <= QueueSize
    /\ reorder' \subseteq reorder \cup ToSet(queue)

(* What a registration puts into the queue, the client's position given.      *)
LEMMA ClientMoves ==
    ASSUME Typed, ClientOnly,
           \A e \in ToSet(queue') :
               e \in ToSet(queue) \/ e \in ToSet(stream) \/ e \in ToSet(replay)
    PROVE  BTyped' /\ Moves /\ Copies' \subseteq Copies
<1>1. BTyped'
  BY DEF Typed, BTyped, ClientOnly
<1>2. Copies' \subseteq Copies
  BY DEF Copies, Carried, Busy, ClientOnly
<1>3. QED BY <1>1, <1>2 DEF Moves, Offsets, ClientOnly

(* The three things that may become of an event that is delivered.            *)
LEMMA HandleCases ==
    ASSUME NEW e \in Events, expected \in Nat, HandleEvent(e)
    PROVE  /\ last' = e.id /\ got' = got \cup {e.id}
           /\ seen' = seen \/ seen' = seen \cup {e.id}
           /\ \/ lost' = lost
              \/ lost' = lost \cup {"first"} /\ expected = 0 /\ e.seq > 1
           /\ expected = 0 /\ e.seq > 1 => "first" \in lost'
           /\ \/ Ignore /\ (e.seq = 0 \/ e.id \in seen \/ e.seq < expected)
              \/ /\ Apply(e, saving) /\ UNCHANGED <<reorder, recoveries>>
                 /\ e.seq # 0 /\ (expected = 0 \/ expected = e.seq)
              \/ Defer(e) /\ e.seq # 0 /\ expected # 0 /\ e.seq # expected
                          /\ ~(e.seq < expected)
<1>1. e.seq \in Nat
  BY Bounds DEF Events
<1>2. QED BY <1>1 DEF HandleEvent, Loses

LEMMA DeliverFacts ==
    ASSUME Typed, Deliver
    PROVE  \E e \in Events :
               /\ connected /\ queue # << >> /\ e = Head(queue) /\ queue' = Tail(queue)
               /\ e \in ToSet(queue) /\ e \in Copies /\ e.id \in 1..events
               /\ Drops(queue, queue', 1) /\ queue' \in Seq(Events) /\ queue[1] = e
               /\ ToSet(queue) = ToSet(queue') \cup {e}
               /\ HandleEvent(e)
               /\ UNCHANGED <<connected, mode, events, shared, local, publisher, stream,
                              wire, degraded, replay, sub, sent, savedId, savedSeq>>
<1>1. queue \in Seq(Events) /\ queue # << >>
  BY DEF Typed, BTyped, Deliver
<1> PICK e : e = Head(queue)
  OBVIOUS
<1>2. /\ e \in Events /\ queue[1] = e /\ 1 \in 1..Len(queue) /\ Tail(queue) \in Seq(Events)
      /\ Len(Tail(queue)) = Len(queue) - 1 /\ Len(queue) \in Nat
      /\ \A i \in 1..(Len(queue) - 1) : Tail(queue)[i] = queue[i + 1]
  BY <1>1
<1>3. Drops(queue, Tail(queue), 1)
  BY <1>2 DEF Drops
<1>4. /\ \A x : x \in ToSet(Tail(queue)) <=> \E i \in 1..Len(Tail(queue)) : Tail(queue)[i] = x
      /\ \A x : x \in ToSet(queue) <=> \E i \in 1..Len(queue) : queue[i] = x
  BY <1>1, <1>2, Elements
<1>5. ToSet(queue) = ToSet(Tail(queue)) \cup {e}
  <2>1. ASSUME NEW x \in ToSet(queue), x # e PROVE x \in ToSet(Tail(queue))
    <3>1. PICK i \in 1..Len(queue) : queue[i] = x
      BY <1>4
    <3>2. i # 1
      BY <1>2, <2>1, <3>1
    <3>3. i - 1 \in 1..(Len(queue) - 1) /\ i - 1 + 1 = i
      BY <1>2, <3>2
    <3>4. Tail(queue)[i - 1] = x
      BY <1>2, <3>1, <3>3
    <3>5. QED BY <1>2, <1>4, <3>3, <3>4
  <2>2. ToSet(Tail(queue)) \subseteq ToSet(queue) /\ e \in ToSet(queue)
    BY <1>1, <1>2, <1>3, <1>4, DropsHolds
  <2>3. QED BY <2>1, <2>2
<1>6. e \in Copies /\ e.id \in 1..events
  BY <1>5 DEF Copies, Typed, IdsKnown
<1>7. QED BY <1>1, <1>2, <1>3, <1>5, <1>6 DEF Deliver

LEMMA DeliverTyped ==
    ASSUME Typed, Deliver
    PROVE  BTyped' /\ CTyped' /\ Moves
<1>1. PICK e \in Events :
          /\ connected /\ e \in ToSet(queue) /\ e.id \in 1..events
          /\ Drops(queue, queue', 1) /\ queue' \in Seq(Events)
          /\ ToSet(queue) = ToSet(queue') \cup {e}
          /\ HandleEvent(e)
          /\ UNCHANGED <<connected, mode, events, shared, local, publisher, stream,
                         wire, degraded, replay, sub, sent, savedId, savedSeq>>
  BY DeliverFacts
<1>2. Len(queue') <= QueueSize
  <2>1. Len(queue') = Len(queue) - 1 /\ Len(queue) \in Nat
    BY <1>1 DEF Drops, Typed, BTyped
  <2>2. QED BY <2>1, Bounds DEF Typed, BTyped
<1>0. expected \in Nat
  BY Bounds DEF Typed, CTyped
<1>3. /\ last' = e.id /\ got' = got \cup {e.id}
      /\ seen' = seen \/ seen' = seen \cup {e.id}
      /\ lost \subseteq lost' /\ lost' \subseteq Causes
  BY <1>0, <1>1, HandleCases DEF Typed, BTyped, Causes
<1>4. e.id \in 1..MaxEvents /\ e.seq \in 0..MaxEvents /\ e.id \in Positions
  <2>1. e.id \in 1..MaxEvents /\ e.seq \in 0..MaxEvents
    BY DEF Events
  <2>2. e.id \in 0..MaxEvents
    BY <2>1, Bounds
  <2>3. QED BY <2>1, <2>2, PositionBounds
<1>5. /\ current' \in Positions /\ expected' \in 0..(MaxEvents + 1)
      /\ reorder' \subseteq reorder \cup {e} /\ (expected' = 0 => reorder' = {})
      /\ \A f \in reorder' : f.seq = expected' => saving' # << >>
      /\ saving' \in Seq(Handlers) /\ recoveries' \in Seq(Recoveries)
      /\ applied' \in Seq(Nat) /\ (applied' = << >> => saving' = << >>)
      /\ \A k \in 1..Len(saving') : saving'[k].event.id \in got'
  <2>1. CASE Ignore
    BY <1>3, <2>1 DEF Ignore, Typed, CTyped
  <2>2. CASE Apply(e, saving) /\ UNCHANGED <<reorder, recoveries>>
    <3>1. /\ applied' = Append(applied, e.seq) /\ expected' = e.seq + 1 /\ current' = e.id
          /\ saving' = Append(saving, [event |-> e, at |-> "id"])
      BY <2>2 DEF Apply
    <3>2. [event |-> e, at |-> "id"] \in Handlers
      BY DEF Handlers
    <3> PICK h \in Handlers : h = [event |-> e, at |-> "id"] /\ h.event = e
      BY <3>2
    <3>3. saving \in Seq(Handlers) /\ applied \in Seq(Nat) /\ e.seq \in Nat
      BY <1>4 DEF Typed, CTyped
    <3>4. /\ applied' \in Seq(Nat) /\ applied' # << >>
      BY <3>1, <3>3
    <3>a. saving' = Append(saving, h)
      BY <3>1
    <3>5. /\ saving' \in Seq(Handlers) /\ saving' # << >> /\ Len(saving') = Len(saving) + 1
          /\ saving'[Len(saving) + 1] = h /\ Len(saving) \in Nat
          /\ \A i \in 1..Len(saving) : saving'[i] = saving[i]
      BY <3>3, <3>a, AppendFacts
    <3>6. e.seq + 1 \in 0..(MaxEvents + 1) /\ e.seq + 1 # 0
      BY <1>4, Bounds
    <3>7. \A k \in 1..Len(saving') : saving'[k].event.id \in got'
      <4>1. \A k \in 1..Len(saving') : k \in 1..Len(saving) \/ k = Len(saving) + 1
        BY <3>5
      <4>2. QED BY <1>3, <3>5, <4>1 DEF Typed, CTyped
    <3>8. QED BY <1>4, <2>2, <3>1, <3>4, <3>5, <3>6, <3>7 DEF Typed, CTyped
  <2>3. CASE Defer(e) /\ expected # 0 /\ e.seq # expected
    <3>1. /\ reorder' = {f \in reorder : f.seq # e.seq} \cup {e}
          /\ UNCHANGED <<expected, applied, saving, current>>
      BY <2>3 DEF Defer
    <3>2. recoveries' \in Seq(Recoveries)
      <4>1. [at |-> "asked", position |-> 0] \in Recoveries
        BY PositionBounds DEF Recoveries
      <4> PICK r \in Recoveries : r = [at |-> "asked", position |-> 0]
        BY <4>1
      <4>2. recoveries' = recoveries \/ recoveries' = Append(recoveries, r)
        BY <2>3 DEF Defer
      <4>3. recoveries \in Seq(Recoveries)
        BY DEF Typed, CTyped
      <4>4. QED BY <4>2, <4>3, AppendFacts
    <3>3. QED BY <1>3, <2>3, <3>1, <3>2 DEF Typed, CTyped
  <2>4. QED BY <1>0, <1>1, <2>1, <2>2, <2>3, HandleCases
<1>6. ClientOnly
  BY <1>1, <1>2, <1>3, <1>5 DEF ClientOnly, Typed, BTyped
<1>7. BTyped' /\ Moves
  BY <1>1, <1>6, ClientMoves
<1>8. CTyped'
  <2>1. last' \in Positions /\ got' \subseteq 1..events' /\ seen' \subseteq got'
        /\ savedId' \in got' \cup {0}
    <3>1. last' \in Positions
      BY <1>3, <1>4
    <3>2. got' \subseteq 1..events'
      BY <1>1, <1>3 DEF Typed, CTyped
    <3>3. seen' \subseteq got' /\ savedId' \in got' \cup {0}
      BY <1>1, <1>3 DEF Typed, CTyped
    <3>4. QED BY <3>1, <3>2, <3>3
  <2>2. \A f \in reorder' : f.id \in got'
    BY <1>3, <1>5 DEF Typed, CTyped
  <2>3. reorder' \subseteq Events
    BY <1>5 DEF Typed, CTyped
  <2>4. Positions' = Positions /\ Recoveries' = Recoveries
    BY <1>1, SamePositions
  <2>5. QED BY <1>1, <1>5, <2>1, <2>2, <2>3, <2>4 DEF Typed, CTyped
<1>9. QED BY <1>7, <1>8

(* What a step of the handlers and recoveries leaves alone.                   *)
LEMMA LocalStep ==
    ASSUME Typed, Unbroadcast, lost \subseteq lost', lost' \subseteq Causes,
           reorder' \subseteq reorder
    PROVE  BTyped' /\ Moves /\ Copies' \subseteq Copies
<1>1. ClientOnly
  BY DEF ClientOnly, Unbroadcast, Typed, BTyped
<1>2. QED BY <1>1, ClientMoves DEF Unbroadcast

(* The last thing the handler did was to write its event.                     *)
LEMMA SaveIdTyped ==
    ASSUME Typed, SaveId
    PROVE  BTyped' /\ CTyped' /\ Moves
<1>1. PICK k \in 1..Len(saving) :
          /\ saving[k].at = "id"
          /\ saving' = [saving EXCEPT ![k].at = "number"]
          /\ savedId' = saving[k].event.id
  BY DEF SaveId
<1>2. /\ UNCHANGED <<connected, last, current, savedSeq, expected, seen, reorder,
                     recoveries, applied, got, lost>>
      /\ Unbroadcast
  BY DEF SaveId
<1>3. BTyped' /\ Moves
  BY <1>2, LocalStep DEF Typed, BTyped
<1>4. saving \in Seq(Handlers) /\ saving[k] \in Handlers /\ Len(saving) \in Nat
  BY DEF Typed, CTyped
<1> PICK h : h = [saving[k] EXCEPT !.at = "number"]
  OBVIOUS
<1>5. h \in Handlers /\ h.event = saving[k].event
  BY <1>4 DEF Handlers
<1>6. saving' = [saving EXCEPT ![k] = h]
  BY <1>1
<1>7. /\ saving' \in Seq(Handlers) /\ Len(saving') = Len(saving)
      /\ \A j \in 1..Len(saving) : saving'[j] = IF j = k THEN h ELSE saving[j]
  BY <1>4, <1>5, <1>6
<1>8. /\ saving # << >> /\ saving' # << >>
      /\ \A j \in 1..Len(saving') : saving'[j].event.id \in got
  <2>1. \A j \in 1..Len(saving) : saving[j].event.id \in got
    BY DEF Typed, CTyped
  <2>2. Len(saving) > 0
    BY <1>4
  <2>3. saving # << >> /\ saving' # << >>
    BY <1>7, <2>2
  <2>4. QED BY <1>5, <1>7, <2>1, <2>3
<1>9. savedId' \in got
  BY <1>1 DEF Typed, CTyped
<1>10. Positions' = Positions /\ Recoveries' = Recoveries
  BY <1>2, SamePositions DEF Unbroadcast
<1>11. CTyped'
  BY <1>2, <1>7, <1>8, <1>9, <1>10 DEF Typed, CTyped, Unbroadcast
<1>12. QED BY <1>3, <1>11

(* The one event that a drained buffer gives up, if it gives up any.          *)
LEMMA SaveNumberFacts ==
    ASSUME Typed, SaveNumber
    PROVE  /\ saving # << >> /\ saving[1].at = "number"
           /\ savedSeq' = saving[1].event.seq
           /\ Tail(saving) \in Seq(Handlers) /\ Len(Tail(saving)) = Len(saving) - 1
           /\ \A i \in 1..(Len(saving) - 1) : Tail(saving)[i] = saving[i + 1]
           /\ Len(saving) \in Nat /\ Len(saving) > 0
           /\ \/ \E f \in reorder : f.seq = expected /\ reorder' = reorder \ {f}
                                    /\ Apply(f, Tail(saving))
              \/ /\ \A f \in reorder : f.seq # expected
                 /\ saving' = Tail(saving) /\ UNCHANGED <<reorder, applied, expected, current>>
           /\ UNCHANGED <<connected, last, savedId, seen, recoveries, got, breaks, lost>>
           /\ Unbroadcast
<1>1. /\ saving \in Seq(Handlers) /\ saving # << >>
      /\ Head(saving) = saving[1] /\ Tail(saving) \in Seq(Handlers)
      /\ Len(Tail(saving)) = Len(saving) - 1 /\ Len(saving) \in Nat /\ Len(saving) > 0
      /\ \A i \in 1..(Len(saving) - 1) : Tail(saving)[i] = saving[i + 1]
  BY TailFacts DEF Typed, CTyped, SaveNumber
<1>2. QED BY <1>1 DEF SaveNumber, Drain

LEMMA SaveNumberTyped ==
    ASSUME Typed, SaveNumber
    PROVE  BTyped' /\ CTyped' /\ Moves
<1> PICK rest : rest = Tail(saving)
  OBVIOUS
<1>1. /\ saving # << >> /\ savedSeq' = saving[1].event.seq
      /\ rest \in Seq(Handlers) /\ Len(rest) = Len(saving) - 1
      /\ \A i \in 1..(Len(saving) - 1) : rest[i] = saving[i + 1]
      /\ Len(saving) \in Nat /\ Len(saving) > 0
      /\ UNCHANGED <<connected, last, savedId, seen, recoveries, got, breaks, lost>>
      /\ Unbroadcast
      /\ \/ \E f \in reorder : f.seq = expected /\ reorder' = reorder \ {f} /\ Apply(f, rest)
         \/ /\ \A f \in reorder : f.seq # expected
            /\ saving' = rest /\ UNCHANGED <<reorder, applied, expected, current>>
  BY SaveNumberFacts
<1>2. BTyped' /\ Moves
  <2>1. reorder' \subseteq reorder
    BY <1>1
  <2>2. QED BY <1>1, <2>1, LocalStep DEF Typed, BTyped
<1>3. \A i \in 1..Len(rest) : rest[i].event.id \in got
  <2>1. \A i \in 1..Len(rest) : i + 1 \in 1..Len(saving) /\ rest[i] = saving[i + 1]
    BY <1>1
  <2>2. QED BY <2>1 DEF Typed, CTyped
<1>4. savedSeq' \in 0..MaxEvents
  <2>1. 1 \in 1..Len(saving)
    BY <1>1
  <2>2. saving[1] \in Handlers
    BY <2>1 DEF Typed, CTyped
  <2>3. QED BY <1>1, <2>2 DEF Handlers, Events
<1> DEFINE Good ==
               /\ current' \in Positions /\ expected' \in 0..(MaxEvents + 1)
               /\ reorder' \subseteq reorder /\ (expected' = 0 => reorder' = {})
               /\ \A f \in reorder' : f.seq = expected' => saving' # << >>
               /\ saving' \in Seq(Handlers)
               /\ applied' \in Seq(Nat) /\ (applied' = << >> => saving' = << >>)
               /\ \A k \in 1..Len(saving') : saving'[k].event.id \in got
<1>5. Good
  <2>1. CASE /\ \A f \in reorder : f.seq # expected
             /\ saving' = rest /\ UNCHANGED <<reorder, applied, expected, current>>
    BY <1>1, <1>3, <2>1 DEF Typed, CTyped
  <2>2. ASSUME NEW f \in reorder, f.seq = expected, reorder' = reorder \ {f}, Apply(f, rest)
        PROVE  Good
    <3>1. /\ applied' = Append(applied, f.seq) /\ expected' = f.seq + 1 /\ current' = f.id
          /\ saving' = Append(rest, [event |-> f, at |-> "id"])
      BY <2>2 DEF Apply
    <3>2. f \in Events /\ f.id \in got /\ got \subseteq 1..events
      BY DEF Typed, CTyped
    <3>3. f.id \in 0..MaxEvents /\ f.seq \in 0..MaxEvents /\ f.seq \in Nat
      BY <3>2, Bounds DEF Events
    <3>4. [event |-> f, at |-> "id"] \in Handlers
      BY <3>2 DEF Handlers
    <3> PICK h \in Handlers : h = [event |-> f, at |-> "id"] /\ h.event = f
      BY <3>4
    <3>a. applied \in Seq(Nat) /\ rest \in Seq(Handlers) /\ saving' = Append(rest, h)
      BY <1>1, <3>1 DEF Typed, CTyped
    <3>5. applied' \in Seq(Nat) /\ applied' # << >>
      BY <3>1, <3>3, <3>a
    <3>6. /\ saving' \in Seq(Handlers) /\ saving' # << >> /\ Len(saving') = Len(rest) + 1
          /\ saving'[Len(rest) + 1] = h /\ Len(rest) \in Nat
          /\ \A i \in 1..Len(rest) : saving'[i] = rest[i]
      BY <3>a, AppendFacts
    <3>7. f.seq + 1 \in 0..(MaxEvents + 1) /\ f.seq + 1 # 0 /\ f.id \in Positions
      BY <3>3, Bounds, PositionBounds
    <3>8. \A k \in 1..Len(saving') : saving'[k].event.id \in got
      <4>1. \A k \in 1..Len(saving') : k \in 1..Len(rest) \/ k = Len(rest) + 1
        BY <3>6
      <4>2. QED BY <1>3, <3>2, <3>6, <4>1
    <3>9. QED BY <2>2, <3>1, <3>5, <3>6, <3>7, <3>8
  <2>3. QED BY <1>1, <2>1, <2>2
<1>6. Positions' = Positions /\ Recoveries' = Recoveries
  BY <1>1, SamePositions DEF Unbroadcast
<1>7. CTyped'
  BY <1>1, <1>4, <1>5, <1>6 DEF Typed, CTyped, Unbroadcast
<1>8. QED BY <1>2, <1>7

LEMMA FirstOnes ==
    ASSUME NEW T, NEW s \in Seq(T), NEW n \in Nat, n < Len(s)
    PROVE  /\ SubSeq(s, 1, n) \in Seq(T) /\ Len(SubSeq(s, 1, n)) = n
           /\ ToSet(SubSeq(s, 1, n)) \subseteq ToSet(s)
<1> DEFINE t == SubSeq(s, 1, n)
<1>1. /\ t \in Seq(T) /\ Len(t) = n /\ Len(s) \in Nat
      /\ \A i \in 1..n : t[i] = s[i] /\ i \in 1..Len(s)
  OBVIOUS
<1> HIDE DEF t
<1>2. /\ \A x : x \in ToSet(t) <=> \E i \in 1..Len(t) : t[i] = x
      /\ \A x : x \in ToSet(s) <=> \E i \in 1..Len(s) : s[i] = x
  BY <1>1, Elements
<1>3. ToSet(t) \subseteq ToSet(s)
  BY <1>1, <1>2
<1>4. QED BY <1>1, <1>3 DEF t

(* A registration: what the queue holds from now on, and what is known to be  *)
(* missed.                                                                    *)
LEMMA ConnectFacts ==
    ASSUME Typed, Connect
    PROVE  \E failed \in BOOLEAN :
               LET items == Replayed(last, failed)
                   missed == Missed(last, got, failed)
               IN  /\ failed => mode = "streams"
                   /\ ~connected /\ connected' /\ sub' = "live" /\ queue = << >>
                   /\ queue' \in Seq(Events) /\ Len(queue') <= QueueSize
                   /\ ToSet(queue') \subseteq ToSet(stream) \cup ToSet(replay)
                   /\ queue' = items \/ "full" \in lost'
                   /\ got' = got \cup missed /\ missed \subseteq sent
                   /\ \A id \in sent : id \in got' \/ \E e \in ToSet(items) : e.id = id
                   /\ lost \subseteq lost' /\ lost' \subseteq Causes
                   /\ missed # {} => lost' # {}
                   /\ "misordered" \in lost' =>
                          "misordered" \in lost \/ (missed # {} /\ Known(last))
                   /\ UNCHANGED <<mode, events, shared, local, publisher, stream, wire,
                                  degraded, replay, sent, last, current, savedId,
                                  savedSeq, expected, seen, reorder, saving,
                                  recoveries, applied>>
<1> PICK failed \in BOOLEAN : Register(last, got, failed)
                             /\ got' = got \cup Missed(last, got, failed)
  BY DEF Connect
<1> PICK items : items = Replayed(last, failed)
  OBVIOUS
<1>1. /\ items \in Seq(Events) /\ Len(items) \in Nat
      /\ ToSet(items) \subseteq ToSet(stream) \cup ToSet(replay)
  <2>1. replay \in Seq(Events) /\ stream \in Seq(Events) /\ last \in Nat
    BY PositionBounds DEF Typed, BTyped, CTyped
  <2>2. /\ items \in Seq(Events)
        /\ ToSet(items) \subseteq ToSet(stream) \cup ToSet(replay)
    BY <2>1, ReplayedFacts
  <2>3. QED BY <2>2
<1>2. \A x : x \in ToSet(items) <=> \E i \in 1..Len(items) : items[i] = x
  BY <1>1, Elements
<1>3. queue' = IF Len(items) > QueueSize THEN SubSeq(items, 1, QueueSize) ELSE items
  BY DEF Register
<1>4. /\ queue' \in Seq(Events) /\ Len(queue') <= QueueSize
      /\ ToSet(queue') \subseteq ToSet(items)
      /\ queue' = items \/ Len(items) > QueueSize
  <2>1. CASE Len(items) > QueueSize
    <3>1. QueueSize < Len(items) /\ QueueSize \in Nat
      BY <1>1, <2>1, Bounds
    <3>2. queue' = SubSeq(items, 1, QueueSize)
      BY <1>3, <2>1
    <3>3. /\ queue' \in Seq(Events) /\ Len(queue') = QueueSize
          /\ ToSet(queue') \subseteq ToSet(items)
      BY <1>1, <3>1, <3>2, FirstOnes
    <3>4. QED BY <2>1, <3>1, <3>3
  <2>2. CASE ~(Len(items) > QueueSize)
    BY <1>1, <1>3, <2>2, Bounds
  <2>3. QED BY <2>1, <2>2
<1>5. lost' = lost \cup (IF Len(items) > QueueSize THEN {"full"} ELSE {})
                   \cup (IF Missed(last, got, failed) = {} THEN {}
                         ELSE {IF Known(last) THEN "misordered" ELSE "evicted"})
  BY DEF Register
<1>6. /\ lost \subseteq lost' /\ lost' \subseteq Causes
      /\ Len(items) > QueueSize => "full" \in lost'
      /\ Missed(last, got, failed) # {} => lost' # {}
      /\ "misordered" \in lost' =>
             "misordered" \in lost \/ (Missed(last, got, failed) # {} /\ Known(last))
  BY <1>5 DEF Causes, Typed, BTyped
<1>7. /\ got' = got \cup Missed(last, got, failed) /\ Missed(last, got, failed) \subseteq sent
  BY DEF Missed
<1>8. ASSUME NEW id \in sent
      PROVE  id \in got' \/ \E e \in ToSet(items) : e.id = id
  <2>1. CASE id \in got \/ id \in Missed(last, got, failed)
    BY <1>7, <2>1
  <2>2. CASE id \notin got /\ id \notin Missed(last, got, failed)
    <3>1. PICK i \in 1..Len(items) : items[i].id = id
      BY <2>2 DEF Missed
    <3>2. QED BY <1>2, <3>1
  <2>3. QED BY <2>1, <2>2
<1>9. /\ failed => mode = "streams"
      /\ ~connected /\ connected' /\ sub' = "live" /\ queue = << >>
      /\ UNCHANGED <<mode, events, shared, local, publisher, stream, wire, degraded,
                     replay, sent, last, current, savedId, savedSeq, expected, seen,
                     reorder, saving, recoveries, applied>>
  BY DEF Connect, Register, Typed, CTyped
<1>10. QED BY <1>1, <1>4, <1>6, <1>7, <1>8, <1>9

LEMMA ConnectTyped ==
    ASSUME Typed, Connect
    PROVE  BTyped' /\ CTyped' /\ Moves /\ Copies' \subseteq Copies
<1>1. /\ \A e \in ToSet(queue') : e \in ToSet(stream) \/ e \in ToSet(replay)
      /\ ClientOnly
  <2>1. /\ connected' /\ sub' = "live"
        /\ queue' \in Seq(Events) /\ Len(queue') <= QueueSize
        /\ ToSet(queue') \subseteq ToSet(stream) \cup ToSet(replay)
        /\ lost \subseteq lost' /\ lost' \subseteq Causes
        /\ UNCHANGED <<mode, events, shared, local, publisher, stream, wire, degraded,
                       replay, sent, reorder>>
    BY ConnectFacts
  <2>2. QED BY <2>1 DEF ClientOnly
<1>2. BTyped' /\ Moves /\ Copies' \subseteq Copies
  BY <1>1, ClientMoves
<1>3. CTyped'
  <2>1. /\ connected' /\ sub' = "live"
        /\ got \subseteq got' /\ got' \subseteq got \cup sent
        /\ UNCHANGED <<mode, events, last, current, savedId, savedSeq, expected, seen,
                       reorder, saving, recoveries, applied>>
    BY ConnectFacts
  <2>2. got' \subseteq 1..events
    BY <2>1 DEF Typed, BTyped, CTyped
  <2>3. Positions' = Positions /\ Recoveries' = Recoveries
    BY <2>1, SamePositions
  <2>4. QED BY <2>1, <2>2, <2>3 DEF Typed, CTyped
<1>4. QED BY <1>2, <1>3

LEMMA NewestsKnown ==
    ASSUME BTyped, NEW position \in Newests
    PROVE  position \in Positions
<1>1. CASE mode = "streams"
  <2>1. ASSUME NEW i \in {Len(stream)} \ {0}
        PROVE  OffsetOf(stream[i]) \in 0..(2 * MaxEvents)
    <3>1. stream \in Seq(Events) /\ i \in 1..Len(stream)
      BY DEF BTyped
    <3>a. stream[i] \in Events
      BY <3>1
    <3>2. stream[i].id \in 1..MaxEvents
      BY <3>a DEF Events
    <3>3. QED BY <3>2, Bounds DEF OffsetOf
  <2>2. QED BY <1>1, <2>1, Bounds DEF Newests, Positions
<1>2. CASE mode # "streams"
  <2>1. replay # << >> => replay[Len(replay)] \in Events
    BY DEF BTyped
  <2>2. replay # << >> => replay[Len(replay)].id \in 0..MaxEvents
    BY <2>1, Bounds DEF Events
  <2>3. QED BY <1>2, <2>2, PositionBounds DEF Newests
<1>3. QED BY <1>1, <1>2

LEMMA RecoverTyped ==
    ASSUME Typed, NEW k \in 1..Len(recoveries), RecoverFromGap(k)
    PROVE  BTyped' /\ CTyped' /\ Moves /\ Copies' \subseteq Copies
<1>1. /\ Unbroadcast
      /\ UNCHANGED <<connected, last, expected, saving, applied, got>>
      /\ lost \subseteq lost' /\ lost' \subseteq Causes
      /\ reorder' \in {reorder, {}} /\ seen' \in {seen, {}}
      /\ savedSeq' \in {0, savedSeq} /\ savedId' \in {0, savedId}
      /\ current' \in {current, recoveries[k].position}
  BY DEF RecoverFromGap, AnswerLastState, RemoveId, RemoveNumber, Reconcile, Loses, Causes,
         Typed, BTyped
<1>2. BTyped' /\ Moves /\ Copies' \subseteq Copies
  BY <1>1, LocalStep
<1>3. recoveries \in Seq(Recoveries) /\ recoveries[k] \in Recoveries
  BY DEF Typed, CTyped
<1>4. current' \in Positions
  BY <1>1, <1>3 DEF Recoveries, Typed, CTyped
<1>5. recoveries' \in Seq(Recoveries)
  <2>1. CASE Without(k)
    BY <1>3, <2>1, RemoveAtFacts DEF Without
  <2>2. ASSUME NEW r \in Recoveries, recoveries' = [recoveries EXCEPT ![k] = r]
        PROVE  recoveries' \in Seq(Recoveries)
    BY <1>3, <2>2
  <2>3. ASSUME NEW at \in {"removing", "removed"}, Stage(k, at)
        PROVE  recoveries' \in Seq(Recoveries)
    <3> PICK r : r = [recoveries[k] EXCEPT !.at = at]
      OBVIOUS
    <3>1. r \in Recoveries
      BY <1>3 DEF Recoveries
    <3>2. recoveries' = [recoveries EXCEPT ![k] = r]
      BY <2>3 DEF Stage
    <3>3. QED BY <2>2, <3>1, <3>2
  <2>4. ASSUME NEW position \in Newests,
               recoveries' = [recoveries EXCEPT ![k] = [at |-> "answered", position |-> position]]
        PROVE  recoveries' \in Seq(Recoveries)
    <3>1. position \in Positions
      BY NewestsKnown DEF Typed
    <3>2. [at |-> "answered", position |-> position] \in Recoveries
      BY <3>1 DEF Recoveries
    <3>3. QED BY <2>2, <2>4, <3>2
  <2>5. QED
    BY <2>1, <2>3, <2>4
       DEF RecoverFromGap, AnswerLastState, RemoveId, RemoveNumber, Reconcile
<1>6. Positions' = Positions /\ Recoveries' = Recoveries
  BY <1>1, SamePositions DEF Unbroadcast
<1>7. CTyped'
  <2>1. reorder' \subseteq Events /\ (expected = 0 => reorder' = {})
        /\ \A f \in reorder' : f \in reorder
    BY <1>1 DEF Typed, CTyped
  <2>2. QED BY <1>1, <1>4, <1>5, <1>6, <2>1, Bounds DEF Typed, CTyped, Unbroadcast
<1>8. QED BY <1>2, <1>7

(* The connection breaks, the app is paused and resumed, or it restarts.      *)
LEMMA BreakTyped ==
    ASSUME Typed, Disconnect \/ PauseAndResume \/ Restart
    PROVE  BTyped' /\ CTyped' /\ Moves /\ Copies' \subseteq Copies
<1>1. /\ UNCHANGED <<mode, events, shared, local, publisher, stream, wire, degraded,
                     replay, sent>>
      /\ ~connected' /\ sub' = "none" /\ queue' = << >>
      /\ lost \subseteq lost' /\ lost' \subseteq Causes
      /\ reorder' = reorder \/ reorder' = {}
      /\ connected' \in BOOLEAN
  BY DEF Disconnect, PauseAndResume, Restart, Unregister, Loses, Causes, Typed, BTyped
<1>2. << >> \in Seq(Events) /\ Len(<< >>) <= QueueSize /\ ToSet(<< >>) = {}
  BY Bounds DEF ToSet
<1>3. ClientOnly
  BY <1>1, <1>2 DEF ClientOnly
<1>4. BTyped' /\ Moves /\ Copies' \subseteq Copies
  BY <1>1, <1>2, <1>3, ClientMoves
<1>5. /\ got' = got /\ savedId' = savedId /\ savedSeq' = savedSeq
      /\ last' \in {last, current, savedId} /\ current' \in {current, savedId}
      /\ \/ UNCHANGED <<expected, seen, reorder, saving, recoveries, applied>>
         \/ expected' = savedSeq /\ seen' = {} /\ reorder' = {} /\ saving' = << >>
            /\ recoveries' = << >> /\ applied' = << >>
  BY DEF Disconnect, PauseAndResume, Restart, Unregister
<1>6. /\ savedId \in Positions /\ savedSeq \in 0..(MaxEvents + 1)
      /\ << >> \in Seq(Nat) /\ << >> \in Seq(Handlers) /\ << >> \in Seq(Recoveries)
      /\ Len(<< >>) = 0
  <2>1. events <= MaxEvents /\ events \in Nat
    BY Bounds DEF Typed, BTyped
  <2>2. savedId \in 0..MaxEvents
    BY <2>1, Bounds DEF Typed, CTyped
  <2>3. QED BY <2>2, Bounds, PositionBounds DEF Typed, CTyped
<1>7. CTyped'
  <2>0. Positions' = Positions /\ Recoveries' = Recoveries
    BY <1>1, SamePositions
  <2>1. last' \in Positions /\ current' \in Positions
    BY <1>5, <1>6 DEF Typed, CTyped
  <2>2. CASE UNCHANGED <<expected, seen, reorder, saving, recoveries, applied>>
    BY <1>1, <1>5, <2>0, <2>1, <2>2 DEF Typed, CTyped
  <2>3. CASE expected' = savedSeq /\ seen' = {} /\ reorder' = {} /\ saving' = << >>
             /\ recoveries' = << >> /\ applied' = << >>
    <3>1. \A j \in 1..Len(saving') : saving'[j].event.id \in got'
      BY <1>6, <2>3
    <3>2. QED BY <1>1, <1>5, <1>6, <2>0, <2>1, <2>3, <3>1 DEF Typed, CTyped
  <2>4. QED BY <1>5, <2>2, <2>3
<1>8. QED BY <1>4, <1>7

(* Copies of an event keep its id.                                            *)
LEMMA MovesKnown ==
    ASSUME Typed, BTyped', Moves
    PROVE  IdsKnown'
<1>1. events \in Nat /\ events' \in {events, events + 1}
  BY DEF Typed, BTyped, Moves
<1>2. PICK seq \in Nat : \A e \in Copies' :
          \/ e \in Copies
          \/ events' = events + 1 /\ e.id = events + 1 /\ e.seq = seq /\ ~e.stored
          \/ \E f \in Copies : /\ e = [f EXCEPT !.stored = TRUE]
                               /\ mode = "streams" /\ ~degraded' => e.id \in Offsets'
  BY DEF Moves
<1>3. Copies \subseteq Events
  <2>1. /\ ToSet(replay) \subseteq Events /\ ToSet(queue) \subseteq Events
        /\ ToSet(stream) \subseteq Events
    BY Elements DEF Typed, BTyped
  <2>2. Carried \subseteq Events
    BY PublisherFacts DEF Typed, Carried, Busy
  <2>3. QED BY <2>1, <2>2 DEF Typed, BTyped, CTyped, Copies
<1>4. \A f \in Copies : [f EXCEPT !.stored = TRUE].id = f.id
  BY <1>3 DEF Events
<1>5. ASSUME NEW e \in Copies' PROVE e.id \in 1..events'
  <2>1. e.id \in 1..events \/ (events' = events + 1 /\ e.id = events + 1)
    BY <1>2, <1>4 DEF Typed, IdsKnown
  <2>2. QED BY <1>1, <2>1
<1>6. QED BY <1>5 DEF IdsKnown

LEMMA NextTyped ==
    ASSUME Typed, [Next]_vars
    PROVE  Typed' /\ Moves
<1>1. BTyped' /\ CTyped' /\ Moves
  <2>1. CASE BNext /\ UNCHANGED cVars
    BY <2>1, BNextTyped
  <2>2. CASE UNCHANGED vars
    <3>1. Copies' = Copies /\ Offsets' = Offsets
      BY <2>2 DEF vars, bVars, cVars, Copies, Carried, Busy, Offsets
    <3>2. BTyped' /\ CTyped'
      <4>1. Positions' = Positions /\ Recoveries' = Recoveries
        BY <2>2, SamePositions DEF vars, bVars
      <4>2. QED BY <2>2, <4>1 DEF vars, bVars, cVars, Typed, BTyped, CTyped
    <3>3. Moves
      BY <2>2, <3>1 DEF vars, bVars, Moves
    <3>4. QED BY <3>2, <3>3
  <2>3. QED
    BY <2>1, <2>2, ConnectTyped, DeliverTyped, SaveIdTyped, SaveNumberTyped, RecoverTyped,
       BreakTyped DEF Next
<1>2. QED BY <1>1, MovesKnown DEF Typed

LEMMA InitTyped ==
    ASSUME Init
    PROVE  Typed /\ Copies = {}
<1>1. Quiet \in PublisherRecords /\ Quiet.pc = "idle" /\ Quiet.event.seq = 0
  BY QuietRecord
<1>2. /\ events = 0 /\ shared = 0 /\ local = 0
      /\ publisher = [p \in Publishers |-> Quiet]
      /\ stream = << >> /\ wire = {} /\ replay = << >> /\ queue = << >>
      /\ degraded = FALSE /\ sub = "none" /\ sent = {} /\ lost = {}
      /\ mode \in {"memory", "pubsub", "streams"}
  BY BroadcasterAssumption DEF Init, BInit, BroadcasterAssumption
<1>3. BTyped
  <2>1. /\ \A p \in Publishers : publisher[p] = Quiet
        /\ publisher \in [Publishers -> PublisherRecords]
    BY <1>1, <1>2
  <2>2. /\ << >> \in Seq(Events) /\ Len(<< >>) = 0
        /\ 0 \in 0..MaxEvents /\ 0 \in 0..0 /\ 0 <= QueueSize /\ 0 <= ReplaySize
    BY Bounds
  <2>3. \A p \in Publishers : /\ publisher[p].event.seq <= events
                              /\ publisher[p].pc \in {"counting", "numbered"} =>
                                     ~publisher[p].event.stored
    BY <1>1, <1>2, <2>1
  <2>4. /\ mode \in {"memory", "pubsub", "streams"} /\ degraded \in BOOLEAN
        /\ events \in 0..MaxEvents /\ shared \in 0..events /\ local \in 0..events
        /\ sub \in {"none", "live", "pruned"}
        /\ wire \subseteq Events /\ sent \subseteq 1..events /\ lost \subseteq Causes
    BY <1>2, <2>2
  <2>5. /\ stream \in Seq(Events) /\ replay \in Seq(Events) /\ queue \in Seq(Events)
        /\ Len(queue) <= QueueSize /\ Len(replay) <= ReplaySize
    BY <1>2, <2>2
  <2>6. QED BY <2>1, <2>3, <2>4, <2>5 DEF BTyped
<1>4. CTyped
  <2>1. /\ connected = FALSE /\ last = 0 /\ current = 0 /\ savedId = 0 /\ savedSeq = 0
        /\ expected = 0 /\ seen = {} /\ reorder = {} /\ saving = << >>
        /\ recoveries = << >> /\ applied = << >> /\ got = {}
    BY DEF Init
  <2>2. /\ 0 \in 0..MaxEvents /\ 0 \in 0..(MaxEvents + 1) /\ 0 \in Positions
        /\ << >> \in Seq(Nat) /\ << >> \in Seq(Handlers) /\ << >> \in Seq(Recoveries)
        /\ Len(<< >>) = 0
    BY Bounds, PositionBounds
  <2>3. /\ \A k \in 1..Len(saving) : saving[k].event.id \in got
        /\ \A f \in reorder : f.id \in got /\ (f.seq = expected => saving # << >>)
    BY <2>1, <2>2
  <2>4. QED BY <1>2, <2>1, <2>2, <2>3 DEF CTyped
<1>5. Copies = {}
  <2>1. ToSet(stream) = {} /\ ToSet(replay) = {} /\ ToSet(queue) = {}
    BY <1>2 DEF ToSet
  <2>2. Busy = {}
    BY <1>1, <1>2 DEF Busy
  <2>3. Carried = {}
    BY <2>2 DEF Carried
  <2>4. reorder = {} /\ wire = {}
    BY <1>2 DEF Init
  <2>5. QED BY <2>1, <2>3, <2>4 DEF Copies
<1>6. QED BY <1>3, <1>4, <1>5 DEF Typed, IdsKnown

LEMMA TypedImplies == Typed => TypeOK
<1> SUFFICES ASSUME Typed PROVE TypeOK
  OBVIOUS
<1>1. events \in Nat /\ events <= MaxEvents /\ MaxEvents \in Nat
  BY Bounds DEF Typed, BTyped
<1>2. /\ ToSet(replay) \subseteq Events /\ ToSet(queue) \subseteq Events
      /\ ToSet(stream) \subseteq Events
  BY Elements DEF Typed, BTyped
<1>3. {e.event : e \in {publisher[p] : p \in Publishers}} \subseteq Events
  BY PublisherFacts DEF Typed
<1>4. seen \cup got \cup sent \subseteq 1..MaxEvents
  BY <1>1 DEF Typed, BTyped, CTyped
<1>5. savedId \in 0..MaxEvents
  BY <1>1 DEF Typed, CTyped
<1>6. QED BY <1>1, <1>2, <1>3, <1>4, <1>5 DEF Typed, BTyped, CTyped, TypeOK

(* Positions, queues and buffers hold events and ids, and no queue or buffer  *)
(* outgrows its bound, for every size of them (register, _fanout_raw).        *)
THEOREM TypeCorrectness == Spec => []TypeOK
<1>1. Init => Typed
  BY InitTyped
<1>2. Typed /\ [Next]_vars => Typed'
  BY NextTyped
<1>3. QED BY <1>1, <1>2, TypedImplies, PTL DEF Spec

-----------------------------------------------------------------------------
(* Every copy with an offset stays one that the stream holds.                 *)
Durable ==
    mode = "streams" /\ ~degraded => \A e \in Copies : e.stored => e.id \in Offsets

LEMMA MovesDurable ==
    ASSUME Typed, Durable, Moves, BTyped'
    PROVE  Durable'
<1> SUFFICES ASSUME mode' = "streams", ~degraded'
             PROVE  \A e \in Copies' : e.stored => e.id \in Offsets'
  BY DEF Durable
<1>1. mode = "streams" /\ ~degraded /\ Offsets \subseteq Offsets'
  BY DEF Moves
<1>2. \A e \in Copies : e.stored => e.id \in Offsets'
  BY <1>1 DEF Durable
<1>3. PICK seq \in Nat : \A e \in Copies' :
          \/ e \in Copies
          \/ events' = events + 1 /\ e.id = events + 1 /\ e.seq = seq /\ ~e.stored
          \/ \E f \in Copies : /\ e = [f EXCEPT !.stored = TRUE]
                               /\ mode = "streams" /\ ~degraded' => e.id \in Offsets'
  BY DEF Moves
<1>4. QED BY <1>1, <1>2, <1>3

LEMMA DurableImplies == Typed /\ Durable => SeenIsDurable
<1> SUFFICES ASSUME Typed, Durable, mode = "streams", ~degraded,
                    NEW i \in 1..Len(queue), queue[i].stored
             PROVE  \E j \in 1..Len(stream) : stream[j].id = queue[i].id
  BY DEF SeenIsDurable
<1>1. /\ \A e : e \in ToSet(queue) <=> \E k \in 1..Len(queue) : queue[k] = e
      /\ \A e : e \in ToSet(stream) <=> \E k \in 1..Len(stream) : stream[k] = e
  BY Elements DEF Typed, BTyped
<1>2. queue[i] \in Copies
  BY <1>1 DEF Copies
<1>3. queue[i].id \in Offsets
  BY <1>2 DEF Durable
<1>4. QED BY <1>1, <1>3 DEF Offsets

(* While the instance is not degraded, an event that a client was given with  *)
(* an offset is in the Redis Stream (RedisStreamEventStore.append, before the *)
(* fan-out), whatever fails and however the stream was read back.             *)
THEOREM OffsetsAreDurable == Spec => []SeenIsDurable
<1>1. Init => Typed /\ Durable
  BY InitTyped DEF Durable
<1>2. Typed /\ Durable /\ [Next]_vars => (Typed /\ Durable)'
  <2> SUFFICES ASSUME Typed, Durable, [Next]_vars PROVE (Typed /\ Durable)'
    OBVIOUS
  <2>1. Typed' /\ Moves
    BY NextTyped
  <2>2. BTyped'
    BY <2>1 DEF Typed
  <2>3. QED BY <2>1, <2>2, MovesDurable
<1>3. QED BY <1>1, <1>2, DurableImplies, PTL DEF Spec

-----------------------------------------------------------------------------
(* The number expected follows the last one that was applied.                 *)
Follows(numbers, next) ==
    /\ \A i \in 1..(Len(numbers) - 1) : numbers[i + 1] = numbers[i] + 1
    /\ numbers = << >> \/ next = numbers[Len(numbers)] + 1

(* The ways in which the timeline and what it expects may change.             *)
LEMMA TimelineSteps ==
    ASSUME Typed, [Next]_vars
    PROVE  \/ UNCHANGED <<applied, expected>>
           \/ Restart /\ applied' = << >>
           \/ \E e \in Events, others \in Seq(Handlers) :
                  /\ Apply(e, others) /\ e.seq # 0 /\ e.seq \in Nat
                  /\ expected = 0 \/ expected = e.seq
                  /\ expected = 0 /\ e.seq > 1 => "first" \in lost'
                  /\ e.id \in got'
                  /\ e \in reorder \/ e \in ToSet(queue)
<1>1. CASE Deliver
  <2>0. expected \in Nat /\ saving \in Seq(Handlers)
    BY Bounds DEF Typed, CTyped
  <2>1. PICK e \in Events : HandleEvent(e) /\ e \in ToSet(queue)
    BY <1>1, DeliverFacts
  <2>2. CASE Ignore \/ Defer(e)
    BY <2>2 DEF Ignore, Defer
  <2>3. CASE Apply(e, saving) /\ e.seq # 0 /\ (expected = 0 \/ expected = e.seq)
    <3>1. /\ e.seq \in Nat /\ e.id \in got'
          /\ expected = 0 /\ e.seq > 1 => "first" \in lost'
      BY <2>0, <2>1, HandleCases, Bounds DEF Events
    <3>2. QED BY <2>0, <2>1, <2>3, <3>1
  <2>4. QED BY <2>0, <2>1, <2>2, <2>3, HandleCases
<1>2. CASE SaveNumber
  <2>1. /\ Tail(saving) \in Seq(Handlers) /\ got' = got
        /\ \/ \E f \in reorder : f.seq = expected /\ Apply(f, Tail(saving))
           \/ UNCHANGED <<applied, expected>>
    BY <1>2, SaveNumberFacts
  <2>2. ASSUME NEW f \in reorder, f.seq = expected
        PROVE  f \in Events /\ f.seq # 0 /\ f.seq \in Nat /\ f.id \in got /\ expected # 0
    BY <2>2, Bounds DEF Typed, CTyped, Events
  <2>3. QED BY <2>1, <2>2
<1>3. CASE Restart
  BY <1>3 DEF Restart
<1>4. CASE UNCHANGED <<applied, expected>>
  BY <1>4
<1>5. ASSUME NEW k \in 1..Len(recoveries), RecoverFromGap(k)
      PROVE  UNCHANGED <<applied, expected>>
  BY <1>5 DEF RecoverFromGap, AnswerLastState, RemoveId, RemoveNumber, Reconcile
<1>6. QED
  BY <1>1, <1>2, <1>3, <1>4, <1>5
     DEF Next, vars, cVars, Connect, SaveId, Disconnect, PauseAndResume

LEMMA FollowsOn ==
    ASSUME NEW numbers \in Seq(Nat), NEW n \in Nat, Follows(numbers, n)
    PROVE  Follows(Append(numbers, n), n + 1)
<1> PICK all : all = Append(numbers, n)
  OBVIOUS
<1> PICK l \in Nat : l = Len(numbers)
  OBVIOUS
<1>1. /\ Len(all) = l + 1 /\ all[l + 1] = n
      /\ \A i \in 1..l : all[i] = numbers[i]
  BY AppendFacts
<1>2. ASSUME NEW i \in 1..l PROVE all[i + 1] = all[i] + 1
  <2>1. CASE i = l
    <3>1. n = numbers[l] + 1
      BY <2>1 DEF Follows
    <3>2. QED BY <1>1, <2>1, <3>1
  <2>2. CASE i # l
    <3>1. i \in 1..(l - 1) /\ i + 1 \in 1..l
      BY <2>2
    <3>2. QED BY <1>1, <3>1 DEF Follows
  <2>3. QED BY <2>1, <2>2
<1>3. all # << >> /\ n + 1 = all[Len(all)] + 1 /\ Len(all) - 1 = l
  BY <1>1
<1>4. QED BY <1>2, <1>3 DEF Follows

LEMMA NextFollows ==
    ASSUME Typed, Follows(applied, expected), [Next]_vars
    PROVE  Follows(applied, expected)'
<1>1. CASE UNCHANGED <<applied, expected>>
  BY <1>1
<1>2. CASE applied' = << >>
  BY <1>2 DEF Follows
<1>3. ASSUME NEW e \in Events, NEW others, Apply(e, others), e.seq \in Nat,
             expected = 0 \/ expected = e.seq
      PROVE  Follows(applied, expected)'
  <2>1. applied \in Seq(Nat) /\ applied' = Append(applied, e.seq) /\ expected' = e.seq + 1
    BY <1>3 DEF Typed, CTyped, Apply
  <2>2. Follows(applied, e.seq)
    <3>1. CASE applied = << >>
      BY <3>1 DEF Follows
    <3>2. CASE applied # << >>
      <4>1. applied[Len(applied)] \in Nat /\ expected = applied[Len(applied)] + 1
        BY <2>1, <3>2 DEF Follows
      <4>2. expected = e.seq
        BY <1>3, <4>1
      <4>3. QED BY <4>2
    <3>3. QED BY <3>1, <3>2
  <2>3. Follows(Append(applied, e.seq), e.seq + 1)
    BY <1>3, <2>1, <2>2, FollowsOn
  <2>4. QED BY <2>1, <2>3
<1>4. QED BY <1>1, <1>2, <1>3, TimelineSteps

(* The timeline shows the numbers of a session one after the other, none      *)
(* twice and none skipped, in whatever order the events arrive, through gaps, *)
(* recoveries and reconnections (_handleEvent, _drainReorderBuffer).          *)
THEOREM TimelineInOrder == Spec => []AppliedInOrder
<1>1. Init => Typed /\ Follows(applied, expected)
  <2>1. Follows(<< >>, 0)
    BY DEF Follows
  <2>2. Init => applied = << >> /\ expected = 0
    BY DEF Init
  <2>3. QED BY <2>1, <2>2, InitTyped
<1>2. Typed /\ Follows(applied, expected) /\ [Next]_vars
      => (Typed /\ Follows(applied, expected))'
  BY NextTyped, NextFollows
<1>3. Follows(applied, expected) => AppliedInOrder
  BY DEF Follows, AppliedInOrder
<1>4. QED BY <1>1, <1>2, <1>3, PTL DEF Spec

-----------------------------------------------------------------------------
(* Every event has one number, and every number that was taken is that of an  *)
(* event which a publisher still has or which was fanned out; what was fanned *)
(* out the client has or will be offered; and what it has is applied, waits   *)
(* in the reorder buffer or has no number.                                    *)
Placed(id) ==
    id \in sent \/ \E p \in Publishers : /\ publisher[p].pc # "idle"
                                         /\ publisher[p].event.id = id
NumberedBy(number) == \A e \in Copies : e.seq = number[e.id]
NumbersPlaced(number) ==
    \A n \in 1..shared \cup 1..local : \E id \in 1..events : number[id] = n /\ Placed(id)
OneAhead ==
    \A p \in Publishers :
        publisher[p].pc = "counting" => publisher[p].event.seq <= local + 1
SentArrives ==
    connected => \A id \in sent : id \in got \/ \E e \in ToSet(queue) : e.id = id
GotAccounted(number) ==
    \A id \in got : \/ number[id] = 0 \/ number[id] < expected
                    \/ \E f \in reorder : f.seq = number[id]
AllApplied == \A n \in 1..(expected - 1) : \E i \in 1..Len(applied) : applied[i] = n
Accounted(number) ==
    /\ number \in [Nat -> Nat] /\ NumberedBy(number)
    /\ lost = {} => /\ NumbersPlaced(number) /\ OneAhead /\ SentArrives
                    /\ GotAccounted(number) /\ AllApplied

(* The number of a new event is added to those of the others.                 *)
LEMMA Renumbered ==
    ASSUME Typed, Typed', Moves, NEW number \in [Nat -> Nat], NumberedBy(number)
    PROVE  \E next \in [Nat -> Nat] :
               /\ \A e \in Copies' : e.seq = next[e.id]
               /\ \A id \in 1..events : next[id] = number[id]
<1>1. events \in Nat /\ events' \in {events, events + 1}
  BY DEF Typed, BTyped, Moves
<1>2. PICK seq \in Nat : \A e \in Copies' :
          \/ e \in Copies
          \/ events' = events + 1 /\ e.id = events + 1 /\ e.seq = seq /\ ~e.stored
          \/ \E f \in Copies : /\ e = [f EXCEPT !.stored = TRUE]
                               /\ mode = "streams" /\ ~degraded' => e.id \in Offsets'
  BY DEF Moves
<1>3. Copies \subseteq Events
  <2>1. /\ ToSet(replay) \subseteq Events /\ ToSet(queue) \subseteq Events
        /\ ToSet(stream) \subseteq Events
    BY Elements DEF Typed, BTyped
  <2>2. Carried \subseteq Events
    BY PublisherFacts DEF Typed, Carried, Busy
  <2>3. QED BY <2>1, <2>2 DEF Typed, BTyped, CTyped, Copies
<1>4. \A f \in Copies : [f EXCEPT !.stored = TRUE].id = f.id
                        /\ [f EXCEPT !.stored = TRUE].seq = f.seq
  BY <1>3 DEF Events
<1> DEFINE next == [number EXCEPT ![events + 1] = seq]
<1>5. /\ next \in [Nat -> Nat] /\ next[events + 1] = seq
      /\ \A id \in 1..events : next[id] = number[id]
  BY <1>1
<1> HIDE DEF next
<1>6. \A f \in Copies : f.seq = next[f.id]
  BY <1>5 DEF NumberedBy, Typed, IdsKnown
<1>7. ASSUME NEW e \in Copies' PROVE e.seq = next[e.id]
  <2>1. CASE e \in Copies
    BY <1>6, <2>1
  <2>2. CASE e.id = events + 1 /\ e.seq = seq
    BY <1>5, <2>2
  <2>3. CASE \E f \in Copies : e = [f EXCEPT !.stored = TRUE]
    BY <1>4, <1>6, <2>3
  <2>4. QED BY <1>2, <2>1, <2>2, <2>3
<1>8. QED BY <1>5, <1>7

(* What the broadcaster does without losing a number or an event.             *)
Advances ==
    /\ \A id \in Nat : Placed(id) => Placed(id)'
    /\ \A n \in 1..shared' \cup 1..local' :
           n \in 1..shared \cup 1..local
           \/ \E p \in Publishers : /\ publisher'[p].pc # "idle"
                                    /\ publisher'[p].event.seq = n
    /\ OneAhead'
    /\ \A id \in sent' : \/ id \in sent \/ sub = "none"
                         \/ \E e \in ToSet(queue') : e.id = id
    /\ ToSet(queue) \subseteq ToSet(queue')

LEMMA PublishAdvances ==
    ASSUME BTyped, OneAhead, NEW p \in Publishers, NEW mine \in BOOLEAN,
           Publish(p, mine), lost' = {}
    PROVE  Advances
<1> PICK e : e = [id |-> events + 1, seq |-> 0, stored |-> FALSE]
  OBVIOUS
<1>1. publisher[p].pc = "idle" /\ UNCHANGED <<local, queue, sent>>
  BY DEF Publish
<1>2. PICK r : /\ publisher' = [publisher EXCEPT ![p] = r] /\ r.pc # "idle"
               /\ r.pc = "counting" => r.event.seq = local + 1
               /\ shared' = shared \/ (shared' = shared + 1 /\ r.event.seq = shared + 1)
  <2>1. CASE At(p, "numbered", e) /\ shared' = shared
    <3> DEFINE r == [pc |-> "numbered", event |-> e]
    <3>1. publisher' = [publisher EXCEPT ![p] = r] /\ r.pc = "numbered"
      BY <2>1 DEF At
    <3> HIDE DEF r
    <3>2. QED BY <2>1, <3>1
  <2>2. CASE At(p, "numbered", [e EXCEPT !.seq = shared + 1]) /\ shared' = shared + 1
    <3> DEFINE r == [pc |-> "numbered", event |-> [e EXCEPT !.seq = shared + 1]]
    <3>1. /\ publisher' = [publisher EXCEPT ![p] = r] /\ r.pc = "numbered"
          /\ r.event.seq = shared + 1
      BY <2>2 DEF At
    <3> HIDE DEF r
    <3>2. QED BY <2>2, <3>1
  <2>3. CASE At(p, "counting", [e EXCEPT !.seq = local + 1]) /\ shared' = shared
    <3> DEFINE r == [pc |-> "counting", event |-> [e EXCEPT !.seq = local + 1]]
    <3>1. /\ publisher' = [publisher EXCEPT ![p] = r] /\ r.pc = "counting"
          /\ r.event.seq = local + 1
      BY <2>3 DEF At
    <3> HIDE DEF r
    <3>2. QED BY <2>3, <3>1
  <2>4. QED BY <2>1, <2>2, <2>3 DEF Publish
<1>3. publisher'[p] = r /\ \A q \in Publishers : q # p => publisher'[q] = publisher[q]
  BY <1>2 DEF BTyped
<1>4. \A id \in Nat : Placed(id) => Placed(id)'
  BY <1>1, <1>3 DEF Placed
<1>5. ASSUME NEW n \in 1..shared' \cup 1..local'
      PROVE  n \in 1..shared \cup 1..local
             \/ \E q \in Publishers : publisher'[q].pc # "idle" /\ publisher'[q].event.seq = n
  <2>1. shared \in Nat /\ local \in Nat
    BY DEF BTyped
  <2>2. n \in 1..shared \cup 1..local \/ (n = shared + 1 /\ shared' = shared + 1)
    BY <1>1, <1>2, <2>1
  <2>3. shared' = shared + 1 => r.event.seq = shared + 1
    BY <1>2, <2>1
  <2>4. QED BY <1>2, <1>3, <2>2, <2>3
<1>6. OneAhead'
  <2>1. \A q \in Publishers : publisher'[q].pc = "counting" =>
            publisher'[q].event.seq <= local + 1
    <3>1. local + 1 <= local + 1
      BY DEF BTyped
    <3>2. QED BY <1>2, <1>3, <3>1 DEF OneAhead
  <2>2. QED BY <1>1, <2>1 DEF OneAhead
<1>7. QED BY <1>1, <1>4, <1>5, <1>6 DEF Advances

LEMMA CountAdvances ==
    ASSUME BTyped, OneAhead, NEW p \in Publishers, Count(p), lost' = {}
    PROVE  Advances
<1> PICK e : e = publisher[p].event
  OBVIOUS
<1>1. /\ publisher[p].pc = "counting" /\ UNCHANGED <<shared, queue, sent>>
      /\ local' = e.seq /\ ~(local >= e.seq)
      /\ publisher' = [publisher EXCEPT ![p] = [pc |-> "numbered", event |-> e]]
  BY DEF Count, Loses, At
<1>2. /\ publisher'[p] = [pc |-> "numbered", event |-> e]
      /\ \A q \in Publishers : q # p => publisher'[q] = publisher[q]
  BY <1>1 DEF BTyped
<1>3. /\ local \in Nat /\ e.seq \in Nat /\ local < e.seq /\ e.seq <= local + 1
  <2>1. e.seq \in Nat
    BY PublisherFacts DEF Events
  <2>2. QED BY <1>1, <2>1 DEF BTyped, OneAhead
<1>4. \A id \in Nat : Placed(id) => Placed(id)'
  BY <1>1, <1>2 DEF Placed
<1>5. ASSUME NEW n \in 1..shared' \cup 1..local'
      PROVE  n \in 1..shared \cup 1..local
             \/ \E q \in Publishers : publisher'[q].pc # "idle" /\ publisher'[q].event.seq = n
  <2>1. n \in 1..shared \cup 1..local \/ n = e.seq
    BY <1>1, <1>3
  <2>2. QED BY <1>2, <2>1
<1>6. OneAhead'
  <2>1. ASSUME NEW q \in Publishers, publisher'[q].pc = "counting"
        PROVE  publisher'[q].event.seq <= local' + 1
    <3>1. q # p /\ publisher'[q] = publisher[q]
      BY <1>2, <2>1
    <3>2. publisher[q].event.seq <= local + 1 /\ publisher[q].event.seq \in Nat
      BY <2>1, <3>1, PublisherFacts DEF OneAhead, Events
    <3>3. QED BY <1>1, <1>3, <3>1, <3>2
  <2>2. QED BY <2>1 DEF OneAhead
<1>7. QED BY <1>1, <1>4, <1>5, <1>6 DEF Advances

LEMMA StoreAdvances ==
    ASSUME BTyped, OneAhead, NEW p \in Publishers, Store(p), lost' = {}
    PROVE  Advances
<1> PICK e : e = publisher[p].event
  OBVIOUS
<1>1. UNCHANGED <<shared, local, queue, sent>>
  BY DEF Store
<1>2. PICK f : /\ publisher' = [publisher EXCEPT ![p] = [pc |-> "stored", event |-> f]]
               /\ f.id = e.id
  <2>1. e \in Events
    BY PublisherFacts
  <2>2. [e EXCEPT !.stored = TRUE].id = e.id
    BY <2>1 DEF Events
  <2>3. QED BY <2>2 DEF Store, At
<1>3. /\ publisher'[p] = [pc |-> "stored", event |-> f]
      /\ \A q \in Publishers : q # p => publisher'[q] = publisher[q]
  BY <1>2 DEF BTyped
<1>4. \A id \in Nat : Placed(id) => Placed(id)'
  BY <1>1, <1>2, <1>3 DEF Placed
<1>5. OneAhead'
  BY <1>1, <1>3 DEF OneAhead
<1>6. QED BY <1>1, <1>4, <1>5 DEF Advances

LEMMA FanoutAdvances ==
    ASSUME BTyped, IdsKnown, OneAhead, NEW p \in Publishers, Fanout(p), lost' = {}
    PROVE  Advances
<1> PICK e : e = publisher[p].event
  OBVIOUS
<1>1. e \in Events /\ e \in Carried /\ e.id \in 1..events
  BY PublisherFacts DEF Fanout, IdsKnown, Copies
<1>2. /\ FanoutRaw(e) /\ publisher' = [publisher EXCEPT ![p] = Quiet]
      /\ UNCHANGED <<shared, local>>
  BY DEF Fanout, Loses
<1>3. /\ publisher'[p] = Quiet
      /\ \A q \in Publishers : q # p => publisher'[q] = publisher[q]
  BY <1>2 DEF BTyped
<1>4. /\ sent' = sent \cup {e.id}
      /\ queue' = Append(queue, e) \/ (queue' = queue /\ sub = "none")
  BY <1>1, <1>2, FanoutRawEffects
<1>5. \A id \in Nat : Placed(id) => Placed(id)'
  BY <1>3, <1>4 DEF Placed
<1>6. OneAhead'
  BY <1>2, <1>3, QuietRecord DEF OneAhead
<1>7. (queue' = Append(queue, e) => e \in ToSet(queue'))
      /\ ToSet(queue) \subseteq ToSet(queue')
  <2>1. ToSet(Append(queue, e)) = ToSet(queue) \cup {e}
    BY <1>1, AppendFacts DEF BTyped
  <2>2. QED BY <1>4, <2>1
<1>8. QED BY <1>2, <1>4, <1>5, <1>6, <1>7 DEF Advances

LEMMA ReceiveAdvances ==
    ASSUME BTyped, IdsKnown, OneAhead, NEW e \in wire, Receive(e), lost' = {}
    PROVE  Advances
<1>1. e \in Events /\ e.id \in 1..events
  BY DEF BTyped, IdsKnown, Copies
<1>2. UNCHANGED <<shared, local, publisher>>
  BY DEF Receive
<1>3. OneAhead'
  BY <1>2 DEF OneAhead
<1>4. CASE FanoutRaw(e)
  <2>1. /\ sent' = sent \cup {e.id}
        /\ queue' = Append(queue, e) \/ (queue' = queue /\ sub = "none")
    BY <1>1, <1>4, FanoutRawEffects
  <2>2. \A id \in Nat : Placed(id) => Placed(id)'
    BY <1>2, <2>1 DEF Placed
  <2>3. (queue' = Append(queue, e) => e \in ToSet(queue'))
        /\ ToSet(queue) \subseteq ToSet(queue')
    <3>1. ToSet(Append(queue, e)) = ToSet(queue) \cup {e}
      BY <1>1, AppendFacts DEF BTyped
    <3>2. QED BY <2>1, <3>1
  <2>4. QED BY <1>2, <1>3, <2>1, <2>2, <2>3 DEF Advances
<1>5. CASE UNCHANGED <<sent, queue>>
  <2>1. \A id \in Nat : Placed(id) => Placed(id)'
    BY <1>2, <1>5 DEF Placed
  <2>2. QED BY <1>2, <1>3, <1>5, <2>1 DEF Advances
<1>6. QED BY <1>4, <1>5 DEF Receive

LEMMA BNextAdvances ==
    ASSUME Typed, OneAhead, BNext, lost' = {}
    PROVE  Advances
<1>1. CASE ListenerFails \/ ListenerRecovers \/ Degrade \/ PruneInactive
  <2>1. UNCHANGED <<shared, local, publisher, queue, sent>>
    BY <1>1 DEF ListenerFails, ListenerRecovers, Degrade, PruneInactive
  <2>2. (\A id \in Nat : Placed(id) => Placed(id)') /\ OneAhead'
    BY <2>1 DEF Placed, OneAhead
  <2>3. QED BY <2>1, <2>2 DEF Advances
<1>2. \A p \in Publishers : ~RejectOversized(p)
  BY DEF RejectOversized, Loses
<1>3. QED
  BY <1>1, <1>2, PublishAdvances, CountAdvances, StoreAdvances, FanoutAdvances,
     ReceiveAdvances DEF BNext, Typed

(* One step, seen from the broadcaster and from the client.                   *)
LEMMA PlacedOn ==
    ASSUME Typed, Typed', Moves, NEW number \in [Nat -> Nat], NumbersPlaced(number),
           NEW next \in [Nat -> Nat], NumberedBy(next)',
           \A id \in 1..events : next[id] = number[id],
           Advances \/ UNCHANGED <<shared, local, publisher, sent>>
    PROVE  NumbersPlaced(next)'
<1>0. \A id \in 1..events : id \in 1..events' /\ id \in Nat
  <2>1. events \in Nat /\ events' \in {events, events + 1}
    BY DEF Typed, BTyped, Moves
  <2>2. QED BY <2>1
<1>1. \A id \in Nat : Placed(id) => Placed(id)'
  BY DEF Advances, Placed
<1>2. \A n \in 1..shared' \cup 1..local' :
          n \in 1..shared \cup 1..local
          \/ \E p \in Publishers : publisher'[p].pc # "idle" /\ publisher'[p].event.seq = n
  BY DEF Advances
<1>3. ASSUME NEW n \in 1..shared' \cup 1..local'
      PROVE  \E id \in 1..events' : next[id] = n /\ Placed(id)'
  <2>1. CASE n \in 1..shared \cup 1..local
    <3>1. PICK id \in 1..events : number[id] = n /\ Placed(id)
      BY <2>1 DEF NumbersPlaced
    <3>2. QED BY <1>0, <1>1, <3>1
  <2>2. CASE \E p \in Publishers : publisher'[p].pc # "idle" /\ publisher'[p].event.seq = n
    <3>1. PICK p \in Publishers : publisher'[p].pc # "idle" /\ publisher'[p].event.seq = n
      BY <2>2
    <3>2. publisher'[p].event \in Copies'
      BY <3>1 DEF Copies, Carried, Busy
    <3>3. PICK id : id = publisher'[p].event.id
      OBVIOUS
    <3>4. id \in 1..events' /\ next[id] = n
      BY <3>1, <3>2, <3>3 DEF Typed, IdsKnown, NumberedBy
    <3>5. Placed(id)'
      BY <3>1, <3>3 DEF Placed
    <3>6. QED BY <3>4, <3>5
  <2>3. QED BY <1>2, <2>1, <2>2
<1>4. QED BY <1>3 DEF NumbersPlaced

(* A delivery: the event is accounted for, and so are those received before.  *)
LEMMA DeliverAccounts ==
    ASSUME Typed, Deliver, NEW number \in [Nat -> Nat], NumberedBy(number),
           SentArrives, GotAccounted(number),
           NEW next \in [Nat -> Nat], \A id \in 1..events : next[id] = number[id]
    PROVE  SentArrives' /\ GotAccounted(next)'
<1>1. PICK e \in Events :
          /\ connected /\ e \in Copies /\ e.id \in 1..events
          /\ ToSet(queue) = ToSet(queue') \cup {e}
          /\ HandleEvent(e)
          /\ UNCHANGED <<connected, sent>>
  BY DeliverFacts
<1>7. expected \in Nat /\ seen \subseteq got
  BY Bounds DEF Typed, CTyped
<1>2. /\ got' = got \cup {e.id}
      /\ \/ Ignore /\ (e.seq = 0 \/ e.id \in seen \/ e.seq < expected)
         \/ /\ Apply(e, saving) /\ UNCHANGED <<reorder, recoveries>>
            /\ e.seq # 0 /\ (expected = 0 \/ expected = e.seq)
         \/ Defer(e) /\ e.seq # 0 /\ expected # 0 /\ e.seq # expected
                     /\ ~(e.seq < expected)
  BY <1>1, <1>7, HandleCases
<1>3. SentArrives'
  BY <1>1, <1>2 DEF SentArrives
<1>4. next[e.id] = e.seq /\ e.seq \in Nat
  BY <1>1, Bounds DEF NumberedBy, Events
<1>5. \A id \in got : id \in 1..events /\ next[id] = number[id] /\ next[id] \in Nat
  BY DEF Typed, CTyped
<1>6. \A id \in got : \/ next[id] = 0 \/ next[id] < expected
                      \/ \E f \in reorder : f.seq = next[id]
  BY <1>5 DEF GotAccounted
<1>8. ASSUME NEW id \in got'
      PROVE  \/ next[id] = 0 \/ next[id] < expected'
             \/ \E f \in reorder' : f.seq = next[id]
  <2>1. CASE Ignore /\ (e.seq = 0 \/ e.id \in seen \/ e.seq < expected)
    <3>1. expected' = expected /\ reorder' = reorder
      BY <2>1 DEF Ignore
    <3>2. id \in got \/ (id = e.id /\ (e.seq = 0 \/ e.seq < expected))
      BY <1>2, <1>7, <2>1
    <3>3. QED BY <1>4, <1>6, <3>1, <3>2
  <2>2. CASE Apply(e, saving) /\ reorder' = reorder /\ (expected = 0 \/ expected = e.seq)
    <3>1. expected' = e.seq + 1
      BY <2>2 DEF Apply
    <3>2. CASE id = e.id
      BY <1>4, <3>1, <3>2
    <3>3. CASE id \in got
      <4>1. next[id] < expected => next[id] < expected'
        BY <1>4, <1>5, <1>7, <2>2, <3>1, <3>3
      <4>2. QED BY <1>6, <2>2, <3>3, <4>1
    <3>4. QED BY <1>2, <3>2, <3>3
  <2>3. CASE Defer(e)
    <3>1. expected' = expected /\ reorder' = {f \in reorder : f.seq # e.seq} \cup {e}
      BY <2>3 DEF Defer
    <3>2. \A f \in reorder : \E g \in reorder' : g.seq = f.seq
      BY <3>1
    <3>3. QED BY <1>2, <1>4, <1>6, <3>1, <3>2
  <2>4. QED BY <1>2, <2>1, <2>2, <2>3
<1>9. QED BY <1>3, <1>8 DEF GotAccounted

(* The event that is taken from the reorder buffer is applied.                *)
LEMMA DrainAccounts ==
    ASSUME Typed, SaveNumber, NEW number \in [Nat -> Nat], GotAccounted(number),
           NEW next \in [Nat -> Nat], \A id \in 1..events : next[id] = number[id]
    PROVE  GotAccounted(next)'
<1>1. \A id \in got : id \in 1..events /\ next[id] = number[id] /\ next[id] \in Nat
  BY DEF Typed, CTyped
<1>2. \A id \in got : \/ next[id] = 0 \/ next[id] < expected
                      \/ \E f \in reorder : f.seq = next[id]
  BY <1>1 DEF GotAccounted
<1>3. /\ got' = got
      /\ \/ \E f \in reorder : f.seq = expected /\ reorder' = reorder \ {f}
                               /\ Apply(f, Tail(saving))
         \/ UNCHANGED <<reorder, expected>>
  BY SaveNumberFacts
<1>4. CASE UNCHANGED <<reorder, expected>>
  BY <1>2, <1>3, <1>4 DEF GotAccounted
<1>5. ASSUME NEW f \in reorder, f.seq = expected, reorder' = reorder \ {f},
             Apply(f, Tail(saving))
      PROVE  GotAccounted(next)'
  <2>1. expected' = f.seq + 1 /\ expected \in Nat
    BY <1>5, Bounds DEF Apply, Typed, CTyped
  <2>2. ASSUME NEW id \in got'
        PROVE  \/ next[id] = 0 \/ next[id] < expected'
               \/ \E g \in reorder' : g.seq = next[id]
    <3>1. id \in got /\ next[id] \in Nat
      BY <1>1, <1>3
    <3>2. next[id] < expected => next[id] < expected'
      BY <1>5, <2>1, <3>1
    <3>3. ASSUME NEW g \in reorder, g.seq = next[id]
          PROVE  next[id] < expected' \/ g \in reorder'
      BY <1>5, <2>1, <3>1, <3>3
    <3>4. QED BY <1>2, <3>1, <3>2, <3>3
  <2>3. QED BY <2>2 DEF GotAccounted
<1>6. QED BY <1>3, <1>4, <1>5

(* Nothing below the number expected was skipped.                             *)
LEMMA NextAllApplied ==
    ASSUME Typed, AllApplied, [Next]_vars, lost' = {}
    PROVE  AllApplied'
<1>1. CASE UNCHANGED <<applied, expected>>
  BY <1>1 DEF AllApplied
<1>2. ~Restart
  BY DEF Restart
<1>3. ASSUME NEW e \in Events, NEW others, Apply(e, others), e.seq \in Nat, e.seq # 0,
             expected = 0 \/ expected = e.seq,
             expected = 0 /\ e.seq > 1 => "first" \in lost'
      PROVE  AllApplied'
  <2>1. applied \in Seq(Nat) /\ applied' = Append(applied, e.seq) /\ expected' = e.seq + 1
    BY <1>3 DEF Typed, CTyped, Apply
  <2>2. /\ Len(applied) \in Nat /\ Len(applied') = Len(applied) + 1
        /\ applied'[Len(applied) + 1] = e.seq
        /\ \A i \in 1..Len(applied) : applied'[i] = applied[i]
    BY <1>3, <2>1, AppendFacts
  <2>3. ASSUME NEW n \in 1..(expected' - 1)
        PROVE  \E i \in 1..Len(applied') : applied'[i] = n
    <3>1. CASE n = e.seq
      BY <2>2, <3>1
    <3>2. CASE n # e.seq
      <4>1. expected # 0 /\ n \in 1..(expected - 1)
        BY <1>3, <2>1, <2>3, <3>2
      <4>2. PICK i \in 1..Len(applied) : applied[i] = n
        BY <4>1 DEF AllApplied
      <4>3. i \in 1..Len(applied') /\ applied'[i] = n
        BY <2>2, <4>2
      <4>4. QED BY <4>3
    <3>3. QED BY <3>1, <3>2
  <2>4. QED BY <2>3 DEF AllApplied
<1>4. QED BY <1>1, <1>2, <1>3, TimelineSteps

LEMMA NextAccounted ==
    ASSUME Typed, NEW number \in [Nat -> Nat], Accounted(number), [Next]_vars
    PROVE  \E next \in [Nat -> Nat] : Accounted(next)'
<1>1. Typed' /\ Moves
  BY NextTyped
<1>2. PICK next \in [Nat -> Nat] : /\ \A e \in Copies' : e.seq = next[e.id]
                                   /\ \A id \in 1..events : next[id] = number[id]
  BY <1>1, Renumbered DEF Accounted
<1>3. NumberedBy(next)'
  BY <1>2 DEF NumberedBy
<1>4. ASSUME lost' = {}
      PROVE  /\ NumbersPlaced(next)' /\ OneAhead' /\ SentArrives' /\ GotAccounted(next)'
             /\ AllApplied'
  <2>1. /\ lost = {} /\ NumberedBy(number) /\ NumbersPlaced(number) /\ OneAhead
        /\ SentArrives /\ GotAccounted(number) /\ AllApplied
    BY <1>1, <1>4 DEF Moves, Accounted
  <2>0. AllApplied'
    BY <1>4, <2>1, NextAllApplied
  <2>2. got \subseteq 1..events
    BY DEF Typed, CTyped
  <2>3. ASSUME UNCHANGED <<got, expected, reorder>>
        PROVE  GotAccounted(next)'
    BY <1>2, <2>1, <2>2, <2>3 DEF GotAccounted
  <2>4. CASE BNext /\ UNCHANGED cVars
    <3>1. Advances
      BY <1>4, <2>1, <2>4, BNextAdvances
    <3>2. UNCHANGED <<connected, got, expected, reorder>> /\ (connected <=> sub # "none")
      BY <2>4 DEF cVars, Typed, CTyped
    <3>3. NumbersPlaced(next)'
      BY <1>1, <1>2, <1>3, <2>1, <3>1, PlacedOn
    <3>4. OneAhead' /\ SentArrives'
      BY <2>1, <3>1, <3>2 DEF Advances, SentArrives
    <3>5. QED BY <2>0, <2>3, <3>2, <3>3, <3>4
  <2>5. ASSUME UNCHANGED <<shared, local, publisher, sent>>
        PROVE  NumbersPlaced(next)' /\ OneAhead'
    <3>1. NumbersPlaced(next)'
      BY <1>1, <1>2, <1>3, <2>1, <2>5, PlacedOn
    <3>2. OneAhead'
      BY <2>1, <2>5 DEF OneAhead
    <3>3. QED BY <3>1, <3>2
  <2>6. CASE Connect
    <3>1. PICK failed \in BOOLEAN :
              /\ queue' = Replayed(last, failed) \/ "full" \in lost'
              /\ \A id \in sent :
                     id \in got' \/ \E e \in ToSet(Replayed(last, failed)) : e.id = id
              /\ Missed(last, got, failed) # {} => lost' # {}
              /\ got' = got \cup Missed(last, got, failed)
              /\ UNCHANGED <<shared, local, publisher, sent, expected, reorder>>
      BY <2>6, ConnectFacts
    <3>2. queue' = Replayed(last, failed) /\ got' = got
      BY <1>4, <3>1
    <3>3. SentArrives'
      BY <3>1, <3>2 DEF SentArrives
    <3>4. QED BY <2>0, <2>3, <2>5, <3>1, <3>2, <3>3
  <2>7. CASE Deliver
    <3>1. UNCHANGED <<shared, local, publisher, sent>>
      BY <2>7 DEF Deliver
    <3>2. SentArrives' /\ GotAccounted(next)'
      BY <1>2, <2>1, <2>7, DeliverAccounts
    <3>3. QED BY <2>0, <2>5, <3>1, <3>2
  <2>8. CASE \E k \in 1..Len(recoveries) : RecoverFromGap(k)
    <3>1. PICK k \in 1..Len(recoveries) : RecoverFromGap(k)
      BY <2>8
    <3>2. /\ UNCHANGED <<shared, local, publisher, sent, connected, queue, got, expected>>
          /\ reorder' = reorder
      BY <1>4, <3>1
         DEF RecoverFromGap, AnswerLastState, RemoveId, RemoveNumber, Reconcile,
             Unbroadcast, Loses
    <3>3. QED BY <2>0, <2>1, <2>3, <2>5, <3>2 DEF SentArrives
  <2>13. CASE SaveId
    <3>1. UNCHANGED <<shared, local, publisher, sent, connected, queue, got, expected,
                      reorder>>
      BY <2>13 DEF SaveId, Unbroadcast
    <3>2. QED BY <2>0, <2>1, <2>3, <2>5, <3>1 DEF SentArrives
  <2>14. CASE SaveNumber
    <3>1. UNCHANGED <<shared, local, publisher, sent, connected, queue, got>>
      BY <2>14 DEF SaveNumber, Unbroadcast
    <3>2. GotAccounted(next)'
      BY <1>2, <2>1, <2>14, DrainAccounts
    <3>3. QED BY <2>0, <2>1, <2>5, <3>1, <3>2 DEF SentArrives
  <2>9. CASE Disconnect \/ PauseAndResume
    <3>1. /\ UNCHANGED <<shared, local, publisher, sent, got, expected, reorder>>
          /\ ~connected'
      BY <2>9 DEF Disconnect, PauseAndResume, Unregister
    <3>2. QED BY <2>0, <2>3, <2>5, <3>1 DEF SentArrives
  <2>10. CASE Restart
    BY <1>4, <2>10 DEF Restart
  <2>11. CASE UNCHANGED vars
    <3>1. UNCHANGED <<shared, local, publisher, sent, got, expected, reorder, connected,
                      queue>>
      BY <2>11 DEF vars, bVars, cVars
    <3>2. QED BY <2>0, <2>1, <2>3, <2>5, <3>1 DEF SentArrives
  <2>12. QED
    BY <2>4, <2>6, <2>7, <2>8, <2>9, <2>10, <2>11, <2>13, <2>14 DEF Next
<1>5. Accounted(next)'
  BY <1>2, <1>3, <1>4 DEF Accounted
<1>6. QED BY <1>2, <1>5

(* When nobody publishes and the queue is read, the smallest number that is   *)
(* not applied is that of an event which was fanned out, so it was received,  *)
(* so it waits in the reorder buffer; but the number expected only waits for  *)
(* a handler that is still saving.                                            *)
LEMMA AccountedImplies ==
    ASSUME Typed, NEW number \in [Nat -> Nat], Accounted(number)
    PROVE  NothingMissed
<1> SUFFICES ASSUME Settled, lost = {}, NEW n \in 1..shared \cup 1..local,
                    ~\E i \in 1..Len(applied) : applied[i] = n
             PROVE  FALSE
  BY DEF NothingMissed, CaughtUp
<1>1. expected \in Nat /\ shared \in Nat /\ local \in Nat
  BY Bounds DEF Typed, BTyped, CTyped
<1>2. expected <= n
  <2>1. n \notin 1..(expected - 1)
    BY DEF Accounted, AllApplied
  <2>2. QED BY <1>1, <2>1
<1>3. PICK m \in 1..shared \cup 1..local : m = expected \/ (expected = 0 /\ m = 1)
  <2>1. CASE expected = 0
    <3>1. 1 \in 1..shared \cup 1..local
      BY <1>1
    <3>2. QED BY <2>1, <3>1
  <2>2. CASE expected # 0
    <3>1. expected \in 1..shared \cup 1..local
      BY <1>1, <1>2, <2>2
    <3>2. QED BY <3>1
  <2>3. QED BY <2>1, <2>2
<1>4. PICK id \in 1..events : number[id] = m /\ Placed(id)
  BY DEF Accounted, NumbersPlaced
<1>5. id \in sent
  BY <1>4 DEF Placed, Settled
<1>6. id \in got
  <2>1. connected /\ ToSet(queue) = {}
    BY DEF Settled, ToSet
  <2>2. QED BY <1>5, <2>1 DEF Accounted, SentArrives
<1>7. number[id] # 0 /\ ~(number[id] < expected)
  BY <1>1, <1>3, <1>4
<1>8. PICK f \in reorder : f.seq = m
  BY <1>4, <1>6, <1>7 DEF Accounted, GotAccounted
<1>9. expected # 0 /\ f.seq = expected
  BY <1>3, <1>8 DEF Typed, CTyped
<1>10. QED BY <1>9 DEF Typed, CTyped, Settled

(* Once everything published was delivered and every handler is done, each    *)
(* number that was taken is applied, unless a cause that the model names took *)
(* an event or its number away (publish, _fanout_raw, _handleEvent,           *)
(* _drainReorderBuffer, _recoverFromGap).                                     *)
THEOREM ClientCatchesUp == Spec => []NothingMissed
<1> DEFINE Inv == Typed /\ \E number \in [Nat -> Nat] : Accounted(number)
<1>1. Init => Inv
  <2> SUFFICES ASSUME Init PROVE Inv
    OBVIOUS
  <2>1. Typed /\ Copies = {}
    BY InitTyped
  <2>2. PICK number \in [Nat -> Nat] : number = [n \in Nat |-> 0]
    OBVIOUS
  <2>3. /\ shared = 0 /\ local = 0 /\ sent = {} /\ got = {}
        /\ publisher = [p \in Publishers |-> Quiet]
    BY DEF Init, BInit
  <2>4. NumbersPlaced(number)
    BY <2>3 DEF NumbersPlaced
  <2>5. OneAhead
    BY <2>3, QuietRecord DEF OneAhead
  <2>6. SentArrives /\ GotAccounted(number) /\ AllApplied
    <3>1. expected = 0
      BY DEF Init
    <3>2. QED BY <2>3, <3>1 DEF SentArrives, GotAccounted, AllApplied
  <2>7. Accounted(number)
    BY <2>1, <2>4, <2>5, <2>6 DEF Accounted, NumberedBy
  <2>8. QED BY <2>1, <2>7
<1>2. Inv /\ [Next]_vars => Inv'
  <2> SUFFICES ASSUME Typed, NEW number \in [Nat -> Nat], Accounted(number), [Next]_vars
               PROVE  Inv'
    OBVIOUS
  <2>1. Typed'
    BY NextTyped
  <2>2. \E next \in [Nat -> Nat] : Accounted(next)'
    BY NextAccounted
  <2>3. QED BY <2>1, <2>2
<1>3. Inv => NothingMissed
  BY AccountedImplies
<1> HIDE DEF Inv
<1>4. QED BY <1>1, <1>2, <1>3, PTL DEF Spec

-----------------------------------------------------------------------------
(* Without Redis an event is fanned out once, under an id of its own.         *)
FreshIds ==
    mode = "memory" =>
        /\ wire = {}
        /\ \A p \in Publishers : publisher[p].pc # "idle" =>
               /\ publisher[p].event.id \notin sent
               /\ \A q \in Publishers : q # p /\ publisher[q].pc # "idle" =>
                      publisher[q].event.id # publisher[p].event.id

(* A list of events holds the ids of order from the d-th on.                  *)
SuffixOf(s, order, d) ==
    /\ d \in 0..Len(order) /\ Len(s) = Len(order) - d
    /\ \A i \in 1..Len(s) : s[i].id = order[d + i]

(* In the order of the fan-out, the buffer and the queue are the end, what    *)
(* the client got or is known to miss is the beginning, and nothing lies      *)
(* between the two.                                                           *)
Aligned(order, g) ==
    /\ order \in Seq(Nat) /\ g \in 0..Len(order)
    /\ \A i, j \in 1..Len(order) : order[i] = order[j] => i = j
    /\ \A id : id \in sent <=> \E i \in 1..Len(order) : order[i] = id
    /\ \A id : id \in got <=> \E i \in 1..g : order[i] = id
    /\ \E d : SuffixOf(replay, order, d)
    /\ last \in got \cup {0}
    /\ connected => \E d : SuffixOf(queue, order, d) /\ d <= g
Exempt == lost \cap {"full", "pruned", "jumped"} # {}
Seamless ==
    mode = "memory" /\ ~Exempt =>
        "misordered" \notin lost /\ \E order, g : Aligned(order, g)

LEMMA FreshNext ==
    ASSUME Typed, FreshIds, [Next]_vars
    PROVE  FreshIds'
<1> SUFFICES ASSUME mode' = "memory" PROVE FreshIds'
  BY DEF FreshIds
<1>1. mode = "memory" /\ wire = {}
  <2>1. Moves
    BY NextTyped
  <2>2. QED BY <2>1 DEF Moves, FreshIds
<1> DEFINE Fresh(pub, ids) ==
               \A p \in Publishers : pub[p].pc # "idle" =>
                   /\ pub[p].event.id \notin ids
                   /\ \A q \in Publishers : q # p /\ pub[q].pc # "idle" =>
                          pub[q].event.id # pub[p].event.id
<1>2. Fresh(publisher, sent)
  BY <1>1 DEF FreshIds
<1>3. ASSUME wire' = {}, Fresh(publisher', sent') PROVE FreshIds'
  BY <1>3 DEF FreshIds
<1>4. ASSUME NEW p \in Publishers, NEW r, publisher' = [publisher EXCEPT ![p] = r]
      PROVE  publisher'[p] = r /\ \A q \in Publishers : q # p => publisher'[q] = publisher[q]
  BY <1>4 DEF Typed, BTyped
<1> HIDE DEF Fresh
<1>5. CASE UNCHANGED <<wire, publisher, sent>>
  BY <1>1, <1>2, <1>3, <1>5
<1>6. ASSUME NEW p \in Publishers, NEW mine \in BOOLEAN, Publish(p, mine)
      PROVE  FreshIds'
  <2>1. PICK r : publisher' = [publisher EXCEPT ![p] = r] /\ r.event.id = events + 1
    <3> DEFINE e == [id |-> events + 1, seq |-> 0, stored |-> FALSE]
    <3>1. \/ At(p, "numbered", e)
          \/ At(p, "numbered", [e EXCEPT !.seq = shared + 1])
          \/ At(p, "counting", [e EXCEPT !.seq = local + 1])
      BY <1>6 DEF Publish
    <3>2. ASSUME NEW pc, NEW f, f.id = events + 1, At(p, pc, f)
          PROVE  \E r : publisher' = [publisher EXCEPT ![p] = r] /\ r.event.id = events + 1
      <4> DEFINE r == [pc |-> pc, event |-> f]
      <4>1. publisher' = [publisher EXCEPT ![p] = r] /\ r.event.id = events + 1
        BY <3>2 DEF At
      <4> HIDE DEF r
      <4>2. QED BY <4>1
    <3>3. /\ e.id = events + 1 /\ [e EXCEPT !.seq = shared + 1].id = events + 1
          /\ [e EXCEPT !.seq = local + 1].id = events + 1
      OBVIOUS
    <3> HIDE DEF e
    <3>4. QED BY <3>1, <3>2, <3>3
  <2>2. publisher'[p] = r /\ \A q \in Publishers : q # p => publisher'[q] = publisher[q]
    BY <1>4, <2>1
  <2>3. \A q \in Publishers : publisher[q].pc # "idle" => publisher[q].event.id # events + 1
    <3>1. \A q \in Publishers : publisher[q].pc # "idle" => publisher[q].event.id \in 1..events
      BY DEF Typed, IdsKnown, Copies, Carried, Busy
    <3>2. events + 1 \notin 1..events
      BY DEF Typed, BTyped
    <3>3. QED BY <3>1, <3>2
  <2>4. events + 1 \notin sent
    BY DEF Typed, BTyped
  <2>5. wire' = wire /\ sent' = sent
    BY <1>6 DEF Publish
  <2>6. Fresh(publisher', sent')
    BY <1>2, <2>1, <2>2, <2>3, <2>4, <2>5 DEF Fresh
  <2>7. QED BY <1>1, <1>3, <2>5, <2>6
<1>7. ASSUME NEW p \in Publishers, Count(p) \/ Store(p)
      PROVE  FreshIds'
  <2>1. PICK r : /\ publisher' = [publisher EXCEPT ![p] = r]
                 /\ r.event.id = publisher[p].event.id
    <3> DEFINE e == publisher[p].event
    <3>1. \/ At(p, "numbered", e) \/ At(p, "stored", e)
          \/ At(p, "stored", [e EXCEPT !.stored = TRUE])
      BY <1>7 DEF Count, Store
    <3>2. ASSUME NEW pc, NEW f, f.id = e.id, At(p, pc, f)
          PROVE  \E r : publisher' = [publisher EXCEPT ![p] = r] /\ r.event.id = e.id
      <4> DEFINE r == [pc |-> pc, event |-> f]
      <4>1. publisher' = [publisher EXCEPT ![p] = r] /\ r.event.id = e.id
        BY <3>2 DEF At
      <4> HIDE DEF r
      <4>2. QED BY <4>1
    <3>3. [e EXCEPT !.stored = TRUE].id = e.id
      BY PublisherFacts DEF Typed, Events
    <3> HIDE DEF e
    <3>4. \E r : publisher' = [publisher EXCEPT ![p] = r] /\ r.event.id = e.id
      BY <3>1, <3>2, <3>3
    <3>5. QED BY <3>4 DEF e
  <2>2. publisher'[p] = r /\ \A q \in Publishers : q # p => publisher'[q] = publisher[q]
    BY <1>4, <2>1
  <2>3. publisher[p].pc # "idle" /\ wire' = wire /\ sent' = sent
    BY <1>7 DEF Count, Store
  <2>4. Fresh(publisher', sent')
    BY <1>2, <2>1, <2>2, <2>3 DEF Fresh
  <2>5. QED BY <1>1, <1>3, <2>3, <2>4
<1>8. ASSUME NEW p \in Publishers, RejectOversized(p) \/ Fanout(p)
      PROVE  FreshIds'
  <2>1. /\ publisher' = [publisher EXCEPT ![p] = Quiet] /\ publisher[p].pc # "idle"
        /\ sent' = sent \/ sent' = sent \cup {publisher[p].event.id}
        /\ wire' = wire
    BY <1>1, <1>8 DEF RejectOversized, Fanout, FanoutRaw, Redis
  <2>2. publisher'[p].pc = "idle" /\ \A q \in Publishers : q # p => publisher'[q] = publisher[q]
    BY <1>4, <2>1, QuietRecord
  <2>3. Fresh(publisher', sent')
    BY <1>2, <2>1, <2>2 DEF Fresh
  <2>4. QED BY <1>1, <1>3, <2>1, <2>3
<1>9. CASE BNext
  <2>1. CASE ListenerFails \/ ListenerRecovers \/ Degrade \/ PruneInactive
    BY <1>5, <2>1 DEF ListenerFails, ListenerRecovers, Degrade, PruneInactive
  <2>2. QED BY <1>1, <1>6, <1>7, <1>8, <1>9, <2>1 DEF BNext
<1>10. CASE UNCHANGED vars
  BY <1>5, <1>10 DEF vars, bVars
<1>11. CASE Connect \/ Deliver \/ Disconnect \/ PauseAndResume \/ Restart
  BY <1>5, <1>11
     DEF Connect, Register, Deliver, Disconnect, PauseAndResume, Restart, Unregister
<1>13. CASE SaveId \/ SaveNumber \/ \E k \in 1..Len(recoveries) : RecoverFromGap(k)
  BY <1>5, <1>13
     DEF SaveId, SaveNumber, RecoverFromGap, AnswerLastState, RemoveId, RemoveNumber,
         Reconcile, Unbroadcast
<1>12. QED BY <1>9, <1>10, <1>11, <1>13 DEF Next

(* The ends of an order.                                                      *)
LEMMA SuffixDrops ==
    ASSUME NEW s \in Seq(Events), NEW t \in Seq(Events), NEW order \in Seq(Nat),
           NEW d, SuffixOf(s, order, d), NEW k, Drops(s, t, k)
    PROVE  SuffixOf(t, order, d + k)
<1>1. PICK n \in Nat : n = Len(order)
  OBVIOUS
<1>2. PICK l \in Nat : l = Len(s)
  OBVIOUS
<1>3. PICK m \in Nat : m = Len(t)
  OBVIOUS
<1>4. /\ d \in 0..n /\ l = n - d /\ k \in 0..l /\ m = l - k
      /\ \A i \in 1..l : s[i].id = order[d + i]
      /\ \A i \in 1..m : t[i] = s[k + i]
  BY <1>1, <1>2, <1>3 DEF SuffixOf, Drops
<1>5. d + k \in 0..n /\ m = n - (d + k)
  BY <1>4
<1>6. \A i \in 1..m : k + i \in 1..l /\ d + (k + i) = (d + k) + i
  BY <1>4
<1>7. \A i \in 1..m : t[i].id = order[(d + k) + i]
  BY <1>4, <1>6
<1>8. QED BY <1>1, <1>3, <1>5, <1>7 DEF SuffixOf

LEMMA SuffixAppend ==
    ASSUME NEW s \in Seq(Events), NEW order \in Seq(Nat), NEW d, SuffixOf(s, order, d),
           NEW e \in Events
    PROVE  SuffixOf(Append(s, e), Append(order, e.id), d)
<1> DEFINE t == Append(s, e)
           more == Append(order, e.id)
<1>1. PICK n \in Nat : n = Len(order)
  OBVIOUS
<1>2. PICK l \in Nat : l = Len(s)
  OBVIOUS
<1>3. e.id \in Nat
  BY Bounds DEF Events
<1>4. /\ Len(t) = l + 1 /\ t[l + 1] = e /\ \A i \in 1..l : t[i] = s[i]
      /\ Len(more) = n + 1 /\ more[n + 1] = e.id /\ \A i \in 1..n : more[i] = order[i]
  BY <1>1, <1>2, <1>3, AppendFacts
<1> HIDE DEF t, more
<1>5. d \in 0..n /\ l = n - d /\ \A i \in 1..l : s[i].id = order[d + i]
  BY <1>1, <1>2 DEF SuffixOf
<1>6. ASSUME NEW i \in 1..(l + 1) PROVE t[i].id = more[d + i]
  <2>1. CASE i = l + 1
    <3>1. d + i = n + 1
      BY <1>5, <2>1
    <3>2. QED BY <1>4, <2>1, <3>1
  <2>2. CASE i # l + 1
    <3>1. i \in 1..l /\ d + i \in 1..n
      BY <1>5, <2>2
    <3>2. QED BY <1>4, <1>5, <3>1
  <2>3. QED BY <2>1, <2>2
<1>7. d \in 0..(n + 1) /\ l + 1 = (n + 1) - d
  BY <1>5
<1>8. SuffixOf(t, more, d)
  BY <1>4, <1>6, <1>7 DEF SuffixOf
<1>9. QED BY <1>8 DEF t, more

(* A fan-out lengthens the order, the buffer and the queue by one event.      *)
LEMMA FanoutAligned ==
    ASSUME Typed, NEW e \in Events, e.id \in 1..events, e.id \notin sent, FanoutRaw(e),
           NEW order, NEW g, Aligned(order, g),
           UNCHANGED <<got, last, connected>>, ~Exempt'
    PROVE  \E more : Aligned(more, g)'
<1> DEFINE more == Append(order, e.id)
<1>1. PICK n \in Nat : n = Len(order) /\ order \in Seq(Nat) /\ g \in 0..n
  BY DEF Aligned
<1>2. /\ more \in Seq(Nat) /\ Len(more) = n + 1 /\ more[n + 1] = e.id
      /\ \A i \in 1..n : more[i] = order[i]
  BY <1>1, AppendFacts
<1>3. /\ replay \in Seq(Events) /\ queue \in Seq(Events) /\ (connected <=> sub # "none")
      /\ BTyped
  BY DEF Typed, BTyped, CTyped
<1>4. /\ replay' \in Seq(Events) /\ sent' = sent \cup {e.id}
      /\ \E d : Drops(Append(replay, e), replay', d)
      /\ queue' = Append(queue, e)
         \/ (queue' = queue /\ (sub = "none" \/ lost' \cap {"full", "pruned"} # {}))
  BY <1>3, FanoutRawEffects
<1>5. connected => queue' = Append(queue, e)
  BY <1>3, <1>4 DEF Exempt
<1>6. connected => \E d : SuffixOf(queue', more, d) /\ d <= g
  <2>1. SUFFICES ASSUME connected PROVE \E d : SuffixOf(queue', more, d) /\ d <= g
    OBVIOUS
  <2>2. PICK d : SuffixOf(queue, order, d) /\ d <= g
    BY <2>1 DEF Aligned
  <2>3. SuffixOf(Append(queue, e), more, d)
    BY <1>1, <1>3, <2>2, SuffixAppend
  <2>4. QED BY <1>5, <2>1, <2>2, <2>3
<1>7. \E d : SuffixOf(replay', more, d)
  <2>1. PICK d : SuffixOf(replay, order, d)
    BY DEF Aligned
  <2>2. SuffixOf(Append(replay, e), more, d)
    BY <1>1, <1>3, <2>1, SuffixAppend
  <2>3. PICK k : Drops(Append(replay, e), replay', k)
    BY <1>4
  <2>4. Append(replay, e) \in Seq(Events)
    BY <1>3, AppendFacts
  <2>5. SuffixOf(replay', more, d + k)
    <3> HIDE DEF more
    <3>1. QED BY <1>2, <1>4, <2>2, <2>3, <2>4, SuffixDrops
  <2>6. QED BY <2>5
<1> HIDE DEF more
<1>8. 1..(n + 1) = (1..n) \cup {n + 1} /\ \A i \in 1..g : i \in 1..n
  BY <1>1
<1>9. /\ \A i, j \in 1..n : order[i] = order[j] => i = j
      /\ \A id : id \in sent <=> \E i \in 1..n : order[i] = id
      /\ \A id : id \in got <=> \E i \in 1..g : order[i] = id
      /\ last \in got \cup {0}
  BY <1>1 DEF Aligned
<1>10. \A i, j \in 1..(n + 1) : more[i] = more[j] => i = j
  <2>1. \A i \in 1..n : more[i] # e.id
    BY <1>2, <1>9
  <2>2. QED BY <1>2, <1>8, <1>9, <2>1
<1>11. \A id : id \in sent' <=> \E i \in 1..(n + 1) : more[i] = id
  BY <1>2, <1>4, <1>8, <1>9
<1>12. \A id : id \in got' <=> \E i \in 1..g : more[i] = id
  BY <1>2, <1>8, <1>9
<1>13. g \in 0..(n + 1)
  BY <1>1
<1>14. Aligned(more, g)'
  BY <1>2, <1>6, <1>7, <1>9, <1>10, <1>11, <1>12, <1>13 DEF Aligned
<1>15. QED BY <1>14

(* A delivery takes the head of the queue.                                    *)
LEMMA DeliverAligned ==
    ASSUME Typed, Deliver, NEW order, NEW g, Aligned(order, g)
    PROVE  \E h : Aligned(order, h)'
<1>1. PICK e \in Events :
          /\ connected /\ Drops(queue, queue', 1) /\ queue' \in Seq(Events) /\ queue[1] = e
          /\ HandleEvent(e)
          /\ UNCHANGED <<connected, replay, sent>>
  BY DeliverFacts
<1>2. last' = e.id /\ got' = got \cup {e.id}
  BY <1>1 DEF HandleEvent
<1>3. PICK n \in Nat : n = Len(order) /\ order \in Seq(Nat) /\ g \in 0..n
  BY DEF Aligned
<1>4. PICK d : SuffixOf(queue, order, d) /\ d <= g
  BY <1>1 DEF Aligned
<1>5. queue \in Seq(Events)
  BY DEF Typed, BTyped
<1>6. SuffixOf(queue', order, d + 1)
  BY <1>1, <1>3, <1>4, <1>5, SuffixDrops
<1>7. PICK l \in Nat : l = Len(queue)
  BY <1>5
<1>8. l >= 1 /\ d \in 0..n /\ l = n - d /\ order[d + 1] = e.id
  <2>1. 1 \in 0..l
    BY <1>1, <1>7 DEF Drops
  <2>2. d \in 0..n /\ l = n - d /\ \A i \in 1..l : queue[i].id = order[d + i]
    BY <1>3, <1>4, <1>7 DEF SuffixOf
  <2>3. 1 \in 1..l
    BY <2>1
  <2>4. QED BY <1>1, <2>1, <2>2, <2>3
<1>9. PICK h \in 0..n : d + 1 <= h /\ 1..h = (1..g) \cup {d + 1}
  <2>1. CASE d < g
    BY <1>3, <1>4, <1>8, <2>1
  <2>2. CASE d = g
    BY <1>3, <1>8, <2>2
  <2>3. QED BY <1>3, <1>4, <1>8, <2>1, <2>2
<1>10. \A id : id \in got' <=> \E i \in 1..h : order[i] = id
  <2>1. \A id : id \in got <=> \E i \in 1..g : order[i] = id
    BY DEF Aligned
  <2>2. QED BY <1>2, <1>8, <1>9, <2>1
<1>11. Aligned(order, h)'
  BY <1>1, <1>2, <1>3, <1>6, <1>9, <1>10 DEF Aligned
<1>12. QED BY <1>11

(* A registration: after an event that is still in the buffer, the queue goes *)
(* on where the client stopped; otherwise what it has not got is missed.      *)
LEMMA ConnectAligned ==
    ASSUME Typed, Connect, mode = "memory", NEW order, NEW g, Aligned(order, g),
           ~Exempt', "misordered" \notin lost
    PROVE  "misordered" \notin lost' /\ \E h : Aligned(order, h)'
<1> PICK missed : missed = Missed(last, got, FALSE)
  OBVIOUS
<1>1. /\ queue' \in Seq(Events) /\ queue' = Replayed(last, FALSE) /\ connected'
      /\ got' = got \cup missed
      /\ "misordered" \in lost' => missed # {} /\ Known(last)
      /\ UNCHANGED <<replay, sent, last>>
  BY ConnectFacts DEF Exempt
<1>2. /\ replay \in Seq(Events) /\ stream \in Seq(Events) /\ last \in Nat
  BY PositionBounds DEF Typed, BTyped, CTyped
<1>3. queue' = After(replay, last)
  BY <1>1, <1>2, ReplayedFacts
<1>4. PICK k : /\ Drops(replay, queue', k)
               /\ last = 0 => k = 0
               /\ last # 0 => IF \E i \in 1..Len(replay) : replay[i].id = last
                              THEN k \in 1..Len(replay) /\ replay[k].id = last
                              ELSE k = Len(replay)
  BY <1>2, <1>3, AfterFacts
<1>5. PICK n \in Nat : n = Len(order) /\ order \in Seq(Nat) /\ g \in 0..n
  BY DEF Aligned
<1>6. PICK b : SuffixOf(replay, order, b)
  BY DEF Aligned
<1>7. PICK d : d = b + k /\ SuffixOf(queue', order, d)
  BY <1>1, <1>2, <1>4, <1>5, <1>6, SuffixDrops
<1>8. PICK l \in Nat : l = Len(replay)
  BY <1>2
<1>9. PICK m \in Nat : m = Len(queue')
  <2>1. queue' \in Seq(Events)
    BY <1>1
  <2>2. Len(queue') \in Nat
    BY <2>1
  <2>3. QED BY <2>2
<1>10. /\ b \in 0..n /\ l = n - b /\ \A i \in 1..l : replay[i].id = order[b + i]
       /\ d \in 0..n /\ m = n - d /\ \A i \in 1..m : queue'[i].id = order[d + i]
       /\ k \in 0..l
  BY <1>4, <1>5, <1>6, <1>7, <1>8, <1>9 DEF SuffixOf, Drops
<1>11. /\ \A i, j \in 1..n : order[i] = order[j] => i = j
       /\ \A id : id \in sent <=> \E i \in 1..n : order[i] = id
       /\ \A id : id \in got <=> \E i \in 1..g : order[i] = id
       /\ last \in got \cup {0}
  BY <1>5 DEF Aligned
(* What is missed lies between what the client has and what the queue holds.  *)
<1>12. \A id : id \in missed <=> \E i \in (g + 1)..d : order[i] = id
  <2>1. \A id : id \in missed <=>
            id \in sent /\ id \notin got /\ \A i \in 1..m : queue'[i].id # id
    BY <1>1, <1>9 DEF Missed
  <2>2. ASSUME NEW id, NEW i \in (g + 1)..d, order[i] = id
        PROVE  id \in sent /\ id \notin got /\ \A j \in 1..m : queue'[j].id # id
    <3>1. i \in 1..n
      BY <1>5, <1>10
    <3>2. \A j \in 1..g : j \in 1..n /\ j # i
      BY <1>5, <1>10
    <3>3. \A j \in 1..m : d + j \in 1..n /\ d + j # i
      BY <1>5, <1>10
    <3>4. QED BY <1>10, <1>11, <2>2, <3>1, <3>2, <3>3
  <2>3. ASSUME NEW id, id \in sent, id \notin got, \A j \in 1..m : queue'[j].id # id
        PROVE  \E i \in (g + 1)..d : order[i] = id
    <3>1. PICK i \in 1..n : order[i] = id
      BY <1>11, <2>3
    <3>2. i \notin 1..g
      BY <1>11, <2>3, <3>1
    <3>3. i > d => i - d \in 1..m /\ d + (i - d) = i
      BY <1>10
    <3>4. i \in 1..d
      BY <1>10, <2>3, <3>1, <3>3
    <3>5. i \in (g + 1)..d
      BY <1>5, <1>10, <3>2, <3>4
    <3>6. QED BY <3>1, <3>5
  <2>4. QED BY <2>1, <2>2, <2>3
<1>13. ~(Known(last) /\ missed # {})
  <2>1. SUFFICES ASSUME Known(last) PROVE missed = {}
    OBVIOUS
  <2>2. PICK i \in 1..l : replay[i].id = last
    BY <1>8, <2>1 DEF Known
  <2>3. last # 0
    <3>1. replay[i] \in Events
      BY <1>2, <1>8
    <3>2. QED BY <2>2, <3>1 DEF Events
  <2>4. k \in 1..l /\ replay[k].id = last
    BY <1>4, <1>8, <2>2, <2>3
  <2>5. order[d] = last /\ d \in 1..n
    BY <1>7, <1>10, <2>4
  <2>6. PICK j \in 1..g : order[j] = last
    BY <1>11, <2>3
  <2>7. j \in 1..n
    BY <1>5
  <2>8. d <= g
    BY <1>5, <1>11, <2>5, <2>6, <2>7
  <2>9. (g + 1)..d = {}
    BY <1>5, <1>10, <2>8
  <2>10. QED BY <1>12, <2>9
<1>14. PICK h \in 0..n : d <= h /\ 1..h = (1..g) \cup ((g + 1)..d)
  <2>1. CASE d <= g
    <3>1. g \in 0..n /\ d <= g /\ (g + 1)..d = {}
      BY <1>5, <1>10, <2>1
    <3>2. 1..g = (1..g) \cup ((g + 1)..d)
      BY <3>1
    <3>3. QED BY <3>1, <3>2
  <2>2. CASE ~(d <= g)
    <3>1. d \in 0..n /\ d <= d /\ 1..d = (1..g) \cup ((g + 1)..d)
      BY <1>5, <1>10, <2>2
    <3>2. QED BY <3>1
  <2>3. QED BY <2>1, <2>2
<1>15. \A id : id \in got' <=> \E i \in 1..h : order[i] = id
  BY <1>1, <1>11, <1>12, <1>14
<1>16. Aligned(order, h)'
  BY <1>1, <1>5, <1>6, <1>7, <1>11, <1>14, <1>15 DEF Aligned
<1>17. QED BY <1>1, <1>13, <1>16

LEMMA NextSeamless ==
    ASSUME Typed, FreshIds, Seamless, [Next]_vars
    PROVE  Seamless'
<1> SUFFICES ASSUME mode' = "memory", ~Exempt'
             PROVE  "misordered" \notin lost' /\ \E order, g : Aligned(order, g)'
  BY DEF Seamless
<1>1. mode = "memory" /\ lost \subseteq lost'
  <2>1. Moves
    BY NextTyped
  <2>2. QED BY <2>1 DEF Moves
<1>2. ~Exempt /\ "misordered" \notin lost
  BY <1>1 DEF Exempt, Seamless
<1>3. PICK order, g : Aligned(order, g)
  BY <1>1, <1>2 DEF Seamless
<1>4. ASSUME UNCHANGED <<replay, sent, got>>, last' \in got \cup {0},
             ~connected' \/ UNCHANGED <<connected, queue>>
      PROVE  Aligned(order, g)'
  BY <1>3, <1>4 DEF Aligned
<1>5. last \in got \cup {0} /\ savedId \in got \cup {0}
  BY <1>3 DEF Aligned, Typed, CTyped
<1>6. CASE BNext /\ UNCHANGED cVars
  <2>1. UNCHANGED <<got, last, connected>>
    BY <1>6 DEF cVars
  <2>2. ASSUME NEW p \in Publishers, Fanout(p)
        PROVE  "misordered" \notin lost' /\ \E h : \E more : Aligned(more, h)'
    <3> PICK e : e = publisher[p].event
      OBVIOUS
    <3>1. /\ e \in Events /\ e.id \in 1..events /\ e.id \notin sent
          /\ FanoutRaw(e) \/ (Loses("lock") /\ UNCHANGED <<replay, sent, queue>>)
      BY <1>1, <2>2, PublisherFacts DEF Fanout, Typed, IdsKnown, Copies, FreshIds
    <3>2. CASE FanoutRaw(e)
      <4>1. "misordered" \notin lost'
        BY <1>2, <3>2 DEF FanoutRaw, Loses
      <4>2. QED BY <1>3, <2>1, <3>1, <3>2, <4>1, FanoutAligned
    <3>3. CASE Loses("lock") /\ UNCHANGED <<replay, sent, queue>>
      <4>1. "misordered" \notin lost'
        BY <1>2, <3>3 DEF Loses
      <4>2. QED BY <1>4, <1>5, <2>1, <3>3, <4>1
    <3>4. QED BY <3>1, <3>2, <3>3
  <2>3. ASSUME UNCHANGED <<replay, sent, queue>>,
               lost' = lost \/ \E why \in {"number", "oversized", "unstored"} : Loses(why)
        PROVE  "misordered" \notin lost' /\ Aligned(order, g)'
    BY <1>2, <1>4, <1>5, <2>1, <2>3 DEF Loses
  <2>4. \A e \in wire : ~Receive(e)
    BY <1>1 DEF FreshIds
  <2>5. ASSUME NEW p \in Publishers, NEW mine \in BOOLEAN, Publish(p, mine)
        PROVE  "misordered" \notin lost' /\ Aligned(order, g)'
    BY <2>3, <2>5 DEF Publish
  <2>6. ASSUME NEW p \in Publishers, Count(p) \/ RejectOversized(p) \/ Store(p)
        PROVE  "misordered" \notin lost' /\ Aligned(order, g)'
    BY <2>3, <2>6 DEF Count, RejectOversized, Store
  <2>7. CASE ListenerFails \/ ListenerRecovers \/ Degrade \/ PruneInactive
    BY <2>3, <2>7 DEF ListenerFails, ListenerRecovers, Degrade, PruneInactive
  <2>8. QED BY <1>6, <2>2, <2>4, <2>5, <2>6, <2>7 DEF BNext
<1>7. CASE Connect
  BY <1>1, <1>2, <1>3, <1>7, ConnectAligned
<1>8. CASE Deliver
  <2>1. "misordered" \notin lost'
    <3>1. expected \in Nat
      BY Bounds DEF Typed, CTyped
    <3>2. PICK e \in Events : HandleEvent(e)
      BY <1>8, DeliverFacts
    <3>3. lost' \subseteq lost \cup {"first"}
      BY <3>1, <3>2, HandleCases
    <3>4. QED BY <1>2, <3>3
  <2>2. QED BY <1>3, <1>8, <2>1, DeliverAligned
<1>9. CASE SaveId \/ SaveNumber \/ \E k \in 1..Len(recoveries) : RecoverFromGap(k)
  <2>1. UNCHANGED <<replay, sent, got, last, connected, queue>>
    BY <1>9
       DEF SaveId, SaveNumber, RecoverFromGap, AnswerLastState, RemoveId, RemoveNumber,
           Reconcile, Unbroadcast
  <2>2. lost' \subseteq lost \cup {"torn", "recovery"}
    BY <1>9
       DEF SaveId, SaveNumber, RecoverFromGap, AnswerLastState, RemoveId, RemoveNumber,
           Reconcile, Loses
  <2>3. "misordered" \notin lost'
    BY <1>2, <2>2
  <2>4. QED BY <1>4, <1>5, <2>1, <2>3
<1>10. CASE Disconnect
  <2>1. UNCHANGED <<replay, sent, got, last, lost>> /\ ~connected'
    BY <1>10 DEF Disconnect, Unregister
  <2>2. QED BY <1>2, <1>4, <1>5, <2>1
<1>11. CASE PauseAndResume
  <2>1. UNCHANGED <<replay, sent, got>> /\ ~connected' /\ last' = current
    BY <1>11 DEF PauseAndResume, Unregister
  <2>2. current \in got \cup {0} /\ lost' = lost
    <3>1. EventAt(current) = current
      BY <1>1, Bounds DEF Typed, CTyped, Positions, EventAt
    <3>2. "jumped" \notin lost'
      BY DEF Exempt
    <3>3. QED BY <1>11, <3>1, <3>2 DEF PauseAndResume, Loses
  <2>3. QED BY <1>2, <1>4, <2>1, <2>2
<1>12. CASE Restart
  <2>1. UNCHANGED <<replay, sent, got>> /\ ~connected' /\ last' = savedId
    BY <1>12 DEF Restart
  <2>2. "misordered" \notin lost'
    BY <1>2, <1>12 DEF Restart
  <2>3. QED BY <1>4, <1>5, <2>1, <2>2
<1>13. CASE UNCHANGED vars
  <2>1. UNCHANGED <<replay, sent, got, last, connected, queue, lost>>
    BY <1>13 DEF vars, bVars, cVars
  <2>2. QED BY <1>2, <1>4, <1>5, <2>1
<1>14. QED
  BY <1>6, <1>7, <1>8, <1>9, <1>10, <1>11, <1>12, <1>13 DEF Next

(* Without Redis, a client that resumes after an event which is still in the  *)
(* buffer misses nothing that was fanned out since, but for a full queue, for *)
(* a subscriber pruned because of one, and for a position that a recovery     *)
(* gave it (register, _fanout_raw, _recoverFromGap, resume).                  *)
THEOREM Seamlessness == Spec => []ResumesSeamlessly
<1> DEFINE Inv == Typed /\ FreshIds /\ Seamless
<1>1. Init => Inv
  <2> SUFFICES ASSUME Init PROVE Inv
    OBVIOUS
  <2>1. Typed
    BY InitTyped
  <2>2. /\ wire = {} /\ sent = {} /\ got = {} /\ replay = << >> /\ last = 0
        /\ publisher = [p \in Publishers |-> Quiet] /\ lost = {} /\ ~connected
    BY DEF Init, BInit
  <2>3. FreshIds
    BY <2>2, QuietRecord DEF FreshIds
  <2>4. Aligned(<< >>, 0)
    <3>1. SuffixOf(<< >>, << >>, 0) /\ << >> \in Seq(Nat) /\ Len(<< >>) = 0 /\ 0 \in 0..0
      BY DEF SuffixOf
    <3>2. QED BY <2>2, <3>1 DEF Aligned
  <2>5. Seamless
    BY <2>2, <2>4 DEF Seamless
  <2>6. QED BY <2>1, <2>3, <2>5
<1>2. Inv /\ [Next]_vars => Inv'
  BY NextTyped, FreshNext, NextSeamless
<1>3. Inv => ResumesSeamlessly
  BY DEF Seamless, Exempt, ResumesSeamlessly
<1> HIDE DEF Inv
<1>4. QED BY <1>1, <1>2, <1>3, PTL DEF Spec

-----------------------------------------------------------------------------
(* The app starts with the number of the last event it applied as the one it  *)
(* expects, and asks for the events after that one: what it expects never     *)
(* comes.                                                                     *)
Stalled == expected # 0 /\ applied = << >>

(* Without Redis, and unless a number is given twice or the app is stopped    *)
(* between the writing of the two preferences, an app that was started again  *)
(* after it had saved a number applies no event any more: all of them wait in *)
(* the reorder buffer, until the app is started without a saved number        *)
(* (start, _handleEvent; realtime_controller.dart:121,219).                   *)
StallLasts ==
    [][mode = "memory" /\ lost' \cap {"number", "torn"} = {} /\ Stalled
       => applied' = << >>]_vars

Announcing == {p \in Publishers : publisher[p].pc \in {"numbered", "stored"}}
Announced == {publisher[p].event : p \in Announcing}
Received == reorder \cup ToSet(replay) \cup ToSet(queue)

(* The event with number n was fanned out, and who resumes after the event x  *)
(* is not sent it again.                                                      *)
Past(n, x) ==
    /\ x # 0 /\ n <= local
    /\ \A e \in Announced : e.seq # n
    /\ \A e \in ToSet(After(replay, x)) : e.seq # n

OwnNumbers ==
    \A e, f \in Announced \cup Received :
        e.seq # 0 => e.seq <= local /\ (f.seq = e.seq => f.id = e.id)
Once(s) == \A i, j \in 1..Len(s) : s[i].id = s[j].id => i = j
ReceivedSent == \A e \in Received : e.id \in sent
StallKept ==
    Stalled => /\ Past(expected, last) /\ Past(expected, current)
               /\ \A e \in ToSet(queue) : e.seq # expected /\ Past(expected, e.id)
               /\ \A k \in 1..Len(recoveries) :
                      recoveries[k].position = 0 \/ Past(expected, recoveries[k].position)
Orderly == OwnNumbers /\ Once(replay) /\ ReceivedSent

(* The handlers write their events one after the other: the event saved is    *)
(* that of the last one which has yet to write its number.                    *)
InTurn(handlers, id) ==
    \A k \in 1..Len(handlers) : handlers[k].at = "number" =>
        /\ \A j \in 1..(k - 1) : handlers[j].at = "number"
        /\ \/ id = handlers[k].event.id
           \/ k < Len(handlers) /\ handlers[k + 1].at = "number"
AllPast(handlers) ==
    \A k \in 1..Len(handlers) :
        handlers[k].event.seq # 0 /\ Past(handlers[k].event.seq, handlers[k].event.id)
SavingBehind == InTurn(saving, savedId) /\ AllPast(saving)
SavedBehind == BetweenWrites \/ savedSeq = 0 \/ Past(savedSeq, savedId)
Behind ==
    mode = "memory" /\ lost \cap {"number", "torn"} = {} =>
        Orderly /\ SavingBehind /\ SavedBehind /\ StallKept

(* In a list that holds no event twice.                                       *)
LEMMA AfterOnce ==
    ASSUME NEW s \in Seq(Events), Once(s), NEW id \in Nat, id # 0,
           NEW g \in ToSet(After(s, id))
    PROVE  /\ g.id # id /\ g \in ToSet(s)
           /\ \A i, j \in 1..Len(s) : s[i].id = id /\ s[j].id = g.id => i < j
<1>1. PICK d : /\ Drops(s, After(s, id), d)
               /\ IF \E i \in 1..Len(s) : s[i].id = id
                  THEN d \in 1..Len(s) /\ s[d].id = id
                  ELSE d = Len(s)
  BY AfterFacts
<1>2. PICK l \in Nat : l = Len(s)
  OBVIOUS
<1>3. PICK t \in Seq(Events) : t = After(s, id)
  BY AfterFacts
<1>4. PICK m \in Nat : m = Len(t)
  OBVIOUS
<1>5. PICK k \in 1..m : t[k] = g
  BY <1>3, <1>4, Elements
<1>6. d \in 0..l /\ m = l - d /\ t[k] = s[d + k] /\ d + k \in 1..l
  BY <1>1, <1>2, <1>3, <1>4, <1>5 DEF Drops
<1>7. d # l /\ d \in 1..l /\ s[d].id = id
  BY <1>1, <1>2, <1>5, <1>6
<1>8. d < d + k /\ d # d + k
  BY <1>5, <1>6
<1>9. \A i, j \in 1..l : s[i].id = id /\ s[j].id = g.id => i = d /\ j = d + k
  BY <1>2, <1>5, <1>6, <1>7 DEF Once
<1>10. g.id # id
  BY <1>5, <1>6, <1>7, <1>8, <1>9
<1>11. g \in ToSet(s)
  BY <1>2, <1>5, <1>6, Elements
<1>12. QED BY <1>2, <1>8, <1>9, <1>10, <1>11

LEMMA AfterHolds ==
    ASSUME NEW s \in Seq(Events), Once(s), NEW id \in Nat, id # 0,
           NEW i \in 1..Len(s), s[i].id = id, NEW j \in 1..Len(s), i < j
    PROVE  s[j] \in ToSet(After(s, id))
<1>1. PICK d : Drops(s, After(s, id), d) /\ d \in 1..Len(s) /\ s[d].id = id
  BY AfterFacts
<1>2. d = i
  BY <1>1 DEF Once
<1>3. PICK t \in Seq(Events) : t = After(s, id)
  BY AfterFacts
<1>4. PICK l \in Nat : l = Len(s)
  OBVIOUS
<1>5. Len(t) = l - i /\ \A k \in 1..Len(t) : t[k] = s[i + k]
  BY <1>1, <1>2, <1>3, <1>4 DEF Drops
<1>6. j - i \in 1..Len(t) /\ i + (j - i) = j
  BY <1>4, <1>5
<1>7. t[j - i] = s[j]
  BY <1>5, <1>6
<1>8. QED BY <1>3, <1>6, <1>7, Elements

(* Who resumes later is sent no more.                                         *)
LEMMA AfterLater ==
    ASSUME NEW s \in Seq(Events), Once(s), NEW id \in Nat, id # 0,
           NEW e \in ToSet(After(s, id))
    PROVE  ToSet(After(s, e.id)) \subseteq ToSet(After(s, id))
<1>1. SUFFICES ASSUME NEW g \in ToSet(After(s, e.id)) PROVE g \in ToSet(After(s, id))
  OBVIOUS
<1>2. e \in ToSet(s) /\ e \in Events
  BY AfterOnce, Elements
<1>3. e.id \in Nat /\ e.id # 0
  BY <1>2, Bounds DEF Events
<1>4. g \in ToSet(s)
  BY <1>1, <1>3, AfterOnce
<1>5. PICK l \in Nat : l = Len(s)
  OBVIOUS
<1>6. PICK j \in 1..l, k \in 1..l : s[j] = e /\ s[k] = g
  BY <1>2, <1>4, <1>5, Elements
<1>7. \E i \in 1..l : s[i].id = id
  <2>1. PICK d : Drops(s, After(s, id), d)
                 /\ IF \E i \in 1..Len(s) : s[i].id = id
                    THEN d \in 1..Len(s) /\ s[d].id = id ELSE d = Len(s)
    BY AfterFacts
  <2>2. PICK t \in Seq(Events) : t = After(s, id)
    BY AfterFacts
  <2>3. Len(t) # 0
    BY <2>2, Elements
  <2>4. QED BY <1>5, <2>1, <2>2, <2>3 DEF Drops
<1>8. PICK i \in 1..l : s[i].id = id
  BY <1>7
<1>9. i < j
  BY <1>5, <1>6, <1>8, AfterOnce
<1>10. j < k
  BY <1>1, <1>3, <1>5, <1>6, AfterOnce
<1>11. i < k
  BY <1>9, <1>10
<1>12. QED BY <1>5, <1>6, <1>8, <1>11, AfterHolds

(* Another event at the end, and some at the beginning gone.                  *)
LEMMA AfterAppend ==
    ASSUME NEW s \in Seq(Events), NEW e \in Events, NEW t \in Seq(Events), Once(s),
           \A i \in 1..Len(s) : s[i].id # e.id,
           NEW k, Drops(Append(s, e), t, k)
    PROVE  /\ Once(t)
           /\ \A id \in Nat : id # 0 =>
                  ToSet(After(t, id)) \subseteq ToSet(After(s, id)) \cup {e}
<1>1. PICK l \in Nat : l = Len(s)
  OBVIOUS
<1>2. PICK a \in Seq(Events) : /\ a = Append(s, e) /\ Len(a) = l + 1 /\ a[l + 1] = e
                               /\ \A i \in 1..l : a[i] = s[i]
  <2> DEFINE a == Append(s, e)
  <2>1. /\ a \in Seq(Events) /\ Len(a) = l + 1 /\ a[l + 1] = e
        /\ \A i \in 1..l : a[i] = s[i]
    BY <1>1, AppendFacts
  <2> HIDE DEF a
  <2>2. QED BY <2>1 DEF a
<1>3. PICK m \in Nat : m = Len(t)
  OBVIOUS
<1>4. k \in 0..(l + 1) /\ m = (l + 1) - k /\ \A i \in 1..m : t[i] = a[k + i]
  BY <1>2, <1>3 DEF Drops
<1>5. Once(a)
  <2>1. SUFFICES ASSUME NEW i \in 1..(l + 1), NEW j \in 1..(l + 1), a[i].id = a[j].id
                 PROVE  i = j
    BY <1>2 DEF Once
  <2>2. CASE i \in 1..l /\ j \in 1..l
    BY <1>1, <1>2, <2>1, <2>2 DEF Once
  <2>3. CASE i = l + 1 /\ j = l + 1
    BY <2>3
  <2>4. CASE i = l + 1 /\ j \in 1..l
    BY <1>1, <1>2, <2>1, <2>4
  <2>5. CASE i \in 1..l /\ j = l + 1
    BY <1>1, <1>2, <2>1, <2>5
  <2>6. QED BY <2>2, <2>3, <2>4, <2>5
<1>6. \A i \in 1..m : k + i \in 1..(l + 1)
  BY <1>4
<1>7. Once(t)
  <2>1. SUFFICES ASSUME NEW i \in 1..m, NEW j \in 1..m, t[i].id = t[j].id PROVE i = j
    BY <1>3 DEF Once
  <2>2. PICK p \in 1..(l + 1), q \in 1..(l + 1) : p = k + i /\ q = k + j
    BY <1>6
  <2>3. a[p].id = a[q].id
    BY <1>4, <2>1, <2>2
  <2>4. p = q
    BY <1>2, <1>5, <2>3 DEF Once
  <2>5. QED BY <1>4, <2>2, <2>4
<1>8. ASSUME NEW id \in Nat, id # 0, NEW g \in ToSet(After(t, id)), g # e
      PROVE  g \in ToSet(After(s, id))
  <2>1. g \in ToSet(t)
    BY <1>7, <1>8, AfterOnce
  <2>2. PICK j \in 1..m : t[j] = g
    BY <1>3, <2>1, Elements
  <2>3. PICK i \in 1..m : t[i].id = id
    <3>1. PICK d : Drops(t, After(t, id), d)
                   /\ IF \E i \in 1..Len(t) : t[i].id = id
                      THEN d \in 1..Len(t) /\ t[d].id = id ELSE d = Len(t)
      BY <1>8, AfterFacts
    <3>2. PICK r \in Seq(Events) : r = After(t, id)
      BY AfterFacts
    <3>3. Len(r) # 0
      BY <1>8, <3>2, Elements
    <3>4. QED BY <1>3, <3>1, <3>2, <3>3 DEF Drops
  <2>4. i < j
    BY <1>3, <1>7, <1>8, <2>2, <2>3, AfterOnce
  <2>5. /\ k + i \in 1..(l + 1) /\ k + j \in 1..(l + 1) /\ k + i < k + j
        /\ a[k + i].id = id /\ a[k + j] = g
    BY <1>4, <1>6, <2>2, <2>3, <2>4
  <2>6. k + j # l + 1
    BY <1>2, <1>8, <2>5
  <2>7. k + i \in 1..l /\ k + j \in 1..l
    BY <1>4, <2>5, <2>6
  <2>8. s[k + i].id = id /\ s[k + j] = g
    BY <1>2, <2>5, <2>7
  <2>9. QED BY <1>1, <1>8, <2>5, <2>7, <2>8, AfterHolds
<1>9. QED BY <1>7, <1>8

(* An event the client was offered is behind whoever resumes after it.        *)
LEMMA PastReceived ==
    ASSUME Typed, FreshIds, mode = "memory", Orderly,
           NEW f \in Received, f.seq # 0
    PROVE  Past(f.seq, f.id)
<1>1. f \in Events /\ f.id \in Nat /\ f.id # 0
  <2>1. f \in Events
    BY Elements DEF Received, Typed, BTyped, CTyped
  <2>2. f.id \in 1..MaxEvents
    BY <2>1 DEF Events
  <2>3. QED BY <2>1, <2>2, Bounds
<1>2. f.seq <= local
  BY DEF Orderly, OwnNumbers
<1>3. \A e \in Announced : e.seq # f.seq
  <2>1. \A e \in Announced : e.id \notin sent
    BY DEF Announced, Announcing, FreshIds
  <2>2. f.id \in sent
    BY DEF Orderly, ReceivedSent
  <2>3. QED BY <2>1, <2>2 DEF Orderly, OwnNumbers
<1>4. ASSUME NEW g \in ToSet(After(replay, f.id)) PROVE g.seq # f.seq
  <2>1. replay \in Seq(Events) /\ Once(replay)
    BY DEF Typed, BTyped, Orderly
  <2>2. g.id # f.id /\ g \in Received
    BY <1>1, <1>4, <2>1, AfterOnce DEF Received
  <2>3. QED BY <2>2 DEF Orderly, OwnNumbers
<1>5. QED BY <1>1, <1>2, <1>3, <1>4 DEF Past

-----------------------------------------------------------------------------
(* What every step leaves true: an event that is announced has a number of    *)
(* its own, a new one above all others, and what the client may be sent was   *)
(* announced before.                                                          *)
Onward ==
    /\ local \in Nat /\ local' \in Nat /\ local <= local'
    /\ \E new : \A e \in Announced' :
           \/ e.seq = 0
           \/ local < e.seq /\ e.seq <= local' /\ e.id = new
           \/ \E f \in Announced : f.seq = e.seq /\ f.id = e.id
    /\ Received' \subseteq Received \cup Announced
    /\ \A id \in Nat : id # 0 =>
           ToSet(After(replay', id)) \subseteq ToSet(After(replay, id)) \cup Announced
    /\ Once(replay') /\ ReceivedSent'

LEMMA OnwardOrderly ==
    ASSUME Typed, Orderly, Onward
    PROVE  Orderly'
<1>1. /\ \A e \in Announced \cup Received : e.seq # 0 => e.seq <= local
      /\ \A e \in Announced \cup Received : e.seq \in Nat
      /\ local \in Nat /\ local' \in Nat /\ local <= local'
  <2>1. Announced \subseteq Events
    BY PublisherFacts DEF Typed, Announced, Announcing
  <2>2. Received \subseteq Events
    BY Elements DEF Typed, BTyped, CTyped, Received
  <2>3. QED BY <2>1, <2>2 DEF Orderly, OwnNumbers, Onward, Events
<1>2. PICK new : \A e \in Announced' :
          \/ e.seq = 0
          \/ local < e.seq /\ e.seq <= local' /\ e.id = new
          \/ \E f \in Announced : f.seq = e.seq /\ f.id = e.id
  BY DEF Onward
<1>3. ASSUME NEW e \in Announced' \cup Received', e.seq # 0
      PROVE  \/ local < e.seq /\ e.seq <= local' /\ e.id = new
             \/ \E f \in Announced \cup Received : f.seq = e.seq /\ f.id = e.id
  BY <1>2, <1>3 DEF Onward
<1>4. ASSUME NEW e \in Announced' \cup Received', NEW f \in Announced' \cup Received',
             e.seq # 0
      PROVE  e.seq <= local' /\ (f.seq = e.seq => f.id = e.id)
  <2>1. e.seq <= local'
    BY <1>1, <1>3, <1>4
  <2>2. ASSUME f.seq = e.seq PROVE f.id = e.id
    <3>1. CASE \E d \in Announced \cup Received : d.seq = e.seq /\ d.id = e.id
      <4>1. e.seq \in Nat /\ e.seq <= local
        BY <1>1, <1>4, <3>1
      <4>2. \E d \in Announced \cup Received : d.seq = f.seq /\ d.id = f.id
        BY <1>1, <1>3, <1>4, <2>2, <4>1
      <4>3. QED BY <1>4, <2>2, <3>1, <4>2 DEF Orderly, OwnNumbers
    <3>2. CASE local < e.seq /\ e.seq <= local' /\ e.id = new
      <4>1. ~\E d \in Announced \cup Received : d.seq = f.seq
        BY <1>1, <1>4, <2>2, <3>2
      <4>2. f.id = new
        BY <1>3, <1>4, <2>2, <4>1
      <4>3. QED BY <3>2, <4>2
    <3>3. QED BY <1>3, <1>4, <3>1, <3>2
  <2>3. QED BY <2>1, <2>2
<1>5. OwnNumbers'
  BY <1>4 DEF OwnNumbers
<1>6. QED BY <1>5 DEF Orderly, Onward

LEMMA OnwardPast ==
    ASSUME Onward, NEW n \in Nat, n # 0, NEW x \in Nat, Past(n, x)
    PROVE  Past(n, x)'
<1>1. n <= local' /\ \A e \in Announced' : e.seq # n
  <2>1. n <= local' /\ n <= local
    BY DEF Onward, Past
  <2>2. ASSUME NEW e \in Announced', e.seq = n PROVE FALSE
    <3>1. local < n \/ \E f \in Announced : f.seq = n
      BY <2>2 DEF Onward
    <3>2. QED BY <2>1, <3>1 DEF Onward, Past
  <2>3. QED BY <2>1, <2>2
<1>2. \A e \in ToSet(After(replay', x)) : e.seq # n
  BY DEF Onward, Past
<1>3. QED BY <1>1, <1>2 DEF Past

LEMMA OnwardStill ==
    ASSUME Typed, Orderly, UNCHANGED <<publisher, local, replay>>,
           sent \subseteq sent', Received' \subseteq Received
    PROVE  Onward
<1>1. Announced' = Announced /\ local \in Nat
  BY DEF Announced, Announcing, Typed, BTyped
<1>2. Once(replay') /\ ReceivedSent'
  BY DEF Orderly, ReceivedSent
<1>3. \A e \in Announced' : \E f \in Announced : f.seq = e.seq /\ f.id = e.id
  BY <1>1
<1>4. QED BY <1>1, <1>2, <1>3 DEF Onward

(* A step of one publisher, to which nobody is sent anything.                 *)
LEMMA OnwardPublisher ==
    ASSUME Typed, Orderly, NEW p \in Publishers, NEW r,
           publisher' = [publisher EXCEPT ![p] = r],
           UNCHANGED <<replay, queue, sent, reorder>>,
           local' \in Nat, local <= local',
           r.pc \in {"numbered", "stored"} =>
               \/ r.event.seq = 0
               \/ local < r.event.seq /\ r.event.seq <= local'
               \/ \E f \in Announced : f.seq = r.event.seq /\ f.id = r.event.id
    PROVE  Onward
<1>1. publisher'[p] = r /\ \A q \in Publishers : q # p => publisher'[q] = publisher[q]
  BY DEF Typed, BTyped
<1>2. Received' = Received /\ local \in Nat
  BY DEF Received, Typed, BTyped
<1>3. PICK new : new = r.event.id
  OBVIOUS
<1>4. ASSUME NEW e \in Announced'
      PROVE  \/ e.seq = 0
             \/ local < e.seq /\ e.seq <= local' /\ e.id = new
             \/ \E f \in Announced : f.seq = e.seq /\ f.id = e.id
  <2>1. PICK q \in Publishers : /\ publisher'[q].pc \in {"numbered", "stored"}
                                /\ e = publisher'[q].event
    BY <1>4 DEF Announced, Announcing
  <2>2. CASE q = p
    BY <1>1, <1>3, <2>1, <2>2
  <2>3. CASE q # p
    BY <1>1, <2>1, <2>3 DEF Announced, Announcing
  <2>4. QED BY <2>2, <2>3
<1>5. Once(replay') /\ ReceivedSent'
  BY <1>2 DEF Orderly, ReceivedSent
<1>6. QED BY <1>2, <1>4, <1>5 DEF Onward

LEMMA OnwardFanout ==
    ASSUME Typed, FreshIds, mode = "memory", Orderly, NEW p \in Publishers, Fanout(p),
           UNCHANGED reorder
    PROVE  /\ Onward
           /\ \E e \in Announced :
                  /\ ToSet(queue') \subseteq ToSet(queue) \cup {e}
                  /\ UNCHANGED queue \/ ToSet(After(replay', e.id)) \subseteq {e}
<1> PICK e : e = publisher[p].event
  OBVIOUS
<1>0. /\ e \in Announced /\ publisher' = [publisher EXCEPT ![p] = Quiet] /\ local' = local
      /\ FanoutRaw(e) \/ UNCHANGED <<replay, sent, queue>>
  BY DEF Fanout, Announced, Announcing
<1> SUFFICES ASSUME FanoutRaw(e)
             PROVE  /\ Onward
                    /\ ToSet(queue') \subseteq ToSet(queue) \cup {e}
                    /\ ToSet(After(replay', e.id)) \subseteq {e}
  <2>1. CASE UNCHANGED <<replay, sent, queue>>
    <3>1. local \in Nat /\ Quiet.pc \notin {"numbered", "stored"} /\ local <= local'
      BY <1>0, QuietRecord DEF Typed, BTyped
    <3>2. Onward
      BY <1>0, <2>1, <3>1, OnwardPublisher
    <3>3. QED BY <1>0, <2>1, <3>2
  <2>2. QED BY <1>0, <2>1
<1>1. /\ e \in Events /\ e.id \in 1..events /\ e \in Announced /\ e.id \notin sent
      /\ FanoutRaw(e) /\ publisher' = [publisher EXCEPT ![p] = Quiet] /\ local' = local
  BY <1>0, PublisherFacts
     DEF Fanout, Typed, IdsKnown, Copies, FreshIds, Announced, Announcing
<1>2. /\ replay' \in Seq(Events) /\ ToSet(replay') \subseteq ToSet(replay) \cup {e}
      /\ ToSet(queue') \subseteq ToSet(queue) \cup {e} /\ sent' = sent \cup {e.id}
  BY <1>1, FanoutRawEffects DEF Typed
<1>3. replay \in Seq(Events) /\ Once(replay) /\ e.id \in Nat /\ e.id # 0
  BY <1>1, Bounds DEF Typed, BTyped, Orderly, Events
<1>4. \A i \in 1..Len(replay) : replay[i].id # e.id
  <2>1. \A i \in 1..Len(replay) : replay[i] \in Received
    BY <1>3, Elements DEF Received
  <2>2. QED BY <1>1, <2>1 DEF Orderly, ReceivedSent
<1>5. PICK k : Drops(Append(replay, e), replay', k)
  BY <1>1, FanoutRawEffects DEF Typed
<1>6. /\ Once(replay')
      /\ \A id \in Nat : id # 0 =>
             ToSet(After(replay', id)) \subseteq ToSet(After(replay, id)) \cup {e}
  BY <1>1, <1>2, <1>3, <1>4, <1>5, AfterAppend
<1>7. ToSet(After(replay, e.id)) = {}
  <2>1. Drops(replay, After(replay, e.id), Len(replay))
    BY <1>3, <1>4, AfterFacts
  <2>2. PICK t \in Seq(Events) : t = After(replay, e.id)
    BY <1>3, AfterFacts
  <2>3. PICK l \in Nat : l = Len(replay)
    BY <1>3
  <2>4. Len(t) = 0
    BY <2>1, <2>2, <2>3 DEF Drops
  <2>5. QED BY <2>2, <2>4, Elements
<1>8. ToSet(After(replay', e.id)) \subseteq {e}
  BY <1>3, <1>6, <1>7
<1>9. Announced' \subseteq Announced
  BY <1>1, QuietRecord DEF Announced, Announcing, Typed, BTyped
<1>10. Received' \subseteq Received \cup {e}
  BY <1>2 DEF Received
<1>11. ReceivedSent'
  BY <1>2, <1>10 DEF Orderly, ReceivedSent
<1>12. Onward
  <2>1. local \in Nat
    BY DEF Typed, BTyped
  <2>2. Received' \subseteq Received \cup Announced
    BY <1>1, <1>10
  <2>3. \A id \in Nat : id # 0 =>
            ToSet(After(replay', id)) \subseteq ToSet(After(replay, id)) \cup Announced
    BY <1>1, <1>6
  <2>4. \A d \in Announced' : \E f \in Announced : f.seq = d.seq /\ f.id = d.id
    BY <1>9
  <2>5. QED BY <1>1, <1>6, <1>11, <2>1, <2>2, <2>3, <2>4 DEF Onward
<1>13. QED BY <1>2, <1>8, <1>12

LEMMA OnwardBNext ==
    ASSUME Typed, FreshIds, mode = "memory", Orderly, BNext, UNCHANGED cVars,
           "number" \notin lost'
    PROVE  Onward
<1>0. UNCHANGED reorder /\ local \in Nat
  BY DEF cVars, Typed, BTyped
<1>1. ASSUME NEW p \in Publishers, NEW mine \in BOOLEAN, Publish(p, mine)
      PROVE  Onward
  <2> DEFINE e == [id |-> events + 1, seq |-> 0, stored |-> FALSE]
             f == [e EXCEPT !.seq = local + 1]
             quiet == [pc |-> "numbered", event |-> e]
             mute == [pc |-> "counting", event |-> f]
  <2>1. /\ UNCHANGED <<replay, queue, sent, local>>
        /\ publisher' = [publisher EXCEPT ![p] = quiet]
           \/ publisher' = [publisher EXCEPT ![p] = mute]
    BY <1>1 DEF Publish, At, Redis
  <2>2. quiet.event.seq = 0 /\ mute.pc \notin {"numbered", "stored"}
    OBVIOUS
  <2> HIDE DEF quiet, mute
  <2>3. QED BY <1>0, <2>1, <2>2, OnwardPublisher
<1>2. ASSUME NEW p \in Publishers, Count(p)
      PROVE  Onward
  <2> DEFINE r == [pc |-> "numbered", event |-> publisher[p].event]
  <2>1. publisher[p].event.seq \in Nat
    BY PublisherFacts DEF Typed, Events
  <2>2. /\ publisher' = [publisher EXCEPT ![p] = r]
        /\ UNCHANGED <<replay, queue, sent>>
        /\ local' = publisher[p].event.seq /\ ~(local >= publisher[p].event.seq)
    BY <1>2 DEF Count, At, Loses
  <2>3. r.event = publisher[p].event
    OBVIOUS
  <2> HIDE DEF r
  <2>4. /\ local' \in Nat /\ local <= local'
        /\ local < r.event.seq /\ r.event.seq <= local'
    BY <1>0, <2>1, <2>2, <2>3
  <2>5. QED BY <1>0, <2>2, <2>4, OnwardPublisher
<1>3. ASSUME NEW p \in Publishers, RejectOversized(p)
      PROVE  Onward
  <2>1. /\ publisher' = [publisher EXCEPT ![p] = Quiet]
        /\ UNCHANGED <<replay, queue, sent, local>>
    BY <1>3 DEF RejectOversized
  <2>2. local' \in Nat /\ local <= local' /\ Quiet.pc \notin {"numbered", "stored"}
    BY <1>0, <2>1, QuietRecord
  <2>3. QED BY <1>0, <2>1, <2>2, OnwardPublisher
<1>4. ASSUME NEW p \in Publishers, Store(p)
      PROVE  Onward
  <2> PICK e : e = publisher[p].event
    OBVIOUS
  <2> DEFINE r == [pc |-> "stored", event |-> e]
             t == [pc |-> "stored", event |-> [e EXCEPT !.stored = TRUE]]
  <2>1. e \in Announced /\ e \in Events
    BY <1>4, PublisherFacts DEF Store, Typed, Announced, Announcing
  <2>2. /\ publisher' = [publisher EXCEPT ![p] = r]
           \/ publisher' = [publisher EXCEPT ![p] = t]
        /\ UNCHANGED <<replay, queue, sent, local>>
    BY <1>4 DEF Store, At
  <2>3. /\ r.event.seq = e.seq /\ r.event.id = e.id
        /\ t.event.seq = e.seq /\ t.event.id = e.id
    BY <2>1 DEF Events
  <2> HIDE DEF r, t
  <2>4. QED BY <1>0, <2>1, <2>2, <2>3, OnwardPublisher
<1>5. \A e \in wire : ~Receive(e)
  BY DEF FreshIds
<1>6. CASE ListenerFails \/ ListenerRecovers \/ Degrade \/ PruneInactive
  <2>1. UNCHANGED <<publisher, local, replay, queue, sent>>
    BY <1>6 DEF ListenerFails, ListenerRecovers, Degrade, PruneInactive
  <2>2. Received' \subseteq Received
    BY <1>0, <2>1 DEF Received
  <2>3. QED BY <2>1, <2>2, OnwardStill
<1>7. QED BY <1>0, <1>1, <1>2, <1>3, <1>4, <1>5, <1>6, OnwardFanout DEF BNext

(* A delivery to a client that is stalled applies nothing.                    *)
LEMMA StalledDelivery ==
    ASSUME Typed, StallKept, Stalled, Deliver
    PROVE  /\ UNCHANGED <<applied, expected, current>>
           /\ \/ UNCHANGED recoveries
              \/ recoveries' = Append(recoveries, [at |-> "asked", position |-> 0])
<1>1. PICK e \in Events : e \in ToSet(queue) /\ HandleEvent(e)
  BY DeliverFacts
<1>2. e.seq # expected /\ expected # 0 /\ expected \in Nat
  BY <1>1, Bounds DEF StallKept, Stalled, Typed, CTyped
<1>3. Ignore \/ Defer(e)
  BY <1>1, <1>2, HandleCases
<1>4. QED BY <1>3 DEF Ignore, Defer

LEMMA StallByStep ==
    ASSUME Typed, StallKept, Stalled, [Next]_vars
    PROVE  applied' = << >>
<1>1. CASE UNCHANGED applied
  BY <1>1 DEF Stalled
<1>2. CASE Deliver
  BY <1>1, <1>2, StalledDelivery
<1>3. CASE Restart
  BY <1>3 DEF Restart
<1>4. CASE \E k \in 1..Len(recoveries) : RecoverFromGap(k)
  BY <1>1, <1>4 DEF RecoverFromGap, AnswerLastState, RemoveId, RemoveNumber, Reconcile
<1>5. ~SaveNumber
  BY SaveNumberFacts DEF Stalled, Typed, CTyped
<1>6. QED
  BY <1>1, <1>2, <1>3, <1>4, <1>5
     DEF Next, vars, cVars, Connect, SaveId, Disconnect, PauseAndResume

(* The numbers, and all that follows from Onward.                             *)
LEMMA PastNumbers ==
    ASSUME Typed
    PROVE  /\ last \in Nat /\ current \in Nat /\ savedId \in Nat
           /\ savedSeq \in Nat /\ expected \in Nat
           /\ \A e \in Received : e \in Events /\ e.id \in Nat /\ e.id # 0
           /\ \A k \in 1..Len(recoveries) : recoveries[k].position \in Nat
           /\ \A h \in Handlers : h.event.seq \in Nat /\ h.event.id \in Nat
<1>1. /\ last \in Nat /\ current \in Nat /\ savedSeq \in 0..MaxEvents
      /\ expected \in 0..(MaxEvents + 1)
      /\ savedId \in (1..events) \cup {0} /\ events \in 0..MaxEvents
  BY PositionBounds DEF Typed, BTyped, CTyped
<1>2. ASSUME NEW e \in Received PROVE e \in Events /\ e.id \in 1..MaxEvents
  <2>1. e \in Events
    BY Elements DEF Received, Typed, BTyped, CTyped
  <2>2. QED BY <2>1 DEF Events
<1>3. ASSUME NEW k \in 1..Len(recoveries) PROVE recoveries[k].position \in Nat
  <2>1. recoveries[k] \in Recoveries
    BY DEF Typed, CTyped
  <2>2. QED BY <2>1, PositionBounds DEF Recoveries
<1>4. ASSUME NEW h \in Handlers PROVE h.event.seq \in Nat /\ h.event.id \in Nat
  BY Bounds DEF Handlers, Events
<1>5. QED BY <1>1, <1>2, <1>3, <1>4, Bounds

LEMMA PastPair ==
    ASSUME Onward, NEW n, NEW x, n \in Nat, x \in Nat, n # 0, Past(n, x),
           NEW m, NEW y, m = n, y = x
    PROVE  Past(m, y)'
BY OnwardPast DEF Past

(* One more handler, of an event that the client had received.                *)
LEMMA HandlerAdded ==
    ASSUME Typed, Onward, NEW s \in Seq(Handlers), NEW id, InTurn(s, id), AllPast(s),
           NEW e \in Events, e.seq # 0, Past(e.seq, e.id)
    PROVE  LET t == Append(s, [event |-> e, at |-> "id"]) IN
           /\ InTurn(t, id) /\ AllPast(t)
           /\ \A j \in 1..Len(s) : j \in 1..Len(t) /\ t[j] = s[j]
<1>1. [event |-> e, at |-> "id"] \in Handlers
  BY DEF Handlers
<1> PICK h \in Handlers : h = [event |-> e, at |-> "id"] /\ h.event = e /\ h.at = "id"
  BY <1>1
<1> PICK t \in Seq(Handlers) : t = Append(s, h)
  BY AppendFacts
<1> PICK l \in Nat : l = Len(s)
  OBVIOUS
<1>2. Len(t) = l + 1 /\ t[l + 1] = h /\ \A j \in 1..l : t[j] = s[j]
  BY AppendFacts
<1>3. ASSUME NEW k \in 1..(l + 1), t[k].at = "number"
      PROVE  /\ \A j \in 1..(k - 1) : t[j].at = "number"
             /\ id = t[k].event.id \/ (k < l + 1 /\ t[k + 1].at = "number")
  <2>1. k \in 1..l /\ t[k] = s[k] /\ \A j \in 1..(k - 1) : j \in 1..l
    BY <1>2, <1>3
  <2>2. /\ \A j \in 1..(k - 1) : s[j].at = "number"
        /\ id = s[k].event.id \/ (k < l /\ s[k + 1].at = "number")
    BY <1>3, <2>1 DEF InTurn
  <2>3. k < l => k + 1 \in 1..l /\ k < l + 1
    BY <2>1
  <2>4. QED BY <1>2, <2>1, <2>2, <2>3
<1>4. InTurn(t, id)
  BY <1>2, <1>3 DEF InTurn
<1>5. AllPast(t)
  <2>1. \A k \in 1..(l + 1) : k \in 1..l \/ k = l + 1
    OBVIOUS
  <2>2. QED BY <1>2, <2>1 DEF AllPast
<1>6. \A j \in 1..l : j \in 1..Len(t) /\ t[j] = s[j]
  BY <1>2
<1>7. QED BY <1>4, <1>5, <1>6

LEMMA AllPastOn ==
    ASSUME Typed, Onward, NEW s \in Seq(Handlers), AllPast(s)
    PROVE  AllPast(s)'
<1> SUFFICES ASSUME NEW k \in 1..Len(s)
             PROVE  s[k].event.seq # 0 /\ Past(s[k].event.seq, s[k].event.id)'
  BY DEF AllPast
<1>1. PICK h \in Handlers : h = s[k]
  OBVIOUS
<1>2. h.event.seq \in Nat /\ h.event.id \in Nat
  BY PastNumbers
<1>3. h.event.seq # 0 /\ Past(h.event.seq, h.event.id)
  BY <1>1 DEF AllPast
<1>4. Past(h.event.seq, h.event.id)'
  BY <1>2, <1>3, OnwardPast
<1>5. QED BY <1>1, <1>3, <1>4

(* The preferences, when neither of the two is about to change again.         *)
LEMMA SavedStays ==
    ASSUME Typed, Onward, SavedBehind, UNCHANGED <<savedSeq, savedId>>,
           BetweenWrites => BetweenWrites'
    PROVE  SavedBehind'
<1>1. savedSeq \in Nat /\ savedId \in Nat
  BY PastNumbers
<1>2. CASE savedSeq # 0 /\ Past(savedSeq, savedId)
  <2>1. Past(savedSeq, savedId)'
    BY <1>1, <1>2, PastPair
  <2>2. QED BY <2>1 DEF SavedBehind
<1>3. QED BY <1>2 DEF SavedBehind

LEMMA SavingStays ==
    ASSUME Typed, Onward, SavingBehind, UNCHANGED <<saving, savedId>>
    PROVE  SavingBehind'
<1>1. saving \in Seq(Handlers) /\ AllPast(saving)
  BY DEF Typed, CTyped, SavingBehind
<1>2. PICK s \in Seq(Handlers) : s = saving /\ AllPast(s)
  BY <1>1
<1>3. AllPast(s)'
  BY <1>2, AllPastOn
<1>4. QED BY <1>2, <1>3 DEF SavingBehind, AllPast, InTurn, Past

LEMMA DeliverySaves ==
    ASSUME Typed, FreshIds, mode = "memory", Orderly, Onward, SavingBehind, SavedBehind,
           Deliver
    PROVE  SavingBehind' /\ SavedBehind'
<1>0. expected \in Nat /\ saving \in Seq(Handlers)
  BY PastNumbers DEF Typed, CTyped
<1>1. PICK e \in Events : /\ e \in ToSet(queue) /\ HandleEvent(e)
                          /\ UNCHANGED <<savedId, savedSeq>>
  BY DeliverFacts
<1>2. CASE Apply(e, saving) /\ e.seq # 0 /\ UNCHANGED recoveries
  <2>1. Past(e.seq, e.id)
    BY <1>1, <1>2, PastReceived DEF Received
  <2>2. PICK t : t = Append(saving, [event |-> e, at |-> "id"]) /\ t = saving'
    BY <1>2 DEF Apply
  <2>3. /\ InTurn(t, savedId) /\ AllPast(t) /\ t \in Seq(Handlers)
        /\ \A j \in 1..Len(saving) : j \in 1..Len(t) /\ t[j] = saving[j]
    <3>1. [event |-> e, at |-> "id"] \in Handlers
      BY DEF Handlers
    <3>2. t \in Seq(Handlers)
      BY <1>0, <2>2, <3>1
    <3>3. InTurn(saving, savedId) /\ AllPast(saving)
      BY DEF SavingBehind
    <3>4. QED BY <1>0, <1>2, <2>1, <2>2, <3>2, <3>3, HandlerAdded
  <2>4. AllPast(t)'
    BY <2>3, AllPastOn
  <2>5. SavingBehind'
    BY <1>1, <2>2, <2>3, <2>4 DEF SavingBehind, AllPast, InTurn, Past
  <2>6. BetweenWrites => BetweenWrites'
    BY <1>2, <2>2, <2>3 DEF BetweenWrites
  <2>7. QED BY <1>1, <2>5, <2>6, SavedStays
<1>3. CASE Ignore \/ Defer(e)
  <2>1. UNCHANGED saving
    BY <1>3 DEF Ignore, Defer
  <2>2. BetweenWrites => BetweenWrites'
    <3>1. CASE UNCHANGED recoveries
      BY <2>1, <3>1 DEF BetweenWrites
    <3>2. CASE recoveries' = Append(recoveries, [at |-> "asked", position |-> 0])
      <4> PICK r : r = [at |-> "asked", position |-> 0]
        OBVIOUS
      <4>1. \A j \in 1..Len(recoveries) :
                j \in 1..Len(recoveries') /\ recoveries'[j] = recoveries[j]
        BY <3>2 DEF Typed, CTyped
      <4>2. QED BY <2>1, <4>1 DEF BetweenWrites
    <3>3. QED BY <1>3, <3>1, <3>2 DEF Ignore, Defer
  <2>3. QED BY <1>1, <2>1, <2>2, SavedStays, SavingStays
<1>4. QED BY <1>0, <1>1, <1>2, <1>3, HandleCases

LEMMA SaveIdSaves ==
    ASSUME Typed, Onward, SavingBehind, SaveId
    PROVE  SavingBehind' /\ SavedBehind'
<1>1. PICK k \in 1..Len(saving) :
          /\ saving[k].at = "id" /\ \A j \in 1..(k - 1) : saving[j].at = "number"
          /\ saving' = [saving EXCEPT ![k].at = "number"]
          /\ savedId' = saving[k].event.id
  BY DEF SaveId
<1>2. saving \in Seq(Handlers) /\ saving[k] \in Handlers
  BY DEF Typed, CTyped
<1> PICK h : h = [saving[k] EXCEPT !.at = "number"]
  OBVIOUS
<1>3. h \in Handlers /\ h.event = saving[k].event /\ h.at = "number"
  BY <1>2 DEF Handlers
<1> PICK l \in Nat : l = Len(saving)
  BY <1>2
<1>4. PICK t \in Seq(Handlers) : /\ t = saving' /\ Len(t) = l
                                 /\ \A j \in 1..l : t[j] = IF j = k THEN h ELSE saving[j]
  <2>1. saving' = [saving EXCEPT ![k] = h]
    BY <1>1
  <2>2. /\ saving' \in Seq(Handlers) /\ Len(saving') = Len(saving)
        /\ \A j \in 1..Len(saving) : saving'[j] = IF j = k THEN h ELSE saving[j]
    BY <1>2, <1>3, <2>1
  <2>3. QED BY <2>2
<1>5. ASSUME NEW i \in 1..l, t[i].at = "number"
      PROVE  /\ \A j \in 1..(i - 1) : t[j].at = "number"
             /\ savedId' = t[i].event.id \/ (i < l /\ t[i + 1].at = "number")
  <2>1. i <= k
    <3>1. SUFFICES ASSUME i > k PROVE FALSE
      OBVIOUS
    <3>2. saving[i].at = "number" /\ k \in 1..(i - 1)
      BY <1>4, <1>5, <3>1
    <3>3. saving[k].at = "number"
      BY <3>2 DEF SavingBehind, InTurn
    <3>4. QED BY <1>1, <3>3
  <2>2. \A j \in 1..(i - 1) : t[j].at = "number"
    <3>1. \A j \in 1..(i - 1) : j \in 1..(k - 1) /\ j \in 1..l /\ j # k
      BY <2>1
    <3>2. QED BY <1>1, <1>4, <3>1
  <2>3. CASE i = k
    BY <1>1, <1>3, <1>4, <2>2, <2>3
  <2>4. CASE i # k
    <3>1. i < l /\ i + 1 \in 1..l /\ (i + 1 = k \/ i + 1 \in 1..(k - 1))
      BY <2>1, <2>4
    <3>2. t[i + 1].at = "number"
      BY <1>1, <1>3, <1>4, <3>1
    <3>3. QED BY <2>2, <3>1, <3>2
  <2>5. QED BY <2>3, <2>4
<1>6. InTurn(t, savedId')
  BY <1>4, <1>5 DEF InTurn
<1>7. AllPast(t)
  BY <1>3, <1>4 DEF SavingBehind, AllPast
<1>8. AllPast(t)'
  BY <1>7, AllPastOn
<1>9. SavingBehind'
  BY <1>4, <1>6, <1>8 DEF SavingBehind, AllPast, InTurn, Past
<1>10. BetweenWrites'
  BY <1>3, <1>4 DEF BetweenWrites
<1>11. QED BY <1>9, <1>10 DEF SavedBehind

LEMMA SaveNumberSaves ==
    ASSUME Typed, FreshIds, mode = "memory", Orderly, Onward, SavingBehind, SaveNumber
    PROVE  SavingBehind' /\ SavedBehind'
<1> PICK rest : rest = Tail(saving)
  OBVIOUS
<1>1. /\ saving[1].at = "number" /\ savedSeq' = saving[1].event.seq
      /\ rest \in Seq(Handlers) /\ Len(rest) = Len(saving) - 1
      /\ \A i \in 1..(Len(saving) - 1) : rest[i] = saving[i + 1]
      /\ Len(saving) \in Nat /\ Len(saving) > 0
      /\ \/ \E f \in reorder : f.seq = expected /\ Apply(f, rest)
         \/ saving' = rest
      /\ UNCHANGED <<savedId, recoveries>>
  BY SaveNumberFacts
<1> PICK l \in Nat : l = Len(rest)
  BY <1>1
<1>2. /\ Len(saving) = l + 1 /\ \A i \in 1..l : rest[i] = saving[i + 1]
      /\ 1 \in 1..Len(saving)
  BY <1>1
<1>3. InTurn(saving, savedId) /\ AllPast(saving)
  BY DEF SavingBehind
<1>4. InTurn(rest, savedId)
  <2>1. ASSUME NEW k \in 1..l, rest[k].at = "number"
        PROVE  /\ \A j \in 1..(k - 1) : rest[j].at = "number"
               /\ savedId = rest[k].event.id \/ (k < l /\ rest[k + 1].at = "number")
    <3>1. k + 1 \in 1..Len(saving) /\ rest[k] = saving[k + 1]
      BY <1>2
    <3>2. /\ \A j \in 1..((k + 1) - 1) : saving[j].at = "number"
          /\ \/ savedId = saving[k + 1].event.id
             \/ k + 1 < Len(saving) /\ saving[(k + 1) + 1].at = "number"
      BY <1>3, <2>1, <3>1 DEF InTurn
    <3>3. \A j \in 1..(k - 1) : j + 1 \in 1..((k + 1) - 1) /\ j \in 1..l
      OBVIOUS
    <3>4. k + 1 < Len(saving) => k < l /\ k + 1 \in 1..l
      BY <1>2
    <3>5. QED BY <1>2, <3>1, <3>2, <3>3, <3>4
  <2>2. QED BY <2>1 DEF InTurn
<1>5. AllPast(rest)
  <2>1. \A k \in 1..l : k + 1 \in 1..Len(saving) /\ rest[k] = saving[k + 1]
    BY <1>2
  <2>2. QED BY <1>3, <2>1 DEF AllPast
<1>6. PICK t \in Seq(Handlers) :
          /\ t = saving' /\ InTurn(t, savedId) /\ AllPast(t)
          /\ \A j \in 1..l : j \in 1..Len(t) /\ t[j] = rest[j]
  <2>1. CASE saving' = rest
    BY <1>1, <1>4, <1>5, <2>1
  <2>2. ASSUME NEW f \in reorder, f.seq = expected, Apply(f, rest)
        PROVE  \E t \in Seq(Handlers) :
                   /\ t = saving' /\ InTurn(t, savedId) /\ AllPast(t)
                   /\ \A j \in 1..l : j \in 1..Len(t) /\ t[j] = rest[j]
    <3>1. f \in Events /\ f.seq # 0 /\ f \in Received
      BY <2>2 DEF Typed, CTyped, Received
    <3>2. Past(f.seq, f.id)
      BY <3>1, PastReceived
    <3>3. PICK t : t = Append(rest, [event |-> f, at |-> "id"]) /\ t = saving'
      BY <2>2 DEF Apply
    <3>4. [event |-> f, at |-> "id"] \in Handlers
      BY <3>1 DEF Handlers
    <3>5. t \in Seq(Handlers)
      BY <1>1, <3>3, <3>4
    <3>6. /\ InTurn(t, savedId) /\ AllPast(t)
          /\ \A j \in 1..Len(rest) : j \in 1..Len(t) /\ t[j] = rest[j]
      BY <1>1, <1>4, <1>5, <3>1, <3>2, <3>3, HandlerAdded
    <3>7. QED BY <3>3, <3>5, <3>6
  <2>3. QED BY <1>1, <2>1, <2>2
<1>7. AllPast(t)'
  BY <1>6, AllPastOn
<1>8. SavingBehind'
  BY <1>1, <1>6, <1>7 DEF SavingBehind, AllPast, InTurn, Past
<1>9. SavedBehind'
  <2>1. CASE savedId = saving[1].event.id
    <3>1. saving[1] \in Handlers
      BY <1>2 DEF Typed, CTyped
    <3>2. PICK h \in Handlers : h = saving[1]
      BY <3>1
    <3>3. /\ h.event.seq \in Nat /\ h.event.id \in Nat /\ h.event.seq # 0
          /\ Past(h.event.seq, h.event.id)
      BY <1>2, <1>3, <3>2, PastNumbers DEF AllPast
    <3>4. Past(h.event.seq, h.event.id)'
      BY <3>3, OnwardPast
    <3>5. Past(savedSeq, savedId)'
      BY <1>1, <2>1, <3>2, <3>4 DEF Past
    <3>6. QED BY <3>5 DEF SavedBehind
  <2>2. CASE 1 < Len(saving) /\ saving[1 + 1].at = "number"
    <3>1. 1 \in 1..l /\ rest[1].at = "number"
      BY <1>2, <2>2
    <3>2. BetweenWrites'
      BY <1>6, <3>1 DEF BetweenWrites
    <3>3. QED BY <3>2 DEF SavedBehind
  <2>3. QED BY <1>1, <1>2, <1>3, <2>1, <2>2 DEF InTurn
<1>10. QED BY <1>8, <1>9

LEMMA RecoverySaves ==
    ASSUME Typed, Onward, SavingBehind, SavedBehind,
           NEW k \in 1..Len(recoveries), RecoverFromGap(k), "torn" \notin lost'
    PROVE  SavingBehind' /\ SavedBehind'
<1>1. recoveries \in Seq(Recoveries) /\ recoveries[k] \in Recoveries
  BY DEF Typed, CTyped
<1>2. ASSUME NEW at, Stage(k, at)
      PROVE  /\ Len(recoveries') = Len(recoveries) /\ recoveries'[k].at = at
             /\ \A j \in 1..Len(recoveries) : j # k => recoveries'[j] = recoveries[j]
  BY <1>1, <1>2 DEF Stage, Recoveries
<1>3. CASE RemoveId(k)
  <2>1. \A j \in 1..Len(saving) : saving[j].at # "number"
    BY <1>3 DEF RemoveId, Loses
  <2>2. PICK s \in Seq(Handlers) : s = saving /\ s = saving' /\ AllPast(s)
    BY <1>3 DEF RemoveId, SavingBehind, Typed, CTyped
  <2>3. AllPast(s)'
    BY <2>2, AllPastOn
  <2>4. InTurn(saving, savedId)'
    BY <2>1, <2>2 DEF InTurn
  <2>5. BetweenWrites'
    BY <1>2, <1>3 DEF RemoveId, BetweenWrites
  <2>6. QED BY <2>2, <2>3, <2>4, <2>5 DEF SavingBehind, SavedBehind, AllPast, Past
<1>4. CASE RemoveNumber(k)
  <2>1. UNCHANGED <<saving, savedId>> /\ savedSeq' = 0
    BY <1>4 DEF RemoveNumber
  <2>2. QED BY <2>1, SavingStays DEF SavedBehind
<1>5. CASE AnswerLastState(k) \/ Reconcile(k)
  <2>1. UNCHANGED <<saving, savedId, savedSeq>> /\ recoveries[k].at # "removing"
    BY <1>5 DEF AnswerLastState, Reconcile
  <2>2. \A j \in 1..Len(recoveries) : j # k =>
            \E i \in 1..Len(recoveries') : recoveries'[i] = recoveries[j]
    <3>1. CASE Without(k)
      BY <1>1, <3>1, RemoveAtFacts DEF Without
    <3>2. ASSUME NEW r, recoveries' = [recoveries EXCEPT ![k] = r]
          PROVE  \A j \in 1..Len(recoveries) : j # k =>
                     j \in 1..Len(recoveries') /\ recoveries'[j] = recoveries[j]
      BY <1>1, <3>2
    <3>3. QED BY <1>5, <3>1, <3>2 DEF AnswerLastState, Reconcile
  <2>3. BetweenWrites => BetweenWrites'
    BY <2>1, <2>2 DEF BetweenWrites
  <2>4. QED BY <2>1, <2>3, SavedStays, SavingStays
<1>6. QED BY <1>3, <1>4, <1>5 DEF RecoverFromGap

LEMMA SavesNext ==
    ASSUME Typed, FreshIds, mode = "memory", Orderly, Onward, SavingBehind, SavedBehind,
           [Next]_vars, "torn" \notin lost'
    PROVE  SavingBehind' /\ SavedBehind'
<1>1. CASE Restart
  <2>1. /\ UNCHANGED <<savedId, savedSeq>> /\ saving' = << >> /\ recoveries' = << >>
        /\ ~BetweenWrites
    BY <1>1 DEF Restart
  <2>2. SavedBehind'
    BY <2>1, SavedStays
  <2>3. Len(<< >>) = 0
    OBVIOUS
  <2>4. SavingBehind'
    BY <2>1, <2>3 DEF SavingBehind, InTurn, AllPast
  <2>5. QED BY <2>2, <2>4
<1>2. CASE UNCHANGED <<saving, recoveries, savedId, savedSeq>>
  <2>1. BetweenWrites => BetweenWrites'
    BY <1>2 DEF BetweenWrites
  <2>2. QED BY <1>2, <2>1, SavedStays, SavingStays
<1>3. CASE \E k \in 1..Len(recoveries) : RecoverFromGap(k)
  BY <1>3, RecoverySaves
<1>4. QED
  BY <1>1, <1>2, <1>3, DeliverySaves, SaveIdSaves, SaveNumberSaves
     DEF Next, vars, cVars, Connect, Disconnect, PauseAndResume

(* A client that stays stalled at the number it expects.                      *)
LEMMA StallOn ==
    ASSUME Typed, Onward, NEW n \in Nat, n # 0, expected' = n,
           \E x \in Nat : x = last' /\ Past(n, x),
           \E x \in Nat : x = current' /\ Past(n, x),
           \A e \in ToSet(queue') : /\ e.seq # n
                                    /\ e.id \in Nat /\ Past(n, e.id),
           \A k \in 1..Len(recoveries') :
               \/ recoveries'[k].position = 0
               \/ \E x \in Nat : x = recoveries'[k].position /\ Past(n, x)
    PROVE  StallKept'
<1>1. PICK x \in Nat : x = last' /\ Past(n, x)
  OBVIOUS
<1>2. PICK y \in Nat : y = current' /\ Past(n, y)
  OBVIOUS
<1>3. Past(n, x)' /\ Past(n, y)'
  BY <1>1, <1>2, OnwardPast
<1>4. Past(expected, last)' /\ Past(expected, current)'
  BY <1>1, <1>2, <1>3 DEF Past
<1>5. ASSUME NEW e \in ToSet(queue') PROVE e.seq # expected' /\ Past(expected, e.id)'
  <2>1. PICK z \in Nat : z = e.id /\ Past(n, z)
    OBVIOUS
  <2>2. Past(n, z)'
    BY <2>1, OnwardPast
  <2>3. QED BY <2>1, <2>2 DEF Past
<1>6. ASSUME NEW k \in 1..Len(recoveries'), recoveries'[k].position # 0
      PROVE  Past(expected, recoveries[k].position)'
  <2>1. PICK z \in Nat : z = recoveries'[k].position /\ Past(n, z)
    BY <1>6
  <2>2. Past(n, z)'
    BY <2>1, OnwardPast
  <2>3. QED BY <2>1, <2>2 DEF Past
<1>7. QED BY <1>4, <1>5, <1>6 DEF StallKept, Past

LEMMA ConnectOffers ==
    ASSUME Typed, mode = "memory", Connect
    PROVE  /\ ToSet(queue') \subseteq ToSet(After(replay, last))
           /\ ToSet(After(replay, last)) \subseteq ToSet(replay)
<1>1. replay \in Seq(Events) /\ stream \in Seq(Events) /\ last \in Nat
  BY PastNumbers DEF Typed, BTyped
<1>2. PICK failed \in BOOLEAN : Register(last, got, failed)
  BY DEF Connect
<1>3. ~failed
  BY <1>2 DEF Register
<1>4. PICK items \in Seq(Events) : items = After(replay, last)
                                   /\ items = Replayed(last, failed)
  BY <1>1, <1>3, ReplayedFacts, AfterFacts
<1>5. queue' = IF Len(items) > QueueSize THEN SubSeq(items, 1, QueueSize) ELSE items
  BY <1>2, <1>4 DEF Register
<1>6. ToSet(queue') \subseteq ToSet(items)
  <2>1. CASE Len(items) > QueueSize
    <3>1. QueueSize \in Nat /\ QueueSize < Len(items)
      BY <1>4, <2>1, Bounds
    <3>2. QED BY <1>5, <2>1, <3>1, FirstOnes
  <2>2. CASE ~(Len(items) > QueueSize)
    BY <1>5, <2>2
  <2>3. QED BY <2>1, <2>2
<1>7. ToSet(items) \subseteq ToSet(replay)
  BY <1>1, <1>4, AfterFacts, DropsHolds
<1>8. QED BY <1>4, <1>6, <1>7

LEMMA OnwardNext ==
    ASSUME Typed, FreshIds, mode = "memory", Orderly, [Next]_vars, "number" \notin lost'
    PROVE  Onward
<1>1. CASE BNext /\ UNCHANGED cVars
  BY <1>1, OnwardBNext
<1>2. CASE Connect
  <2>1. UNCHANGED <<publisher, local, replay, sent, reorder>>
    BY <1>2 DEF Connect, Register
  <2>2. Received' \subseteq Received
    BY <1>2, <2>1, ConnectOffers DEF Received
  <2>3. QED BY <2>1, <2>2, OnwardStill
<1>3. CASE Deliver
  <2>0. expected \in Nat
    BY PastNumbers
  <2>1. PICK e \in Events :
            /\ e \in ToSet(queue) /\ ToSet(queue) = ToSet(queue') \cup {e}
            /\ HandleEvent(e)
            /\ UNCHANGED <<local, publisher, replay, sent>>
    BY <1>3, DeliverFacts
  <2>2. reorder' \subseteq reorder \cup {e}
    BY <2>0, <2>1, HandleCases DEF Ignore, Defer
  <2>3. Received' \subseteq Received
    BY <2>1, <2>2 DEF Received
  <2>4. QED BY <2>1, <2>3, OnwardStill
<1>4. CASE SaveId \/ SaveNumber \/ \E k \in 1..Len(recoveries) : RecoverFromGap(k)
  <2>1. UNCHANGED <<publisher, local, replay, sent, queue>>
    BY <1>4
       DEF SaveId, SaveNumber, RecoverFromGap, AnswerLastState, RemoveId, RemoveNumber,
           Reconcile, Unbroadcast
  <2>2. reorder' \subseteq reorder
    BY <1>4
       DEF SaveId, SaveNumber, Drain, RecoverFromGap, AnswerLastState, RemoveId,
           RemoveNumber, Reconcile
  <2>3. Received' \subseteq Received
    BY <2>1, <2>2 DEF Received
  <2>4. QED BY <2>1, <2>3, OnwardStill
<1>5. CASE Disconnect \/ PauseAndResume \/ Restart
  <2>1. /\ UNCHANGED <<publisher, local, replay, sent>>
        /\ queue' = << >> /\ reorder' \subseteq reorder
    BY <1>5 DEF Disconnect, PauseAndResume, Restart, Unregister
  <2>2. Received' \subseteq Received
    BY <2>1 DEF Received, ToSet
  <2>3. QED BY <2>1, <2>2, OnwardStill
<1>6. CASE UNCHANGED vars
  <2>1. UNCHANGED <<publisher, local, replay, sent, queue, reorder>>
    BY <1>6 DEF vars, bVars, cVars
  <2>2. QED BY <2>1, OnwardStill DEF Received
<1>7. QED BY <1>1, <1>2, <1>3, <1>4, <1>5, <1>6 DEF Next

LEMMA StallNext ==
    ASSUME Typed, FreshIds, mode = "memory", Orderly, Onward, StallKept,
           SavedBehind, [Next]_vars, "torn" \notin lost'
    PROVE  StallKept'
<1> USE PastNumbers
<1>1. CASE Restart
  <2>1. /\ expected' = savedSeq /\ last' = savedId /\ current' = savedId
        /\ queue' = << >> /\ recoveries' = << >>
        /\ savedSeq # 0 => Past(savedSeq, savedId)
    BY <1>1 DEF Restart, SavedBehind
  <2>2. CASE savedSeq = 0
    BY <2>1, <2>2 DEF StallKept, Stalled
  <2>3. CASE savedSeq # 0
    <3>1. ToSet(queue') = {} /\ Len(<< >>) = 0
      BY <2>1 DEF ToSet
    <3>2. QED BY <2>1, <2>3, <3>1, StallOn
  <2>4. QED BY <2>2, <2>3
<1>2. CASE ~Restart /\ Stalled
  <2> USE DEF Stalled, StallKept
  <2>0. PICK n \in Nat : n = expected /\ n # 0
    BY <1>2
  <2>1. Past(n, last) /\ Past(n, current)
        /\ \A e \in ToSet(queue) : e.seq # n /\ e.id \in Nat /\ Past(n, e.id)
    BY <1>2, <2>0 DEF Received
  <2>r. \A k \in 1..Len(recoveries) :
            \/ recoveries[k].position = 0
            \/ \E x \in Nat : x = recoveries[k].position /\ Past(n, x)
    BY <1>2, <2>0
  <2>2. ASSUME UNCHANGED <<expected, current, recoveries>>, last' \in {last, current},
               ToSet(queue') \subseteq ToSet(queue)
        PROVE  StallKept'
    BY <2>0, <2>1, <2>r, <2>2, StallOn
  <2>3. CASE BNext /\ UNCHANGED cVars
    <3>0. UNCHANGED <<expected, current, last, reorder, recoveries>>
      BY <2>3 DEF cVars
    <3>2. CASE UNCHANGED queue
      BY <2>2, <3>0, <3>2
    <3>1. ASSUME NEW p \in Publishers, Fanout(p)
          PROVE  StallKept'
      <4>1. PICK e \in Announced :
                /\ ToSet(queue') \subseteq ToSet(queue) \cup {e}
                /\ UNCHANGED queue \/ ToSet(After(replay', e.id)) \subseteq {e}
        BY <3>0, <3>1, OnwardFanout
      <4> SUFFICES ASSUME ToSet(After(replay', e.id)) \subseteq {e} PROVE StallKept'
        BY <3>2, <4>1
      <4>2. e.seq # n /\ e.id \in Nat /\ e.id # 0
        <5>1. e \in Events
          BY PublisherFacts DEF Typed, Announced, Announcing
        <5>2. e.id \in 1..MaxEvents
          BY <5>1 DEF Events
        <5>3. QED BY <2>1, <5>2, Bounds DEF Past
      <4>3. Past(n, last)' /\ Past(n, current)'
        <5>1. PICK x \in Nat, y \in Nat : x = last /\ y = current
          OBVIOUS
        <5>2. Past(n, x)' /\ Past(n, y)'
          BY <2>0, <2>1, <5>1, OnwardPast
        <5>3. QED BY <3>0, <5>1, <5>2 DEF Past
      <4>4. Past(n, e.id)'
        BY <4>2, <4>3 DEF Past
      <4>5. ASSUME NEW f \in ToSet(queue') PROVE f.seq # n /\ Past(n, f.id)'
        <5>1. CASE f = e
          BY <4>2, <4>4, <5>1
        <5>2. CASE f \in ToSet(queue)
          <6>1. PICK z \in Nat : z = f.id /\ Past(n, z)
            BY <2>1, <5>2
          <6>2. Past(n, z)'
            BY <2>0, <6>1, OnwardPast
          <6>3. QED BY <2>1, <5>2, <6>1, <6>2
        <5>3. QED BY <4>1, <5>1, <5>2
      <4>6. ASSUME NEW k \in 1..Len(recoveries'), recoveries'[k].position # 0
            PROVE  Past(n, recoveries[k].position)'
        <5>1. PICK z \in Nat : z = recoveries'[k].position /\ Past(n, z)
          BY <2>r, <3>0, <4>6
        <5>2. Past(n, z)'
          BY <2>0, <5>1, OnwardPast
        <5>3. QED BY <5>1, <5>2 DEF Past
      <4>7. QED BY <2>0, <3>0, <4>3, <4>5, <4>6 DEF Past
    <3>3. \A e \in wire : ~Receive(e)
      BY DEF FreshIds
    <3>4. QED
      BY <2>3, <3>1, <3>2, <3>3
         DEF BNext, Publish, Count, RejectOversized, Store, ListenerFails,
             ListenerRecovers, Degrade, PruneInactive
  <2>4. CASE Connect
    <3>1. UNCHANGED <<expected, current, last, replay, recoveries>>
      BY <2>4 DEF Connect, Register
    <3>2. ASSUME NEW e \in ToSet(queue')
          PROVE  e.seq # n /\ e.id \in Nat /\ Past(n, e.id)
      <4>1. e \in ToSet(After(replay, last)) /\ e \in Received
        BY <2>4, <3>2, ConnectOffers DEF Received
      <4>2. replay \in Seq(Events) /\ Once(replay) /\ last # 0
        BY <2>1 DEF Typed, BTyped, Orderly, Past
      <4>3. ToSet(After(replay, e.id)) \subseteq ToSet(After(replay, last))
        BY <4>1, <4>2, AfterLater
      <4>4. QED BY <2>1, <4>1, <4>3 DEF Past
    <3>3. QED BY <2>0, <2>1, <2>r, <3>1, <3>2, StallOn
  <2>5. CASE Deliver
    <3>1. PICK e \in Events : /\ e \in ToSet(queue)
                              /\ ToSet(queue) = ToSet(queue') \cup {e}
                              /\ HandleEvent(e)
      BY <2>5, DeliverFacts
    <3>2. last' = e.id
      BY <3>1 DEF HandleEvent
    <3>3. /\ UNCHANGED <<expected, current>>
          /\ \/ UNCHANGED recoveries
             \/ recoveries' = Append(recoveries, [at |-> "asked", position |-> 0])
      BY <1>2, <2>5, StalledDelivery
    <3>4. \A k \in 1..Len(recoveries') :
              recoveries'[k].position = 0
              \/ (k \in 1..Len(recoveries) /\ recoveries'[k] = recoveries[k])
      <4>1. CASE UNCHANGED recoveries
        BY <4>1
      <4>2. CASE recoveries' = Append(recoveries, [at |-> "asked", position |-> 0])
        <5>a. [at |-> "asked", position |-> 0] \in Recoveries
          BY PositionBounds DEF Recoveries
        <5> PICK r \in Recoveries : r = [at |-> "asked", position |-> 0] /\ r.position = 0
          BY <5>a
        <5>1. recoveries \in Seq(Recoveries) /\ recoveries' = Append(recoveries, r)
          BY <4>2 DEF Typed, CTyped
        <5>2. /\ Len(recoveries') = Len(recoveries) + 1 /\ Len(recoveries) \in Nat
              /\ recoveries'[Len(recoveries) + 1] = r
              /\ \A k \in 1..Len(recoveries) : recoveries'[k] = recoveries[k]
          BY <5>1, AppendFacts
        <5>3. QED BY <5>2
      <4>3. QED BY <3>3, <4>1, <4>2
    <3>5. QED BY <2>0, <2>1, <2>r, <3>1, <3>2, <3>3, <3>4, StallOn
  <2>6. ASSUME NEW k \in 1..Len(recoveries), RecoverFromGap(k)
        PROVE  StallKept'
    <3>1. /\ UNCHANGED <<expected, last, queue, replay>>
          /\ recoveries \in Seq(Recoveries)
      BY <2>6
         DEF RecoverFromGap, AnswerLastState, RemoveId, RemoveNumber, Reconcile,
             Unbroadcast, Typed, CTyped
    <3>2. \E x \in Nat : x = current' /\ Past(n, x)
      <4>1. current' = current \/ (recoveries[k].position # 0
                                   /\ current' = recoveries[k].position)
        BY <2>6
           DEF RecoverFromGap, AnswerLastState, RemoveId, RemoveNumber, Reconcile
      <4>2. QED BY <2>1, <2>r, <4>1
    <3>3. ASSUME NEW position \in Newests, position # 0
          PROVE  position \in Nat /\ Past(n, position)
      <4>1. PICK f \in Events : f = replay[Len(replay)] /\ f.id = position
        BY <3>3 DEF Newests, Typed, BTyped
      <4>2. f.id \in Nat /\ f.id # 0
        <5>1. f.id \in 1..MaxEvents
          BY DEF Events
        <5>2. QED BY <5>1, Bounds
      <4>3. PICK l \in Nat : l = Len(replay) /\ l \in 1..l
        BY <3>3 DEF Newests, Typed, BTyped
      <4>4. ToSet(After(replay, f.id)) = {}
        <5>1. replay \in Seq(Events) /\ Once(replay)
          BY DEF Typed, BTyped, Orderly
        <5>2. ASSUME NEW g \in ToSet(After(replay, f.id)) PROVE FALSE
          <6>1. PICK j \in 1..l : replay[j] = g
            BY <4>2, <4>3, <5>1, <5>2, AfterOnce, Elements
          <6>a. \A i, m \in 1..Len(replay) :
                    replay[i].id = f.id /\ replay[m].id = g.id => i < m
            BY <4>2, <5>1, <5>2, AfterOnce
          <6>b. replay[l].id = f.id /\ replay[j].id = g.id /\ l \in 1..Len(replay)
            BY <4>1, <4>3, <6>1
          <6>2. l < j
            BY <4>3, <6>1, <6>a, <6>b
          <6>3. QED BY <6>2
        <5>3. QED BY <5>2
      <4>5. Past(n, f.id)
        BY <2>1, <4>2, <4>4 DEF Past
      <4>6. QED BY <4>1, <4>2, <4>5
    <3>4. ASSUME NEW j \in 1..Len(recoveries')
          PROVE  \/ recoveries'[j].position = 0
                 \/ \E x \in Nat : x = recoveries'[j].position /\ Past(n, x)
      <4>1. CASE Without(k)
        <5>1. PICK i \in 1..Len(recoveries) : recoveries'[j] = recoveries[i]
          BY <3>1, <4>1, RemoveAtFacts DEF Without
        <5>2. QED BY <2>r, <5>1
      <4>2. ASSUME NEW position \in Newests,
                   recoveries' = [recoveries EXCEPT ![k] =
                                      [at |-> "answered", position |-> position]]
            PROVE  \/ recoveries'[j].position = 0
                   \/ \E x \in Nat : x = recoveries'[j].position /\ Past(n, x)
        <5>1. j \in 1..Len(recoveries)
              /\ (j # k => recoveries'[j] = recoveries[j])
              /\ (j = k => recoveries'[j].position = position)
          BY <3>1, <4>2
        <5>2. QED BY <2>r, <3>3, <5>1
      <4>3. ASSUME NEW at, Stage(k, at)
            PROVE  j \in 1..Len(recoveries) /\ recoveries'[j].position = recoveries[j].position
        <5>1. recoveries[k] \in Recoveries /\ j \in 1..Len(recoveries)
          BY <3>1, <4>3 DEF Stage
        <5> PICK r : r = [recoveries[k] EXCEPT !.at = at]
          OBVIOUS
        <5>2. r.position = recoveries[k].position
          BY <5>1 DEF Recoveries
        <5>3. recoveries' = [recoveries EXCEPT ![k] = r]
          BY <4>3 DEF Stage
        <5>4. QED BY <3>1, <5>1, <5>2, <5>3
      <4>4. QED
        BY <2>6, <2>r, <4>1, <4>2, <4>3
           DEF RecoverFromGap, AnswerLastState, RemoveId, RemoveNumber, Reconcile
    <3>5. QED BY <2>0, <2>1, <3>1, <3>2, <3>4, StallOn
  <2>7. CASE Disconnect \/ PauseAndResume
    <3>1. /\ UNCHANGED <<expected, current, recoveries>> /\ last' \in {last, current}
          /\ queue' = << >>
      BY <2>7 DEF Disconnect, PauseAndResume, Unregister
    <3>2. ToSet(queue') = {}
      BY <3>1 DEF ToSet
    <3>3. QED BY <2>2, <3>1, <3>2
  <2>8. CASE UNCHANGED vars
    BY <2>2, <2>8 DEF vars, bVars, cVars
  <2>9. CASE SaveId
    <3>1. UNCHANGED <<expected, current, recoveries, last, queue>>
      BY <2>9 DEF SaveId, Unbroadcast
    <3>2. QED BY <2>2, <3>1
  <2>10. ~SaveNumber
    BY <1>2, SaveNumberFacts DEF Typed, CTyped
  <2>11. QED BY <1>2, <2>3, <2>4, <2>5, <2>6, <2>7, <2>8, <2>9, <2>10 DEF Next
<1>3. CASE ~Restart /\ ~Stalled
  <2>1. ~Stalled'
    <3>1. ASSUME NEW e \in Events, NEW others, Apply(e, others), e.seq \in Nat
          PROVE  ~Stalled'
      <4>1. applied' = Append(applied, e.seq) /\ applied \in Seq(Nat)
        BY <3>1 DEF Apply, Typed, CTyped
      <4>2. QED BY <3>1, <4>1 DEF Stalled
    <3>2. CASE UNCHANGED <<expected, applied>>
      BY <1>3, <3>2 DEF Stalled
    <3>3. QED BY <1>3, <3>1, <3>2, TimelineSteps
  <2>2. QED BY <2>1 DEF StallKept
<1>4. QED BY <1>1, <1>2, <1>3

(* The code keeps the number of the last event and expects it again; its      *)
(* successors all come with a number above.  Nothing in the protocol repairs  *)
(* this: a recovery leaves the number expected as it is.                      *)
THEOREM StallLastsHolds == Spec => StallLasts
<1> DEFINE Inv == Typed /\ FreshIds /\ Behind
           Step == mode = "memory" /\ lost' \cap {"number", "torn"} = {} /\ Stalled
                   => applied' = << >>
<1>1. Init => Inv
  <2> SUFFICES ASSUME Init PROVE Inv
    OBVIOUS
  <2>1. Typed
    BY InitTyped
  <2>2. /\ wire = {} /\ replay = << >> /\ queue = << >> /\ reorder = {}
        /\ publisher = [p \in Publishers |-> Quiet]
        /\ savedSeq = 0 /\ expected = 0 /\ saving = << >> /\ Len(<< >>) = 0
    BY DEF Init, BInit
  <2>3. FreshIds
    BY <2>2, QuietRecord DEF FreshIds
  <2>4. Announced = {} /\ Received = {}
    BY <2>2, QuietRecord DEF Announced, Announcing, Received, ToSet
  <2>5. Orderly
    BY <2>2, <2>4 DEF Orderly, OwnNumbers, Once, ReceivedSent
  <2>6. Behind
    BY <2>2, <2>5 DEF Behind, StallKept, Stalled, SavingBehind, InTurn, AllPast, SavedBehind
  <2>7. QED BY <2>1, <2>3, <2>6
<1>2. Inv /\ [Next]_vars => Inv' /\ [Step]_vars
  <2> SUFFICES ASSUME Inv, [Next]_vars PROVE Inv' /\ Step
    OBVIOUS
  <2>1. Typed' /\ Moves /\ FreshIds'
    BY NextTyped, FreshNext
  <2>2. mode' = mode /\ lost \subseteq lost'
    BY <2>1 DEF Moves
  <2>3. ASSUME mode = "memory", lost' \cap {"number", "torn"} = {}
        PROVE  /\ Orderly' /\ SavingBehind' /\ SavedBehind' /\ StallKept'
               /\ Stalled => applied' = << >>
    <3>1. Orderly /\ SavingBehind /\ SavedBehind /\ StallKept
      BY <2>2, <2>3 DEF Behind
    <3>2. "number" \notin lost' /\ "torn" \notin lost'
      BY <2>3
    <3>3. Onward
      BY <2>3, <3>1, <3>2, OnwardNext
    <3>4. QED
      BY <2>3, <3>1, <3>2, <3>3, OnwardOrderly, SavesNext, StallNext, StallByStep
  <2>4. QED BY <2>1, <2>2, <2>3 DEF Behind
<1> HIDE DEF Inv
<1>3. QED BY <1>1, <1>2, PTL DEF Spec, StallLasts
=============================================================================
