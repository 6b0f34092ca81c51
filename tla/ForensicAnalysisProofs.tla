----------------------- MODULE ForensicAnalysisProofs ------------------------
(* The throttles of the forensic calls, for any number of tasks and of        *)
(* documents and for every limit, period and time.                            *)
EXTENDS ForensicAnalysis, FiniteSetTheorems, TLAPS

-----------------------------------------------------------------------------
Pending == {t \in Tasks : task[t].pc \in {"upload", "limiter", "limited", "generate"}}
CallsFrom(start) == {i \in 1..Len(called) : start <= called[i]}
GrantsFrom(start) == {i \in 1..Len(granted) : start <= granted[i]}

(* A task that looks for its next document has one.                           *)
MoreLeft == \A t \in Tasks : At(t, "next") => task[t].left > 0

(* The semaphore.                                                             *)
FewHold == IsFiniteSet(Holders) /\ Cardinality(Holders) <= MaxConcurrent

(* Grants are in order, and neither they nor calls lie ahead.                 *)
TimesPassed ==
    /\ \A i, k \in 1..Len(granted) : i <= k => granted[i] <= granted[k]
    /\ \A i \in 1..Len(granted) : granted[i] <= now
    /\ \A i \in 1..Len(called) : called[i] <= now

(* In a period that is not over yet, what was called and may still be called  *)
(* was granted in it, or held back from before it by the semaphore.           *)
CallsBacked ==
    \A start \in 0..now : now < start + Period =>
        Cardinality(CallsFrom(start)) + Cardinality(Pending)
            <= MaxConcurrent + Cardinality(GrantsFrom(start))

IInv == TypeOK /\ MoreLeft /\ FewHold /\ TimesPassed /\ CallsBacked /\ CallsBounded

LEMMA Limits ==
    /\ MaxConcurrent \in Nat /\ MaxConcurrent > 0
    /\ MaxCalls \in Nat /\ MaxCalls > 0
    /\ LimiterCalls \in Nat /\ LimiterCalls > 0
    /\ Period \in Nat /\ Period > 0
    /\ CacheTTL \in Nat /\ MaxFiles \in Nat /\ MaxFiles > 0
    /\ MaxAnalyses \in Nat
BY ForensicAssumption DEF ForensicAssumption

-----------------------------------------------------------------------------
(* Sets of places in a list.                                                  *)
LEMMA PlacesAreFinite ==
    ASSUME NEW n \in Nat, NEW S, S \subseteq 1..n
    PROVE  IsFiniteSet(S) /\ Cardinality(S) \in Nat /\ Cardinality(S) <= n
<1>1. IsFiniteSet(1..n) /\ Cardinality(1..n) = n
  <2>1. /\ IsFiniteSet(1..n)
        /\ Cardinality(1..n) = (IF 1 > n THEN 0 ELSE n - 1 + 1)
    BY FS_Interval
  <2>2. QED BY <2>1
<1>2. IsFiniteSet(S) /\ Cardinality(S) <= Cardinality(1..n)
  BY <1>1, FS_Subset
<1>3. QED BY <1>1, <1>2, FS_CardinalityType

(* What is left of a list of times when the old ones are dropped.             *)
LEMMA RecentFacts ==
    ASSUME NEW times \in Seq(Nat), now \in Nat
    PROVE  \E n \in 0..Len(times) :
               /\ n = Cardinality({i \in 1..Len(times) : times[i] <= now - Period})
               /\ Recent(times) \in Seq(Nat)
               /\ Len(Recent(times)) = Len(times) - n
               /\ \A j \in 1..(Len(times) - n) : Recent(times)[j] = times[n + j]
<1> DEFINE n == Cardinality({i \in 1..Len(times) : times[i] <= now - Period})
<1>1. n \in 0..Len(times)
  <2>1. Len(times) \in Nat
    OBVIOUS
  <2>2. n \in Nat /\ n <= Len(times)
    BY <2>1, PlacesAreFinite
  <2>3. QED BY <2>1, <2>2
<1>2. Recent(times) = SubSeq(times, n + 1, Len(times))
  BY DEF Recent
<1> HIDE DEF n
<1>3. /\ SubSeq(times, n + 1, Len(times)) \in Seq(Nat)
      /\ Len(SubSeq(times, n + 1, Len(times))) = Len(times) - n
      /\ \A j \in 1..(Len(times) - n) : SubSeq(times, n + 1, Len(times))[j] = times[n + j]
  BY <1>1
<1>4. QED BY <1>1, <1>2, <1>3 DEF n

(* Every grant since a time of the period keeps a place.                      *)
LEMMA RecentKeeps ==
    ASSUME TypeOK, TimesPassed, NEW start \in Nat, now < start + Period
    PROVE  LET kept == {j \in 1..Len(Recent(granted)) : start <= Recent(granted)[j]} IN
           Cardinality(GrantsFrom(start)) <= Cardinality(kept)
<1> DEFINE kept == {j \in 1..Len(Recent(granted)) : start <= Recent(granted)[j]}
           old == {i \in 1..Len(granted) : granted[i] <= now - Period}
<1>0. granted \in Seq(Nat) /\ now \in Nat /\ Len(granted) \in Nat
  BY DEF TypeOK
<1>1. PICK n \in 0..Len(granted) :
               /\ n = Cardinality(old)
               /\ Recent(granted) \in Seq(Nat)
               /\ Len(Recent(granted)) = Len(granted) - n
               /\ \A j \in 1..(Len(granted) - n) : Recent(granted)[j] = granted[n + j]
  BY <1>0, RecentFacts
<1>2. ASSUME NEW i \in GrantsFrom(start)
      PROVE  i \in 1..Len(granted) /\ i > n /\ i - n \in kept
  <2>1. i \in 1..Len(granted) /\ start <= granted[i] /\ granted[i] \in Nat
    BY <1>0 DEF GrantsFrom
  <2>2. old \subseteq 1..(i - 1)
    <3> SUFFICES ASSUME NEW k \in old PROVE k \in 1..(i - 1)
      OBVIOUS
    <3>1. k \in 1..Len(granted) /\ granted[k] <= now - Period /\ granted[k] \in Nat
      BY <1>0
    <3>2. ~(i <= k)
      <4>1. granted[k] < granted[i]
        BY <1>0, <2>1, <3>1, Limits
      <4>2. i <= k => granted[i] <= granted[k]
        BY <2>1, <3>1 DEF TimesPassed
      <4>3. QED BY <2>1, <3>1, <4>1, <4>2
    <3>3. QED BY <2>1, <3>1, <3>2
  <2>3. n <= i - 1
    <3>1. i - 1 \in Nat
      BY <2>1
    <3>2. Cardinality(old) <= i - 1
      BY <2>2, <3>1, PlacesAreFinite
    <3>3. QED BY <1>1, <3>2
  <2>4. i - n \in 1..(Len(granted) - n) /\ n + (i - n) = i
    BY <1>0, <1>1, <2>1, <2>3
  <2>5. i - n \in kept
    BY <1>1, <2>1, <2>4
  <2>6. QED BY <2>1, <2>3, <2>5
<1> HIDE DEF kept, old
<1>3. DEFINE shift == [i \in GrantsFrom(start) |-> i - n]
<1>4. shift \in Injection(GrantsFrom(start), kept)
  <2>1. shift \in [GrantsFrom(start) -> kept]
    BY <1>2
  <2>2. \A i, k \in GrantsFrom(start) : shift[i] = shift[k] => i = k
    BY <1>1, <1>2
  <2> HIDE DEF shift
  <2>3. QED BY <2>1, <2>2 DEF Injection, IsInjective
<1>5. IsFiniteSet(kept)
  <2>1. Len(Recent(granted)) \in Nat /\ kept \subseteq 1..Len(Recent(granted))
    BY <1>1 DEF kept
  <2>2. QED BY <2>1, PlacesAreFinite
<1> HIDE DEF shift
<1>6. Cardinality(GrantsFrom(start)) <= Cardinality(kept)
  BY <1>4, <1>5, FS_Injection
<1>7. QED BY <1>6 DEF kept

-----------------------------------------------------------------------------
(* Who holds the semaphore, and who is still to call, after a task has moved. *)
LEMMA TaskMoves ==
    ASSUME task \in [Tasks -> [pc : Points, file : Files \cup {None},
                               left : 0..MaxFiles, until : Nat]],
           NEW t \in Tasks, NEW x, task' = [task EXCEPT ![t] = x]
    PROVE  /\ Holders' = IF x.pc \in Points \ {"idle", "next", "acquire"}
                         THEN Holders \cup {t} ELSE Holders \ {t}
           /\ Pending' = IF x.pc \in {"upload", "limiter", "limited", "generate"}
                         THEN Pending \cup {t} ELSE Pending \ {t}
           /\ task'[t] = x /\ \A u \in Tasks \ {t} : task'[u] = task[u]
BY DEF Holders, Pending

LEMMA PendingHold == FewHold => /\ IsFiniteSet(Pending) /\ Cardinality(Pending) \in Nat
                                /\ Cardinality(Pending) <= Cardinality(Holders)
                                /\ Cardinality(Holders) \in Nat
<1> SUFFICES ASSUME FewHold
             PROVE  /\ IsFiniteSet(Pending) /\ Cardinality(Pending) \in Nat
                    /\ Cardinality(Pending) <= Cardinality(Holders)
                    /\ Cardinality(Holders) \in Nat
  OBVIOUS
<1>1. Pending \subseteq Holders
  BY DEF Pending, Holders, Points
<1>2. QED BY <1>1, FS_Subset, FS_CardinalityType DEF FewHold

LEMMA CountsAreNatural ==
    ASSUME TypeOK, NEW start
    PROVE  /\ Cardinality(CallsFrom(start)) \in Nat
           /\ Cardinality(GrantsFrom(start)) \in Nat
           /\ Cardinality(GrantsFrom(start)) <= MaxCalls
<1>1. Len(called) \in Nat /\ Len(granted) \in Nat /\ Len(granted) <= MaxCalls
  BY DEF TypeOK
<1>2. CallsFrom(start) \subseteq 1..Len(called) /\ GrantsFrom(start) \subseteq 1..Len(granted)
  BY DEF CallsFrom, GrantsFrom
<1>3. QED BY <1>1, <1>2, PlacesAreFinite, Limits

-----------------------------------------------------------------------------
(* A step of a task that touches neither list of times and lets no one pass   *)
(* towards a call keeps all that is claimed of the lists.                     *)
LEMMA NoNewCall ==
    ASSUME IInv, FewHold', IsFiniteSet(Pending), Pending' \subseteq Pending,
           UNCHANGED <<now, granted, called>>
    PROVE  TimesPassed' /\ CallsBacked' /\ CallsBounded'
<1>1. TimesPassed'
  BY DEF IInv, TimesPassed
<1>2. CallsBounded'
  BY DEF IInv, CallsBounded
<1>3. CallsBacked'
  <2> SUFFICES ASSUME NEW start \in 0..now, now < start + Period
               PROVE  Cardinality(CallsFrom(start)') + Cardinality(Pending')
                          <= MaxConcurrent + Cardinality(GrantsFrom(start)')
    BY DEF CallsBacked
  <2>1. CallsFrom(start)' = CallsFrom(start) /\ GrantsFrom(start)' = GrantsFrom(start)
    BY DEF CallsFrom, GrantsFrom
  <2>2. Cardinality(Pending') <= Cardinality(Pending) /\ Cardinality(Pending') \in Nat
        /\ Cardinality(Pending) \in Nat
    BY FS_Subset, FS_CardinalityType
  <2>3. Cardinality(CallsFrom(start)) + Cardinality(Pending)
            <= MaxConcurrent + Cardinality(GrantsFrom(start))
    BY DEF IInv, CallsBacked
  <2>4. QED BY <2>1, <2>2, <2>3, CountsAreNatural, Limits DEF IInv
<1>4. QED BY <1>1, <1>2, <1>3

(* The semaphore is only given up, or taken when there is a place.            *)
LEMMA SemaphoreKept ==
    ASSUME FewHold, NEW t \in Tasks,
           \/ Holders' = Holders
           \/ Holders' = Holders \ {t}
           \/ Holders' = Holders \cup {t} /\ Cardinality(Holders) < MaxConcurrent
    PROVE  FewHold'
<1>1. Cardinality(Holders) \in Nat
  BY FS_CardinalityType DEF FewHold
<1>2. CASE Holders' = Holders
  BY <1>2 DEF FewHold
<1>3. CASE Holders' = Holders \ {t}
  <2>1. /\ IsFiniteSet(Holders \ {t})
        /\ Cardinality(Holders \ {t}) = IF t \in Holders THEN Cardinality(Holders) - 1
                                                        ELSE Cardinality(Holders)
    BY FS_RemoveElement DEF FewHold
  <2>2. QED BY <1>1, <1>3, <2>1, Limits DEF FewHold
<1>4. CASE Holders' = Holders \cup {t} /\ Cardinality(Holders) < MaxConcurrent
  <2>1. /\ IsFiniteSet(Holders \cup {t})
        /\ Cardinality(Holders \cup {t}) = IF t \in Holders THEN Cardinality(Holders)
                                                         ELSE Cardinality(Holders) + 1
    BY FS_AddElement DEF FewHold
  <2>2. QED BY <1>1, <1>4, <2>1, Limits DEF FewHold
<1>5. QED BY <1>2, <1>3, <1>4

TaskRecords == [pc : Points, file : Files \cup {None}, left : 0..MaxFiles, until : Nat]

LEMMA InitInv == Init => IInv
<1> SUFFICES ASSUME Init PROVE IInv
  OBVIOUS
<1>1. TypeOK
  BY Limits DEF Init, TypeOK, Idle, Points
<1>2. MoreLeft
  BY DEF Init, MoreLeft, At, Idle
<1>3. Holders = {} /\ Pending = {}
  BY DEF Init, Holders, Pending, Idle
<1>4. FewHold
  BY <1>3, FS_EmptySet, Limits DEF FewHold
<1>5. TimesPassed
  BY DEF Init, TimesPassed
<1>6. CallsBacked
  <2> SUFFICES ASSUME NEW start \in 0..now
               PROVE  Cardinality(CallsFrom(start)) + Cardinality(Pending)
                          <= MaxConcurrent + Cardinality(GrantsFrom(start))
    BY DEF CallsBacked
  <2>1. CallsFrom(start) = {}
    BY DEF Init, CallsFrom
  <2>2. Cardinality(CallsFrom(start)) = 0 /\ Cardinality(Pending) = 0
    BY <1>3, <2>1, FS_EmptySet
  <2>3. QED BY <1>1, <2>2, CountsAreNatural, Limits
<1>7. CallsBounded
  <2> SUFFICES ASSUME NEW start \in 0..now
               PROVE  Cardinality({i \in 1..Len(called) :
                          start <= called[i] /\ called[i] < start + Period})
                              <= MaxCalls + MaxConcurrent
    BY DEF CallsBounded
  <2>1. {i \in 1..Len(called) : start <= called[i] /\ called[i] < start + Period} = {}
    BY DEF Init
  <2>2. QED BY <2>1, FS_EmptySet, Limits
<1>8. QED BY <1>1, <1>2, <1>4, <1>5, <1>6, <1>7 DEF IInv

-----------------------------------------------------------------------------
(* The steps of a task that make no call and are granted none.                *)
Moved(t, x) ==
    /\ task' = [task EXCEPT ![t] = x]
    /\ x \in TaskRecords
    /\ x.pc = "next" => x.left > 0

LEMMA MovedTypes ==
    ASSUME IInv, NEW t \in Tasks, NEW x, Moved(t, x)
    PROVE  task' \in [Tasks -> TaskRecords] /\ MoreLeft'
<1>1. task \in [Tasks -> TaskRecords]
  BY DEF IInv, TypeOK, TaskRecords
<1>2. task' \in [Tasks -> TaskRecords]
  BY <1>1 DEF Moved
<1>3. ASSUME NEW u \in Tasks, task'[u].pc = "next" PROVE task'[u].left > 0
  BY <1>1, <1>3 DEF Moved, IInv, MoreLeft, At
<1>4. QED BY <1>2, <1>3 DEF MoreLeft, At

(* The document of a task is answered.                                        *)
LEMMA AnswersMoves ==
    ASSUME IInv, NEW t \in Tasks, Answers(t)
    PROVE  \E x : Moved(t, x) /\ x.pc \in {"idle", "next"}
<1> DEFINE left == task[t].left
           pc == IF left = 0 THEN "idle" ELSE "next"
           x == [Idle EXCEPT !.left = left, !.pc = pc]
<1>1. left \in 0..MaxFiles
  BY DEF IInv, TypeOK
<1>2. pc \in {"idle", "next"} /\ (pc = "next" => left > 0)
  BY <1>1
<1>3. task' = [task EXCEPT ![t] = x]
  BY DEF Answers
<1> HIDE DEF left, pc
<1>4. x \in TaskRecords /\ x.left = left /\ x.pc = pc
  BY <1>1, <1>2 DEF Idle, TaskRecords, Points
<1> HIDE DEF x
<1>5. Moved(t, x) /\ x.pc \in {"idle", "next"}
  BY <1>2, <1>3, <1>4 DEF Moved
<1>6. QED BY <1>5

(* A task goes on, after a sleep or not, with its document.                   *)
LEMMA GoesMoves ==
    ASSUME IInv, NEW t \in Tasks, NEW pc \in Points \ {"idle", "next"}, NEW time \in Nat,
           Goes(t, pc) \/ SleepsUntil(t, pc, time)
    PROVE  \E x : Moved(t, x) /\ x.pc = pc
<1>1. task \in [Tasks -> TaskRecords] /\ task[t] \in TaskRecords
  BY DEF IInv, TypeOK, TaskRecords
<1>2. CASE Goes(t, pc)
  <2>1. task' = [task EXCEPT ![t] = [task[t] EXCEPT !.pc = pc]]
    BY <1>2 DEF Goes
  <2>2. [task[t] EXCEPT !.pc = pc] \in TaskRecords /\ [task[t] EXCEPT !.pc = pc].pc = pc
    BY <1>1 DEF TaskRecords
  <2>3. Moved(t, [task[t] EXCEPT !.pc = pc])
    BY <2>1, <2>2 DEF Moved
  <2>4. QED BY <2>2, <2>3
<1>3. CASE SleepsUntil(t, pc, time)
  <2> DEFINE x == [task[t] EXCEPT !.pc = pc, !.until = time]
  <2>1. task' = [task EXCEPT ![t] = x]
    BY <1>1, <1>3 DEF SleepsUntil
  <2>2. x \in TaskRecords /\ x.pc = pc
    BY <1>1 DEF TaskRecords
  <2> HIDE DEF x
  <2>3. Moved(t, x)
    BY <2>1, <2>2 DEF Moved
  <2>4. QED BY <2>2, <2>3
<1>4. QED BY <1>2, <1>3

(* Such a step keeps the invariant if it lets no one pass towards a call, and *)
(* enters the semaphore only where there is a place.                          *)
LEMMA QuietMove ==
    ASSUME IInv, NEW t \in Tasks, NEW x, Moved(t, x), TypeOK',
           UNCHANGED <<now, granted, called>>,
           x.pc \in {"upload", "limiter", "limited", "generate"} => t \in Pending,
           x.pc \in {"capacity", "respond"} =>
               t \in Holders \/ Cardinality(Holders) < MaxConcurrent
    PROVE  IInv'
<1>1. task \in [Tasks -> [pc : Points, file : Files \cup {None},
                          left : 0..MaxFiles, until : Nat]]
  BY DEF IInv, TypeOK
<1>2. task' = [task EXCEPT ![t] = x] /\ x.pc \in Points
  BY DEF Moved, TaskRecords
<1>3. /\ Holders' = IF x.pc \in Points \ {"idle", "next", "acquire"}
                    THEN Holders \cup {t} ELSE Holders \ {t}
      /\ Pending' = IF x.pc \in {"upload", "limiter", "limited", "generate"}
                    THEN Pending \cup {t} ELSE Pending \ {t}
  BY <1>1, <1>2, TaskMoves
<1>4. Pending' \subseteq Pending
  BY <1>3
<1>5. t \in Pending => t \in Holders
  BY DEF Pending, Holders, Points
<1>6. \/ Holders' = Holders
      \/ Holders' = Holders \ {t}
      \/ Holders' = Holders \cup {t} /\ Cardinality(Holders) < MaxConcurrent
  BY <1>2, <1>3, <1>5 DEF Points
<1>7. FewHold'
  BY <1>6, SemaphoreKept DEF IInv
<1>8. TimesPassed' /\ CallsBacked' /\ CallsBounded'
  BY <1>4, <1>7, NoNewCall, PendingHold DEF IInv
<1>9. QED BY <1>7, <1>8, MovedTypes DEF IInv

-----------------------------------------------------------------------------
(* The steps, one by one.                                                     *)
LEMMA InvestigateKeeps ==
    ASSUME IInv, NEW t \in Tasks, NEW f \in Files, NEW n \in 1..MaxFiles,
           InvestigateDeed(t, f, n)
    PROVE  IInv'
<1> DEFINE left == (IF At(t, "idle") THEN n ELSE task[t].left) - 1
<1>1. left \in 0..MaxFiles
  <2>1. task[t].left \in 0..MaxFiles
    BY DEF IInv, TypeOK
  <2>2. task[t].pc = "next" => task[t].left > 0
    BY DEF IInv, MoreLeft, At
  <2>3. QED BY <2>1, <2>2, Limits DEF InvestigateDeed, At
<1>2. \E x : Moved(t, x) /\ x.pc \in {"idle", "next", "acquire"}
  <2>1. CASE Refused(f) \/ Cached(f)
    <3> HIDE DEF left
    <3> DEFINE pc == IF left = 0 THEN "idle" ELSE "next"
               x == [Idle EXCEPT !.left = left, !.pc = pc]
    <3>1. pc \in {"idle", "next"} /\ (pc = "next" => left > 0)
      BY <1>1
    <3>2. task' = [task EXCEPT ![t] = x]
      BY <2>1 DEF InvestigateDeed, left
    <3> HIDE DEF pc
    <3>3. x \in TaskRecords /\ x.left = left /\ x.pc = pc
      BY <1>1, <3>1 DEF Idle, TaskRecords, Points
    <3> HIDE DEF x
    <3>4. QED BY <3>1, <3>2, <3>3 DEF Moved
  <2>2. CASE ~(Refused(f) \/ Cached(f))
    <3> HIDE DEF left
    <3> DEFINE x == [Idle EXCEPT !.left = left, !.pc = "acquire", !.file = f]
    <3>1. task' = [task EXCEPT ![t] = x]
      BY <2>2 DEF InvestigateDeed, left
    <3>2. x \in TaskRecords /\ x.pc = "acquire"
      BY <1>1 DEF Idle, TaskRecords, Points
    <3> HIDE DEF x
    <3>3. QED BY <3>1, <3>2 DEF Moved
  <2>3. QED BY <2>1, <2>2
<1>3. PICK x : Moved(t, x) /\ x.pc \in {"idle", "next", "acquire"}
  BY <1>2
<1>4. TypeOK'
  <2>1. cache' \in [Files -> [report : Reports, expires : Nat] \cup {None}]
    BY DEF InvestigateDeed, IInv, TypeOK
  <2>2. analyses' \in 0..MaxAnalyses
    BY Limits DEF InvestigateDeed, IInv, TypeOK
  <2>3. task' \in [Tasks -> TaskRecords]
    BY <1>3, MovedTypes
  <2>4. QED BY <2>1, <2>2, <2>3 DEF InvestigateDeed, IInv, TypeOK, TaskRecords
<1>5. QED BY <1>3, <1>4, QuietMove DEF InvestigateDeed

LEMMA QuietStep ==
    ASSUME IInv, NEW t \in Tasks,
           Acquire(t) \/ UploadFile(t) \/ EnterLimiter(t) \/ LeaveLimiter(t) \/ Respond(t)
    PROVE  IInv'
<1>0. now \in Nat /\ limited \in Seq(Nat)
  BY DEF IInv, TypeOK
<1>1. CASE Acquire(t)
  <2>1. PICK x : Moved(t, x) /\ x.pc = "capacity"
    BY <1>1, GoesMoves DEF Acquire, Points
  <2>2. TypeOK'
    BY <1>1, <2>1, MovedTypes DEF Acquire, IInv, TypeOK, TaskRecords
  <2>3. QED BY <1>1, <2>1, <2>2, QuietMove DEF Acquire
<1>2. CASE UploadFile(t)
  <2>1. PICK x : Moved(t, x) /\ x.pc \in {"limiter", "idle", "next"}
    BY <1>2, GoesMoves, AnswersMoves DEF UploadFile, Points
  <2>2. TypeOK'
    BY <1>2, <2>1, MovedTypes DEF UploadFile, IInv, TypeOK, TaskRecords
  <2>3. t \in Pending
    BY <1>2 DEF UploadFile, At, Pending
  <2>4. QED BY <1>2, <2>1, <2>2, <2>3, QuietMove DEF UploadFile
<1>3. CASE EnterLimiter(t)
  <2>0. PICK n \in 0..Len(limited) :
            /\ Recent(limited) \in Seq(Nat)
            /\ Len(Recent(limited)) = Len(limited) - n
    BY <1>0, RecentFacts
  <2>1. /\ \E x : Moved(t, x) /\ x.pc \in {"limited", "generate"}
        /\ limited' \in Seq(Nat) /\ Len(limited') <= LimiterCalls
    <3>1. CASE Len(Recent(limited)) >= LimiterCalls
      <4>1. Head(Recent(limited)) + Period \in Nat
        BY <2>0, <3>1, Limits
      <4>2. \E x : Moved(t, x) /\ x.pc = "limited"
        BY <1>3, <3>1, <4>1, GoesMoves DEF EnterLimiter, Points
      <4>3. limited' = Recent(limited)
        BY <1>3, <3>1 DEF EnterLimiter
      <4>4. Len(limited) \in Nat /\ Len(limited) <= LimiterCalls
        BY DEF IInv, TypeOK
      <4>5. Len(limited') <= LimiterCalls
        BY <2>0, <4>3, <4>4, Limits
      <4>6. QED BY <2>0, <4>2, <4>3, <4>5
    <3>2. CASE ~(Len(Recent(limited)) >= LimiterCalls)
      <4>1. limited' = Append(Recent(limited), now) /\ Goes(t, "generate")
        BY <1>3, <3>2 DEF EnterLimiter
      <4>2. \E x : Moved(t, x) /\ x.pc = "generate"
        BY <4>1, GoesMoves DEF Points
      <4>3. limited' \in Seq(Nat) /\ Len(limited') <= LimiterCalls
        BY <1>0, <2>0, <3>2, <4>1, Limits
      <4>4. QED BY <4>2, <4>3
    <3>3. QED BY <3>1, <3>2
  <2>2. PICK x : Moved(t, x) /\ x.pc \in {"limited", "generate"}
    BY <2>1
  <2>3. TypeOK'
    BY <1>3, <2>1, <2>2, MovedTypes DEF EnterLimiter, IInv, TypeOK, TaskRecords
  <2>4. t \in Pending
    BY <1>3 DEF EnterLimiter, At, Pending
  <2>5. QED BY <1>3, <2>2, <2>3, <2>4, QuietMove DEF EnterLimiter
<1>4. CASE LeaveLimiter(t)
  <2>1. PICK x : Moved(t, x) /\ x.pc = "generate"
    BY <1>4, GoesMoves DEF LeaveLimiter, Points
  <2>2. limited' \in Seq(Nat) /\ Len(limited') <= LimiterCalls
    BY <1>0, <1>4, Limits DEF LeaveLimiter
  <2>3. TypeOK'
    BY <1>4, <2>1, <2>2, MovedTypes DEF LeaveLimiter, IInv, TypeOK, TaskRecords
  <2>4. t \in Pending
    BY <1>4 DEF LeaveLimiter, At, Pending
  <2>5. QED BY <1>4, <2>1, <2>3, <2>4, QuietMove DEF LeaveLimiter
<1>5. CASE Respond(t)
  <2>1. PICK x : Moved(t, x) /\ x.pc \in {"idle", "next"}
    BY <1>5, AnswersMoves DEF Respond
  <2>2. cache' \in [Files -> [report : Reports, expires : Nat] \cup {None}]
    <3>1. now + CacheTTL \in Nat
      BY <1>0, Limits
    <3>2. ASSUME NEW r \in Reports
          PROVE  [report |-> r, expires |-> now + CacheTTL]
                     \in [report : Reports, expires : Nat] \cup {None}
      BY <3>1
    <3>3. QED BY <1>5, <3>2 DEF Respond, IInv, TypeOK
  <2>3. TypeOK'
    BY <1>5, <2>1, <2>2, MovedTypes DEF Respond, IInv, TypeOK, TaskRecords
  <2>4. QED BY <1>5, <2>1, <2>3, QuietMove DEF Respond
<1>6. QED BY <1>1, <1>2, <1>3, <1>4, <1>5

-----------------------------------------------------------------------------
(* What is left of the grants is in order and passed; so it is with one more. *)
LEMMA RecentOrdered ==
    ASSUME TypeOK, TimesPassed,
           granted' = Recent(granted) \/ granted' = Append(Recent(granted), now),
           UNCHANGED <<now, called>>
    PROVE  TimesPassed' /\ granted' \in Seq(Nat)
<1>0. granted \in Seq(Nat) /\ now \in Nat /\ Len(granted) \in Nat
  BY DEF TypeOK
<1>1. PICK n \in 0..Len(granted) :
               /\ Recent(granted) \in Seq(Nat)
               /\ Len(Recent(granted)) = Len(granted) - n
               /\ \A j \in 1..(Len(granted) - n) : Recent(granted)[j] = granted[n + j]
  BY <1>0, RecentFacts
<1> DEFINE kept == Recent(granted)
<1>2. kept \in Seq(Nat) /\ Len(kept) \in Nat
  BY <1>1
<1>3. ASSUME NEW j \in 1..Len(kept)
      PROVE  n + j \in 1..Len(granted) /\ kept[j] = granted[n + j] /\ kept[j] <= now
  <2>1. j \in 1..(Len(granted) - n)
    BY <1>1
  <2>2. n + j \in 1..Len(granted)
    BY <1>0, <2>1
  <2>3. kept[j] = granted[n + j]
    BY <1>1, <2>1
  <2>4. QED BY <2>2, <2>3 DEF TimesPassed
<1>4. ASSUME NEW i \in 1..Len(kept), NEW k \in 1..Len(kept), i <= k
      PROVE  kept[i] <= kept[k]
  <2>1. n + i <= n + k
    BY <1>0, <1>4
  <2>2. QED BY <1>3, <2>1 DEF TimesPassed
<1> HIDE DEF kept
<1>5. CASE granted' = kept
  BY <1>2, <1>3, <1>4, <1>5 DEF TimesPassed
<1>6. CASE granted' = Append(kept, now)
  <2>1. /\ granted' \in Seq(Nat) /\ Len(granted') = Len(kept) + 1
        /\ granted'[Len(kept) + 1] = now
        /\ \A j \in 1..Len(kept) : granted'[j] = kept[j]
    BY <1>0, <1>2, <1>6
  <2>2. \A j \in 1..Len(granted') : j = Len(kept) + 1 \/ j \in 1..Len(kept)
    BY <1>2, <2>1
  <2>3. ASSUME NEW j \in 1..Len(granted') PROVE granted'[j] <= now
    <3>1. CASE j = Len(kept) + 1
      BY <1>0, <2>1, <3>1
    <3>2. CASE j \in 1..Len(kept)
      BY <1>3, <2>1, <3>2
    <3>3. QED BY <2>2, <3>1, <3>2
  <2>4. ASSUME NEW i \in 1..Len(granted'), NEW k \in 1..Len(granted'), i <= k
        PROVE  granted'[i] <= granted'[k]
    <3>1. CASE k = Len(kept) + 1
      BY <2>1, <2>3, <3>1
    <3>2. CASE k \in 1..Len(kept)
      <4>1. i \in 1..Len(kept)
        BY <1>2, <2>4, <3>2
      <4>2. QED BY <1>4, <2>1, <2>4, <3>2, <4>1
    <3>3. QED BY <2>2, <3>1, <3>2
  <2>5. QED BY <2>1, <2>3, <2>4 DEF TimesPassed
<1>7. QED BY <1>5, <1>6 DEF kept

LEMMA SameCallsBounded ==
    ASSUME IInv, UNCHANGED <<now, called>>
    PROVE  CallsBounded'
BY DEF IInv, CallsBounded

(* One look at the window: with a place the call is granted, and may follow;  *)
(* without one the task stays where it is.                                    *)
LEMMA AwaitKeeps ==
    ASSUME IInv, NEW t \in Tasks, AwaitCapacity(t)
    PROVE  IInv'
<1>0. /\ granted \in Seq(Nat) /\ now \in Nat /\ Len(granted) \in Nat
      /\ Len(granted) <= MaxCalls
      /\ task \in [Tasks -> [pc : Points, file : Files \cup {None},
                             left : 0..MaxFiles, until : Nat]]
  BY DEF IInv, TypeOK
<1>1. PICK n \in 0..Len(granted) :
               /\ Recent(granted) \in Seq(Nat)
               /\ Len(Recent(granted)) = Len(granted) - n
  BY <1>0, RecentFacts
<1>2. UNCHANGED <<now, called, limited, cache, analyses>> /\ task[t].pc = "capacity"
  BY DEF AwaitCapacity, At
<1>3. t \in Holders /\ t \notin Pending
  BY <1>2 DEF Holders, Pending, Points
<1>4. FewHold /\ IsFiniteSet(Pending) /\ Cardinality(Pending) \in Nat
  BY PendingHold DEF IInv
<1>5. ASSUME NEW start \in 0..now, now < start + Period
      PROVE  LET kept == {j \in 1..Len(Recent(granted)) : start <= Recent(granted)[j]} IN
             /\ IsFiniteSet(kept) /\ Cardinality(kept) \in Nat
             /\ Cardinality(CallsFrom(start)) + Cardinality(Pending)
                    <= MaxConcurrent + Cardinality(kept)
  <2> DEFINE kept == {j \in 1..Len(Recent(granted)) : start <= Recent(granted)[j]}
  <2>1. start \in Nat /\ Len(Recent(granted)) \in Nat /\ kept \subseteq 1..Len(Recent(granted))
    BY <1>0, <1>1
  <2>2. IsFiniteSet(kept) /\ Cardinality(kept) \in Nat
    BY <2>1, PlacesAreFinite
  <2>3. Cardinality(GrantsFrom(start)) <= Cardinality(kept)
    BY <1>5, <2>1, RecentKeeps DEF IInv
  <2>4. Cardinality(CallsFrom(start)) + Cardinality(Pending)
            <= MaxConcurrent + Cardinality(GrantsFrom(start))
    BY <1>5 DEF IInv, CallsBacked
  <2> HIDE DEF kept
  <2>5. Cardinality(CallsFrom(start)) + Cardinality(Pending)
            <= MaxConcurrent + Cardinality(kept)
    BY <1>4, <2>2, <2>3, <2>4, CountsAreNatural, Limits DEF IInv
  <2>6. QED BY <2>2, <2>5 DEF kept
<1>6. CASE Len(Recent(granted)) < MaxCalls
  <2>1. granted' = Append(Recent(granted), now) /\ Goes(t, "upload")
    BY <1>6 DEF AwaitCapacity
  <2>2. PICK x : Moved(t, x) /\ x.pc = "upload"
    BY <2>1, GoesMoves DEF Points
  <2>3. Holders' = Holders \cup {t} /\ Pending' = Pending \cup {t}
    BY <1>0, <2>2, TaskMoves DEF Moved, Points
  <2>4. FewHold'
    BY <1>3, <1>4, <2>3, SemaphoreKept
  <2>5. granted' \in Seq(Nat) /\ Len(granted') <= MaxCalls
    BY <1>0, <1>1, <1>6, <2>1, Limits
  <2>6. TypeOK'
    BY <1>2, <2>2, <2>5, MovedTypes DEF IInv, TypeOK, TaskRecords
  <2>7. TimesPassed'
    BY <1>2, <2>1, RecentOrdered DEF IInv
  <2>8. Cardinality(Pending') = Cardinality(Pending) + 1
    BY <1>3, <1>4, <2>3, FS_AddElement
  <2>9. CallsBacked'
    <3> SUFFICES ASSUME NEW start \in 0..now, now < start + Period
                 PROVE  Cardinality(CallsFrom(start)') + Cardinality(Pending')
                            <= MaxConcurrent + Cardinality(GrantsFrom(start)')
      BY <1>2 DEF CallsBacked
    <3> DEFINE kept == {j \in 1..Len(Recent(granted)) : start <= Recent(granted)[j]}
               last == Len(Recent(granted)) + 1
    <3>1. CallsFrom(start)' = CallsFrom(start)
      BY <1>2 DEF CallsFrom
    <3>2. GrantsFrom(start)' = kept \cup {last} /\ last \notin kept
      <4>1. /\ Len(granted') = last /\ granted'[last] = now
            /\ \A j \in 1..Len(Recent(granted)) : granted'[j] = Recent(granted)[j]
        BY <1>0, <1>1, <2>1
      <4>2. 1..last = (1..Len(Recent(granted))) \cup {last}
            /\ last \notin 1..Len(Recent(granted))
        BY <1>1
      <4>3. start <= now
        BY <1>0
      <4> HIDE DEF last
      <4>4. QED BY <4>1, <4>2, <4>3 DEF GrantsFrom
    <3>3. /\ IsFiniteSet(kept) /\ Cardinality(kept) \in Nat
          /\ Cardinality(CallsFrom(start)) + Cardinality(Pending)
                 <= MaxConcurrent + Cardinality(kept)
      BY <1>5
    <3> HIDE DEF kept, last
    <3>4. Cardinality(kept \cup {last}) = Cardinality(kept) + 1
      BY <3>2, <3>3, FS_AddElement
    <3>5. QED BY <1>4, <2>8, <3>1, <3>2, <3>3, <3>4, CountsAreNatural, Limits DEF IInv
  <2>10. QED BY <1>2, <2>2, <2>4, <2>6, <2>7, <2>9, MovedTypes, SameCallsBounded DEF IInv
<1>7. CASE ~(Len(Recent(granted)) < MaxCalls)
  <2>1. granted' = Recent(granted)
        /\ SleepsUntil(t, "capacity", Head(Recent(granted)) + Period)
    BY <1>7 DEF AwaitCapacity
  <2>2. Head(Recent(granted)) + Period \in Nat
    BY <1>1, <1>7, Limits
  <2>3. PICK x : Moved(t, x) /\ x.pc = "capacity"
    BY <2>1, <2>2, GoesMoves DEF Points
  <2>4. Holders' = Holders \cup {t} /\ Pending' = Pending \ {t}
    BY <1>0, <2>3, TaskMoves DEF Moved, Points
  <2>5. FewHold' /\ Pending' = Pending
    BY <1>3, <1>4, <2>4, SemaphoreKept
  <2>6. granted' \in Seq(Nat) /\ Len(granted') <= MaxCalls
    BY <1>0, <1>1, <2>1, Limits
  <2>7. TypeOK'
    BY <1>2, <2>3, <2>6, MovedTypes DEF IInv, TypeOK, TaskRecords
  <2>8. TimesPassed'
    BY <1>2, <2>1, RecentOrdered DEF IInv
  <2>9. CallsBacked'
    <3> SUFFICES ASSUME NEW start \in 0..now, now < start + Period
                 PROVE  Cardinality(CallsFrom(start)') + Cardinality(Pending')
                            <= MaxConcurrent + Cardinality(GrantsFrom(start)')
      BY <1>2 DEF CallsBacked
    <3>1. CallsFrom(start)' = CallsFrom(start)
      BY <1>2 DEF CallsFrom
    <3>2. GrantsFrom(start)' =
              {j \in 1..Len(Recent(granted)) : start <= Recent(granted)[j]}
      BY <2>1 DEF GrantsFrom
    <3>3. QED BY <1>5, <2>5, <3>1, <3>2
  <2>10. QED BY <1>2, <2>3, <2>5, <2>7, <2>8, <2>9, MovedTypes, SameCallsBounded DEF IInv
<1>8. QED BY <1>6, <1>7

(* A call: who was about to make it has made it.                              *)
LEMMA GenerateKeeps ==
    ASSUME IInv, NEW t \in Tasks, GenerateContent(t)
    PROVE  IInv'
<1>0. /\ called \in Seq(Nat) /\ now \in Nat /\ Len(called) \in Nat
      /\ task \in [Tasks -> [pc : Points, file : Files \cup {None},
                             left : 0..MaxFiles, until : Nat]]
  BY DEF IInv, TypeOK
<1>1. /\ UNCHANGED <<now, granted, limited, cache, analyses>>
      /\ task[t].pc = "generate" /\ called' = Append(called, now)
  BY DEF GenerateContent, At
<1>2. t \in Holders /\ t \in Pending
  BY <1>1 DEF Holders, Pending, Points
<1>3. FewHold /\ IsFiniteSet(Pending) /\ Cardinality(Pending) \in Nat
  BY PendingHold DEF IInv
<1>4. PICK x : Moved(t, x) /\ x.pc = "respond"
  BY GoesMoves DEF GenerateContent, Points
<1>5. Holders' = Holders \cup {t} /\ Pending' = Pending \ {t}
  BY <1>0, <1>4, TaskMoves DEF Moved, Points
<1>6. FewHold'
  BY <1>2, <1>3, <1>5, SemaphoreKept
<1>7. Cardinality(Pending') = Cardinality(Pending) - 1
  BY <1>2, <1>3, <1>5, FS_RemoveElement
<1> DEFINE last == Len(called) + 1
<1>8. /\ called' \in Seq(Nat) /\ Len(called') = last /\ called'[last] = now
      /\ \A i \in 1..Len(called) : called'[i] = called[i]
      /\ 1..last = (1..Len(called)) \cup {last} /\ last \notin 1..Len(called)
  BY <1>0, <1>1
<1> HIDE DEF last
<1>9. TypeOK'
  BY <1>1, <1>4, <1>8, MovedTypes DEF IInv, TypeOK, TaskRecords
<1>10. TimesPassed'
  <2>1. ASSUME NEW i \in 1..Len(called') PROVE called'[i] <= now
    <3>1. CASE i = last
      BY <1>0, <1>8, <3>1
    <3>2. CASE i \in 1..Len(called)
      BY <1>8, <3>2 DEF IInv, TimesPassed
    <3>3. QED BY <1>8, <3>1, <3>2
  <2>2. QED BY <1>1, <2>1 DEF IInv, TimesPassed
<1>11. CallsBacked'
  <2> SUFFICES ASSUME NEW start \in 0..now, now < start + Period
               PROVE  Cardinality(CallsFrom(start)') + Cardinality(Pending')
                          <= MaxConcurrent + Cardinality(GrantsFrom(start)')
    BY <1>1 DEF CallsBacked
  <2>1. GrantsFrom(start)' = GrantsFrom(start)
    BY <1>1 DEF GrantsFrom
  <2>2. CallsFrom(start)' = CallsFrom(start) \cup {last} /\ last \notin CallsFrom(start)
    <3>1. start <= now
      BY <1>0
    <3>2. QED BY <1>8, <3>1 DEF CallsFrom
  <2>3. IsFiniteSet(CallsFrom(start))
    BY <1>0, PlacesAreFinite DEF CallsFrom
  <2>4. Cardinality(CallsFrom(start)') = Cardinality(CallsFrom(start)) + 1
    BY <2>2, <2>3, FS_AddElement
  <2>5. Cardinality(CallsFrom(start)) + Cardinality(Pending)
            <= MaxConcurrent + Cardinality(GrantsFrom(start))
    BY DEF IInv, CallsBacked
  <2>6. QED BY <1>3, <1>7, <2>1, <2>4, <2>5, CountsAreNatural, Limits DEF IInv
<1>12. CallsBounded'
  <2> SUFFICES ASSUME NEW start \in 0..now
               PROVE  Cardinality({i \in 1..Len(called') :
                                      start <= called'[i] /\ called'[i] < start + Period})
                          <= MaxCalls + MaxConcurrent
    BY <1>1 DEF CallsBounded
  <2> DEFINE after == {i \in 1..Len(called') :
                           start <= called'[i] /\ called'[i] < start + Period}
  <2>1. CASE now < start + Period
    <3>1. after \subseteq CallsFrom(start)' /\ CallsFrom(start)' \subseteq 1..Len(called')
      BY DEF CallsFrom
    <3>2. Len(called') \in Nat
      BY <1>8
    <3>3. IsFiniteSet(CallsFrom(start)') /\ Cardinality(CallsFrom(start)') \in Nat
      BY <3>1, <3>2, PlacesAreFinite
    <3>4. /\ Cardinality(after) <= Cardinality(CallsFrom(start)')
          /\ Cardinality(after) \in Nat
      BY <3>1, <3>3, FS_Subset, FS_CardinalityType
    <3>5. GrantsFrom(start)' = GrantsFrom(start)
      BY <1>1 DEF GrantsFrom
    <3>6. Cardinality(CallsFrom(start)') + Cardinality(Pending')
              <= MaxConcurrent + Cardinality(GrantsFrom(start))
      BY <1>1, <1>11, <2>1, <3>5 DEF CallsBacked
    <3>7. Cardinality(Pending') \in Nat
      BY <1>3, <1>5, FS_Subset, FS_CardinalityType
    <3> HIDE DEF after
    <3>8. Cardinality(after) <= MaxCalls + MaxConcurrent
      BY <3>3, <3>4, <3>6, <3>7, CountsAreNatural, Limits DEF IInv
    <3>9. QED BY <3>8 DEF after
  <2>2. CASE ~(now < start + Period)
    <3>1. after = {i \in 1..Len(called) : start <= called[i] /\ called[i] < start + Period}
      BY <1>8, <2>2
    <3> HIDE DEF after
    <3>2. Cardinality(after) <= MaxCalls + MaxConcurrent
      BY <3>1 DEF IInv, CallsBounded
    <3>3. QED BY <3>2 DEF after
  <2>3. QED BY <2>1, <2>2
<1>13. QED BY <1>4, <1>6, <1>9, <1>10, <1>11, <1>12, MovedTypes DEF IInv

(* A period begins: nothing has been called in it, and whoever may call is    *)
(* held by the semaphore.                                                     *)
LEMMA TickKeeps ==
    ASSUME IInv, Tick
    PROVE  IInv'
<1>0. now \in Nat /\ now' = now + 1 /\ called \in Seq(Nat) /\ granted \in Seq(Nat)
      /\ UNCHANGED <<task, granted, limited, cache, called, analyses>>
  BY DEF IInv, TypeOK, Tick
<1>1. TypeOK'
  BY <1>0 DEF IInv, TypeOK
<1>2. MoreLeft' /\ FewHold' /\ Pending' = Pending
  BY <1>0 DEF IInv, MoreLeft, FewHold, Pending, Holders, At
<1>3. TimesPassed'
  <2>1. \A i \in 1..Len(granted) : granted[i] \in Nat /\ granted[i] <= now + 1
    BY <1>0 DEF IInv, TimesPassed
  <2>2. \A i \in 1..Len(called) : called[i] \in Nat /\ called[i] <= now + 1
    BY <1>0 DEF IInv, TimesPassed
  <2>3. QED BY <1>0, <2>1, <2>2 DEF IInv, TimesPassed
<1>4. CallsBacked'
  <2> SUFFICES ASSUME NEW start \in 0..(now + 1), now + 1 < start + Period
               PROVE  Cardinality(CallsFrom(start)) + Cardinality(Pending)
                          <= MaxConcurrent + Cardinality(GrantsFrom(start))
    BY <1>0, <1>2 DEF CallsBacked, CallsFrom, GrantsFrom
  <2>1. CASE start \in 0..now
    BY <1>0, <2>1, Limits DEF IInv, CallsBacked
  <2>2. CASE start = now + 1
    <3>1. CallsFrom(start) = {}
      BY <1>0, <2>2 DEF IInv, TimesPassed, CallsFrom
    <3>2. Cardinality(CallsFrom(start)) = 0
      BY <3>1, FS_EmptySet
    <3>3. Cardinality(Pending) <= MaxConcurrent /\ Cardinality(Pending) \in Nat
      BY PendingHold, Limits DEF IInv, FewHold
    <3>4. QED BY <3>2, <3>3, CountsAreNatural, Limits DEF IInv
  <2>3. QED BY <1>0, <2>1, <2>2
<1>5. CallsBounded'
  <2> SUFFICES ASSUME NEW start \in 0..(now + 1)
               PROVE  Cardinality({i \in 1..Len(called) :
                                      start <= called[i] /\ called[i] < start + Period})
                          <= MaxCalls + MaxConcurrent
    BY <1>0 DEF CallsBounded
  <2>1. CASE start \in 0..now
    BY <2>1 DEF IInv, CallsBounded
  <2>2. CASE start = now + 1
    <3>1. {i \in 1..Len(called) : start <= called[i] /\ called[i] < start + Period} = {}
      BY <1>0, <2>2 DEF IInv, TimesPassed
    <3>2. QED BY <3>1, FS_EmptySet, Limits
  <2>3. QED BY <1>0, <2>1, <2>2
<1>6. QED BY <1>1, <1>2, <1>3, <1>4, <1>5 DEF IInv

LEMMA NextInv == IInv /\ [Next]_vars => IInv'
<1> SUFFICES ASSUME IInv, [Next]_vars PROVE IInv'
  OBVIOUS
<1>1. CASE UNCHANGED vars
  BY <1>1 DEF vars, IInv, TypeOK, MoreLeft, At, FewHold, Holders, TimesPassed,
              CallsBacked, CallsFrom, GrantsFrom, Pending, CallsBounded
<1>2. CASE Next
  BY <1>1, <1>2, InvestigateKeeps, QuietStep, AwaitKeeps, GenerateKeeps, TickKeeps
  DEF Next, Finished
<1>3. QED BY <1>1, <1>2

LEMMA Inductive == Spec => []IInv
BY InitInv, NextInv, PTL DEF Spec

-----------------------------------------------------------------------------
(* Tasks, windows and cache hold what the code stores in them, and neither    *)
(* list of times outgrows its limit, whatever the limits are.                 *)
THEOREM TypeCorrectness == Spec => []TypeOK
<1>1. IInv => TypeOK
  BY DEF IInv
<1>2. QED BY <1>1, Inductive, PTL

(* The manager's guarantee to the model's quota: in no period are there more  *)
(* calls than it grants in one and the semaphore can have held back, however  *)
(* many tasks there are, however long they upload, sleep or wait for a lock.  *)
THEOREM CallsStayBounded == Spec => []CallsBounded
<1>1. IInv => CallsBounded
  BY DEF IInv
<1>2. QED BY <1>1, Inductive, PTL
=============================================================================
