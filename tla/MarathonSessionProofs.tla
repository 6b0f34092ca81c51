------------------------ MODULE MarathonSessionProofs ------------------------
(* The investigation, for any number of sessions, keys, calls and faults, and *)
(* whether or not documents can be loaded.                                    *)
EXTENDS MarathonSession, TLAPS

-----------------------------------------------------------------------------
(* A call works on a document that exists and, once it has loaded it, on a    *)
(* snapshot.                                                                  *)
Loaded == {"enter", "decide", "image", "conclude", "save", "flag"}
CallsOwn ==
    \A c \in Calls :
        /\ call[c].pc # "idle" => call[c].s \in Sessions
        /\ call[c].pc = "register" => call[c].key \in Keys
        /\ call[c].pc \in Loaded => call[c].st \in Documents
        /\ call[c].pc \notin {"idle", "create"} => doc[call[c].s] # None

(* What was answered or registered has a document.                            *)
KnownStored == \A s \in Known : doc[s] # None

Typed == TypeOK /\ CallsOwn /\ KnownStored

(* A session that is being created is nobody else's.                          *)
FreshStarts ==
    \A c \in Calls : call[c].pc \in {"create", "register"} =>
        /\ call[c].s \notin Known
        /\ \A d \in Calls \ {c} : call[d].s # call[c].s
        /\ call[c].pc = "create" => doc[call[c].s] = None
        /\ call[c].pc = "register" => keyOf[call[c].s] = call[c].key

(* A start passes the registration of its key only as the key's session.      *)
Registered(s) == keyOf[s] # None => key[keyOf[s]] = s
KeysKept ==
    /\ \A s \in begun : Registered(s)
    /\ \A c \in Calls : call[c].pc = "record" => Registered(call[c].s)

StartInv == FreshStarts /\ KeysKept

(* A checklist without gaps in its evidence.                                  *)
Backed(st) == st.flags \subseteq st.evidence

(* What holds of every call by itself: its snapshot is backed; the concluding *)
(* step has seen the image; past the tests a snapshot is COMPLETED by its     *)
(* evidence only; a call that saw the session ended gets past the tests only  *)
(* when its budget is spent.                                                  *)
Local(r) ==
    /\ r.pc \in Loaded => Backed(r.st)
    /\ r.pc = "conclude" => "image" \in r.st.flags
    /\ r.pc \in {"image", "conclude", "save", "flag"} /\ r.st.status = "COMPLETED" =>
           BudgetChecks \subseteq r.st.evidence
    /\ r.sawEnd /\ ~r.spent =>
           /\ r.pc \in {"decide", "answer"}
           /\ r.pc = "decide" => r.st.status \in {"COMPLETED", "FLAGGED"}

StepInv == FlagsBacked /\ \A c \in Calls : Local(call[c])

-----------------------------------------------------------------------------
(* What is computed from documents are documents.                             *)
LEMMA DocumentTypes ==
    ASSUME NEW d \in Documents
    PROVE  /\ NewDocument \in Documents
           /\ \A st \in Documents : Merge(d, st) \in Documents
           /\ \A checks \in SUBSET Checks : Register(d, checks) \in Documents
           /\ \A checks \in SUBSET Checks : [d EXCEPT !.flags = checks] \in Documents
           /\ \A x \in Statuses : [d EXCEPT !.status = x] \in Documents
           /\ \A x \in Statuses, h \in BOOLEAN :
                  [d EXCEPT !.status = x, !.high = h] \in Documents
BY DEF Documents, NewDocument, Merge, Register, Statuses, Ended

LEMMA StartTypes ==
    ASSUME Typed, NEW c \in Calls, Start(c)
    PROVE  Typed'
<1> USE SessionAssumption, NoneIsNoDocument DEF SessionAssumption
<1>1. ASSUME NEW u \in Users, NEW k \in StartKeys, NEW s \in Sessions,
             ResolveKey(c, u, k, s)
      PROVE  Typed'
  <2> DEFINE r == [Idle EXCEPT !.op = "start", !.pc = "create", !.s = s, !.user = u,
                               !.key = k]
  <2>1. r \in CallRecords /\ r.pc = "create" /\ r.s = s
    BY DEF CallRecords, Idle, Points, Ops
  <2> HIDE DEF r
  <2>2. call' = [call EXCEPT ![c] = r]
    BY <1>1 DEF ResolveKey, r
  <2>3. TypeOK' /\ KnownStored'
    BY <1>1, <2>1, <2>2 DEF ResolveKey, Typed, TypeOK, KnownStored, Known
  <2>4. CallsOwn'
    BY <1>1, <2>1, <2>2 DEF ResolveKey, Typed, TypeOK, CallsOwn, Loaded
  <2>5. QED BY <2>3, <2>4 DEF Typed
<1>2. CASE CreateSession(c)
  <2>1. NewDocument \in Documents
    BY DEF NewDocument, Documents, Statuses
  <2>2. call[c].s \in Sessions
    BY <1>2 DEF CreateSession, Typed, CallsOwn
  <2>3. PICK pc \in {"record", "register"} :
            /\ call' = [call EXCEPT ![c].pc = pc]
            /\ pc = "register" => call[c].key # None
    BY <1>2 DEF CreateSession, Moves
  <2>4. TypeOK' /\ KnownStored'
    BY <1>2, <2>1, <2>2, <2>3
    DEF CreateSession, Typed, TypeOK, CallRecords, Points, KnownStored, Known
  <2>5. CallsOwn'
    BY <1>2, <2>1, <2>2, <2>3 DEF CreateSession, Typed, TypeOK, CallRecords, CallsOwn, Loaded
  <2>6. QED BY <2>4, <2>5 DEF Typed
<1>3. CASE RegisterKey(c)
  <2>1. call[c].s \in Sessions /\ doc[call[c].s] # None /\ call[c].key \in Keys
    BY <1>3 DEF RegisterKey, Typed, CallsOwn
  <2>2. CASE /\ key' = [key EXCEPT ![call[c].key] = call[c].s]
             /\ call' = [call EXCEPT ![c].pc = "record"]
    <3>1. TypeOK' /\ KnownStored'
      BY <1>3, <2>1, <2>2
      DEF RegisterKey, Typed, TypeOK, CallRecords, Points, KnownStored, Known
    <3>2. CallsOwn'
      BY <1>3, <2>1, <2>2 DEF RegisterKey, Typed, TypeOK, CallRecords, CallsOwn, Loaded
    <3>3. QED BY <3>1, <3>2 DEF Typed
  <2>3. CASE Ends(c) /\ UNCHANGED key
    BY <1>3, <2>3 DEF RegisterKey, Typed, TypeOK, CallsOwn, KnownStored, Known,
                      CallRecords, Points, Ops, Loaded, Ends, Idle
  <2>4. QED BY <1>3, <2>2, <2>3 DEF RegisterKey, Moves
<1>4. CASE RecordStart(c)
  BY <1>4 DEF RecordStart, Fault, Typed, TypeOK, CallsOwn, KnownStored, Known,
              CallRecords, Points, Ops, Loaded, Moves, Ends, Idle
<1>5. QED BY <1>1, <1>2, <1>3, <1>4 DEF Start

(* What a step that creates nothing has to keep.                              *)
LEMMA CallTypes ==
    ASSUME Typed, NEW c \in Calls, NEW r \in CallRecords,
           call' = [call EXCEPT ![c] = r],
           r.pc \notin {"create", "register"},
           r.pc # "idle" => r.s \in Sessions /\ doc[r.s] # None,
           r.pc \in Loaded => r.st \in Documents,
           \/ UNCHANGED doc
           \/ \E s \in Sessions, d \in Documents : doc' = [doc EXCEPT ![s] = d],
           UNCHANGED <<key, keyOf, begun>>, boot' \subseteq boot,
           UNCHANGED owner, faults' \in 0..MaxFaults
    PROVE  Typed'
<1> USE SessionAssumption, NoneIsNoDocument DEF SessionAssumption
<1>1. doc' \in [Sessions -> Documents \cup {None}]
  BY DEF Typed, TypeOK
<1>2. \A s \in Sessions : doc[s] # None => doc'[s] # None
  BY DEF Typed, TypeOK
<1>3. TypeOK'
  BY <1>1 DEF Typed, TypeOK
<1>4. KnownStored'
  BY <1>2 DEF Typed, TypeOK, KnownStored, Known
<1>5. CallsOwn'
  BY <1>2 DEF Typed, TypeOK, CallsOwn
<1>6. QED BY <1>3, <1>4, <1>5 DEF Typed

LEMMA FaultTypes ==
    ASSUME faults \in 0..MaxFaults
    PROVE  \A f : Fault(f) => faults' \in 0..MaxFaults
BY SessionAssumption DEF SessionAssumption, Fault

(* The calls that hold a session hold a document.                             *)
LEMMA CallHolds ==
    ASSUME Typed, NEW c \in Calls, call[c].pc \notin {"idle", "create"}
    PROVE  /\ call[c] \in CallRecords
           /\ call[c].s \in Sessions
           /\ doc[call[c].s] \in Documents
           /\ doc[call[c].s] # None
           /\ call[c].pc \in Loaded => call[c].st \in Documents
BY DEF Typed, TypeOK, CallsOwn

LEMMA KnownTypes ==
    ASSUME Typed, NEW s \in Sessions, s \in Known
    PROVE  doc[s] \in Documents /\ doc[s] # None
BY DEF Typed, TypeOK, KnownStored

(* Where a step leaves its call.                                              *)
LEMMA RecordTypes ==
    ASSUME Typed, NEW c \in Calls, call[c].pc \notin {"idle", "create"}
    PROVE  /\ Idle \in CallRecords
           /\ Fails(c) => \E r \in CallRecords :
                  /\ call' = [call EXCEPT ![c] = r]
                  /\ r.pc = "fail" /\ r.s = call[c].s
           /\ Returns(c) => \E r \in CallRecords :
                  /\ call' = [call EXCEPT ![c] = r]
                  /\ r.pc = "answer" /\ r.s = call[c].s
           /\ \A pc \in Points : Moves(c, pc) => \E r \in CallRecords :
                  /\ call' = [call EXCEPT ![c] = r]
                  /\ r.pc = pc /\ r.s = call[c].s /\ r.st = call[c].st
<1> USE CallHolds DEF CallRecords, Idle, Ops, Points
<1>1. Idle \in CallRecords
  OBVIOUS
<1>2. ASSUME Fails(c)
      PROVE  \E r \in CallRecords : /\ call' = [call EXCEPT ![c] = r]
                                     /\ r.pc = "fail" /\ r.s = call[c].s
  <2> DEFINE r == [Idle EXCEPT !.op = "bootstrap", !.pc = "fail", !.s = call[c].s]
  <2>1. r \in CallRecords /\ r.pc = "fail" /\ r.s = call[c].s
    OBVIOUS
  <2>2. QED BY <1>2, <2>1 DEF Fails
<1>3. ASSUME Returns(c)
      PROVE  \E r \in CallRecords : /\ call' = [call EXCEPT ![c] = r]
                                     /\ r.pc = "answer" /\ r.s = call[c].s
  <2> DEFINE r == [Idle EXCEPT !.op = call[c].op, !.s = call[c].s,
                               !.pc = "answer"]
  <2>1. r \in CallRecords /\ r.pc = "answer" /\ r.s = call[c].s
    OBVIOUS
  <2>2. QED BY <1>3, <2>1 DEF Returns
<1>4. ASSUME NEW pc \in Points, Moves(c, pc)
      PROVE  \E r \in CallRecords :
                 /\ call' = [call EXCEPT ![c] = r]
                 /\ r.pc = pc /\ r.s = call[c].s /\ r.st = call[c].st
  <2> DEFINE r == [call[c] EXCEPT !.pc = pc]
  <2>1. r \in CallRecords /\ r.pc = pc /\ r.s = call[c].s /\ r.st = call[c].st
    OBVIOUS
  <2>2. call' = [call EXCEPT ![c] = r]
    BY <1>4 DEF Moves
  <2>3. QED BY <2>1, <2>2
<1>5. QED BY <1>1, <1>2, <1>3, <1>4

LEMMA LoadTypes ==
    ASSUME Typed, NEW c \in Calls, NEW s \in Sessions, doc[s] \in Documents,
           NEW op \in Ops, LoadState(c, op, s)
    PROVE  \E r \in CallRecords :
               /\ call' = [call EXCEPT ![c] = r]
               /\ r.pc \in {"enter", "decide"} /\ r.s = s /\ r.st = doc[s]
<1>1. PICK spent \in BOOLEAN : call' = [call EXCEPT ![c] =
        [Idle EXCEPT !.op = op, !.s = s, !.st = doc[s], !.spent = spent,
                     !.sawEnd = doc[s].status \in {"COMPLETED", "FLAGGED"},
                     !.pc = IF doc[s].status = "QUEUED" THEN "enter" ELSE "decide"]]
  BY DEF LoadState
<1> DEFINE saw == doc[s].status \in {"COMPLETED", "FLAGGED"}
           pc == IF doc[s].status = "QUEUED" THEN "enter" ELSE "decide"
<1>2. saw \in BOOLEAN /\ pc \in {"enter", "decide"}
  OBVIOUS
<1> HIDE DEF saw, pc
<1> DEFINE r == [Idle EXCEPT !.op = op, !.s = s, !.st = doc[s], !.spent = spent,
                             !.sawEnd = saw, !.pc = pc]
<1>3. r \in CallRecords /\ r.pc = pc /\ r.s = s /\ r.st = doc[s]
  BY <1>2 DEF CallRecords, Idle, Ops, Points
<1>4. call' = [call EXCEPT ![c] = r]
  BY <1>1 DEF saw, pc
<1>5. QED BY <1>2, <1>3, <1>4

(* The ways in which a step has its snapshot st and goes on to save it.       *)
Leaves(c, st) ==
    \/ GoesOn(c, st)
    \/ \E next \in {"answer", "save"} : Concludes(c, st, next)
    \/ Announces(c, st.status) /\ st = [call[c].st EXCEPT !.status = st.status]
    \/ FailsSource(c) /\ st = [call[c].st EXCEPT !.status = "FAILED"]

(* Whichever it is, the call saves st, and at most the status and the findings*)
(* of the document are announced.                                             *)
LEMMA LeavesEffect ==
    ASSUME Typed, NEW c \in Calls, call[c].pc \in Loaded, NEW st \in Documents,
           Leaves(c, st)
    PROVE  /\ \E r \in CallRecords :
                  /\ call' = [call EXCEPT ![c] = r]
                  /\ r.pc = "save" /\ r.s = call[c].s /\ r.st = st
                  /\ r.sawEnd = call[c].sawEnd /\ r.spent = call[c].spent
           /\ \/ GoesOn(c, st) /\ UNCHANGED <<doc, faults>>
              \/ \E h \in BOOLEAN :
                     SyncState(call[c].s, [doc[call[c].s] EXCEPT !.status = st.status,
                                                                 !.high = h])
<1>0. /\ call[c] \in CallRecords /\ doc[call[c].s] \in Documents
      /\ call \in [Calls -> CallRecords]
  BY CallHolds DEF Loaded, Typed, TypeOK
<1>1. ASSUME NEW g \in BOOLEAN, NEW n \in {"answer", "flag", "save"},
             call' = [call EXCEPT ![c] = [call[c] EXCEPT !.pc = "save", !.st = st,
                                                         !.guarded = g, !.next = n]]
      PROVE  \E r \in CallRecords :
                 /\ call' = [call EXCEPT ![c] = r]
                 /\ r.pc = "save" /\ r.s = call[c].s /\ r.st = st
                 /\ r.sawEnd = call[c].sawEnd /\ r.spent = call[c].spent
  <2> DEFINE r == [call[c] EXCEPT !.pc = "save", !.st = st, !.guarded = g, !.next = n]
  <2>1. /\ r \in CallRecords /\ r.pc = "save" /\ r.s = call[c].s /\ r.st = st
        /\ r.sawEnd = call[c].sawEnd /\ r.spent = call[c].spent
    BY <1>0 DEF CallRecords, Points
  <2>2. QED BY <1>1, <2>1
<1>2. call[c].next \in {"answer", "flag", "save"}
  BY <1>0 DEF CallRecords
<1>3. CASE GoesOn(c, st)
  <2>1. call' = [call EXCEPT ![c] = [call[c] EXCEPT !.pc = "save", !.st = st,
                                        !.guarded = TRUE, !.next = call[c].next]]
    BY <1>0, <1>3 DEF GoesOn, CallRecords
  <2>2. QED BY <1>1, <1>2, <1>3, <2>1 DEF GoesOn
<1>4. ASSUME NEW n \in {"answer", "save"}, Concludes(c, st, n)
      PROVE  /\ call' = [call EXCEPT ![c] = [call[c] EXCEPT !.pc = "save", !.st = st,
                                                 !.guarded = TRUE, !.next = n]]
             /\ SyncState(call[c].s, [doc[call[c].s] EXCEPT !.status = st.status,
                                                            !.high = st.high])
  BY <1>0, <1>4 DEF Concludes, CallRecords
<1>5. st.high \in BOOLEAN /\ doc[call[c].s].high \in BOOLEAN
  BY <1>0 DEF Documents
<1>6. \A x : [doc[call[c].s] EXCEPT !.status = x]
            = [doc[call[c].s] EXCEPT !.status = x, !.high = doc[call[c].s].high]
  BY <1>0 DEF Documents
<1>7. CASE Announces(c, st.status) /\ st = [call[c].st EXCEPT !.status = st.status]
  <2>1. call' = [call EXCEPT ![c] = [call[c] EXCEPT !.pc = "save", !.st = st,
                                        !.guarded = TRUE, !.next = call[c].next]]
    BY <1>0, <1>7 DEF Announces, CallRecords
  <2>2. SyncState(call[c].s, [doc[call[c].s] EXCEPT !.status = st.status,
                                          !.high = doc[call[c].s].high])
    BY <1>6, <1>7 DEF Announces, SyncStatus
  <2>3. QED BY <1>1, <1>2, <1>5, <2>1, <2>2
<1>8. CASE FailsSource(c) /\ st = [call[c].st EXCEPT !.status = "FAILED"]
  <2>1. call' = [call EXCEPT ![c] = [call[c] EXCEPT !.pc = "save", !.st = st,
                                        !.guarded = FALSE, !.next = call[c].next]]
    BY <1>0, <1>8 DEF FailsSource, CallRecords
  <2>2. call[c].st \in Documents
    BY CallHolds DEF Loaded
  <2>3. st.status = "FAILED"
    BY <1>8, <2>2 DEF Documents
  <2>4. SyncState(call[c].s, [doc[call[c].s] EXCEPT !.status = st.status,
                                          !.high = doc[call[c].s].high])
    BY <1>6, <1>8, <2>3 DEF FailsSource, SyncStatus
  <2>5. QED BY <1>1, <1>2, <1>5, <2>1, <2>4
<1>9. QED BY <1>1, <1>3, <1>4, <1>5, <1>7, <1>8 DEF Leaves

(* A step that has its result goes on to save it.                             *)
LEMMA SavingTypes ==
    ASSUME Typed, NEW c \in Calls, call[c].pc \in Loaded, NEW st \in Documents,
           Leaves(c, st)
    PROVE  /\ \E r \in CallRecords :
                  /\ call' = [call EXCEPT ![c] = r]
                  /\ r.pc = "save" /\ r.s = call[c].s /\ r.st = st
           /\ \/ UNCHANGED doc
              \/ \E d \in Documents : doc' = [doc EXCEPT ![call[c].s] = d]
           /\ faults' \in 0..MaxFaults
<1>1. doc[call[c].s] \in Documents /\ st.status \in Statuses
  BY CallHolds DEF Loaded, Documents
<1>2. \A h \in BOOLEAN :
          [doc[call[c].s] EXCEPT !.status = st.status, !.high = h] \in Documents
  BY <1>1, DocumentTypes
<1>3. faults \in 0..MaxFaults
  BY DEF Typed, TypeOK
<1>4. ASSUME NEW d \in Documents, SyncState(call[c].s, d)
      PROVE  /\ \/ UNCHANGED doc
                \/ \E e \in Documents : doc' = [doc EXCEPT ![call[c].s] = e]
             /\ faults' \in 0..MaxFaults
  BY <1>3, <1>4, FaultTypes DEF SyncState
<1>5. /\ \/ UNCHANGED doc
         \/ \E d \in Documents : doc' = [doc EXCEPT ![call[c].s] = d]
      /\ faults' \in 0..MaxFaults
  <2>1. \/ UNCHANGED <<doc, faults>>
        \/ \E d \in Documents : SyncState(call[c].s, d)
    BY <1>2, LeavesEffect
  <2>2. QED BY <1>3, <1>4, <2>1
<1>6. \E r \in CallRecords :
          /\ call' = [call EXCEPT ![c] = r]
          /\ r.pc = "save" /\ r.s = call[c].s /\ r.st = st
  <2>1. PICK r \in CallRecords :
            /\ call' = [call EXCEPT ![c] = r]
            /\ r.pc = "save" /\ r.s = call[c].s /\ r.st = st
            /\ r.sawEnd = call[c].sawEnd /\ r.spent = call[c].spent
    BY LeavesEffect
  <2>2. QED BY <2>1
<1>7. QED BY <1>5, <1>6

(* A step that ends in one of the records above keeps the types.              *)
LEMMA StepTypes ==
    ASSUME Typed, NEW c \in Calls, SingleStep(c)
    PROVE  Typed'
<1> USE DEF Loaded
<1>f. faults \in 0..MaxFaults
  BY DEF Typed, TypeOK
<1>h. call[c].pc \in Loaded => /\ call[c].s \in Sessions
                               /\ doc[call[c].s] \in Documents
                               /\ doc[call[c].s] # None
                               /\ call[c].st \in Documents
                               /\ call[c] \in CallRecords
  BY CallHolds
<1>s. ASSUME NEW st \in Documents, call[c].pc \in Loaded,
             Leaves(c, st), UNCHANGED StepVars
      PROVE  Typed'
  <2>1. PICK r \in CallRecords : /\ call' = [call EXCEPT ![c] = r]
                                 /\ r.pc = "save" /\ r.s = call[c].s /\ r.st = st
    BY <1>s, SavingTypes
  <2>2. /\ \/ UNCHANGED doc
           \/ \E d \in Documents : doc' = [doc EXCEPT ![call[c].s] = d]
        /\ faults' \in 0..MaxFaults
    BY <1>s, SavingTypes
  <2>3. QED BY <1>s, <1>f, <1>h, <2>1, <2>2, CallTypes DEF StepVars
<1>m. ASSUME NEW pc \in Points \cap Loaded, call[c].pc \in Loaded, Moves(c, pc),
             SyncStatus(call[c].s, "RUNNING"), UNCHANGED StepVars
      PROVE  Typed'
  <2>1. PICK r \in CallRecords : /\ call' = [call EXCEPT ![c] = r]
                                 /\ r.pc = pc /\ r.s = call[c].s /\ r.st = call[c].st
    BY <1>m, RecordTypes
  <2>2. [doc[call[c].s] EXCEPT !.status = "RUNNING"] \in Documents
    BY <1>m, <1>h, DocumentTypes DEF Statuses
  <2>3. /\ \/ UNCHANGED doc
           \/ \E d \in Documents : doc' = [doc EXCEPT ![call[c].s] = d]
        /\ faults' \in 0..MaxFaults
    BY <1>m, <1>f, <2>2, FaultTypes DEF SyncStatus, SyncState
  <2>4. QED BY <1>m, <1>f, <1>h, <2>1, <2>3, CallTypes DEF StepVars
<1>1. ASSUME NEW s \in Sessions, Bootstrap(c, s)
      PROVE  Typed'
  <2>1. doc[s] \in Documents /\ doc[s] # None
    BY <1>1, KnownTypes DEF Bootstrap, Typed, TypeOK, Known
  <2>2. CASE LoadState(c, "bootstrap", s)
    <3>1. PICK r \in CallRecords : /\ call' = [call EXCEPT ![c] = r]
                                   /\ r.pc \in {"enter", "decide"}
                                   /\ r.s = s /\ r.st = doc[s]
      BY <2>1, <2>2, LoadTypes DEF Ops
    <3>2. QED BY <1>1, <1>f, <2>1, <3>1, CallTypes DEF Bootstrap
  <2>3. CASE ~TimestampLoads
    <3> DEFINE r == [Idle EXCEPT !.op = "bootstrap", !.s = s, !.pc = "fail"]
    <3>1. r \in CallRecords /\ r.pc = "fail" /\ r.s = s
      BY DEF CallRecords, Idle, Ops, Points
    <3>2. call' = [call EXCEPT ![c] = r]
      BY <1>1, <2>3 DEF Bootstrap
    <3> HIDE DEF r
    <3>3. QED BY <1>1, <1>f, <2>1, <3>1, <3>2, CallTypes DEF Bootstrap
  <2>4. QED BY <1>1, <2>2, <2>3 DEF Bootstrap
<1>2. ASSUME NEW s \in Sessions, Tick(c, s)
      PROVE  Typed'
  <2>1. doc[s] \in Documents /\ doc[s] # None
    BY <1>2, KnownTypes DEF Tick
  <2>2. PICK r \in CallRecords : /\ call' = [call EXCEPT ![c] = r]
                                 /\ r.pc \in {"enter", "decide"}
                                 /\ r.s = s /\ r.st = doc[s]
    BY <1>2, <2>1, LoadTypes DEF Tick, Ops
  <2>3. QED BY <1>2, <1>f, <2>1, <2>2, CallTypes DEF Tick
<1>3. CASE EnterRunning(c)
  <2> DEFINE st == [call[c].st EXCEPT !.status = "RUNNING"]
             r == [call[c] EXCEPT !.pc = "decide", !.st = st]
  <2>1. st \in Documents
    BY <1>3, <1>h, DocumentTypes DEF EnterRunning, Statuses
  <2>2. Merge(doc[call[c].s], st) \in Documents
    BY <1>3, <1>h, <2>1, DocumentTypes DEF EnterRunning
  <2>3. doc' = [doc EXCEPT ![call[c].s] = Merge(doc[call[c].s], st)]
    BY <1>3 DEF EnterRunning
  <2> HIDE DEF st
  <2>4. r \in CallRecords /\ r.pc = "decide" /\ r.s = call[c].s /\ r.st = st
    BY <1>3, <1>h, <2>1 DEF EnterRunning, CallRecords, Points
  <2>5. call' = [call EXCEPT ![c] = r]
    BY <1>3 DEF EnterRunning, st
  <2> HIDE DEF r
  <2>6. call[c].pc \in Loaded /\ UNCHANGED <<key, keyOf, owner, boot, begun, faults>>
    BY <1>3 DEF EnterRunning
  <2>7. QED BY <1>f, <1>h, <2>1, <2>2, <2>3, <2>4, <2>5, <2>6, CallTypes
<1>4. CASE BudgetSpent(c)
  <2> DEFINE done == BudgetChecks \subseteq call[c].st.evidence
             status == IF done THEN "COMPLETED" ELSE "WAITING"
             st == [call[c].st EXCEPT !.status = status, !.high = @ /\ ~done]
             d == [doc[call[c].s] EXCEPT !.status = st.status, !.high = @ /\ ~done]
             r == [call[c] EXCEPT !.pc = "save", !.st = st]
  <2>0. call[c].pc \in Loaded
    BY <1>4 DEF BudgetSpent
  <2>1. status \in Statuses /\ done \in BOOLEAN
    BY DEF Statuses, Ended
  <2>2. st \in Documents
    BY <1>h, <2>0, <2>1 DEF Documents
  <2>3. d \in Documents
    BY <1>h, <2>0, <2>1, <2>2 DEF Documents
  <2>4. /\ SyncState(call[c].s, d) /\ call' = [call EXCEPT ![c] = r]
        /\ UNCHANGED <<key, keyOf, owner, boot, begun>>
    BY <1>4 DEF BudgetSpent
  <2> HIDE DEF done, status, st, d
  <2>5. r \in CallRecords /\ r.pc = "save" /\ r.s = call[c].s /\ r.st = st
    BY <1>h, <2>0, <2>2 DEF CallRecords, Points
  <2> HIDE DEF r
  <2>6. /\ \/ UNCHANGED doc
           \/ \E e \in Documents : doc' = [doc EXCEPT ![call[c].s] = e]
        /\ faults' \in 0..MaxFaults
    BY <1>f, <2>3, <2>4, FaultTypes DEF SyncState
  <2>7. QED BY <1>f, <1>h, <2>0, <2>2, <2>4, <2>5, <2>6, CallTypes
<1>5. CASE AlreadyEnded(c)
  <2>1. PICK r \in CallRecords : /\ call' = [call EXCEPT ![c] = r]
                                 /\ r.pc = "answer" /\ r.s = call[c].s
    BY <1>5, RecordTypes DEF AlreadyEnded
  <2>2. QED BY <1>5, <1>f, <1>h, <2>1, CallTypes DEF AlreadyEnded
<1>6. CASE AnnounceImage(c)
  BY <1>6, <1>m DEF AnnounceImage, Works, Points
<1>7. CASE AnalyzeImage(c)
  <2> DEFINE st == [call[c].st EXCEPT !.status = "RUNNING"]
  <2>1. st \in Documents /\ call[c].pc \in Loaded
    BY <1>7, <1>h, DocumentTypes DEF AnalyzeImage, Statuses
  <2>2. /\ \/ GoesOn(c, Register(st, {"image"}))
           \/ GoesOn(c, [st EXCEPT !.flags = @ \ {"image"}])
           \/ FailsSource(c)
        /\ UNCHANGED StepVars
    BY <1>7 DEF AnalyzeImage
  <2> HIDE DEF st
  <2>3. st.flags \ {"image"} \in SUBSET Checks
    BY <2>1 DEF Documents
  <2>4. /\ Register(st, {"image"}) \in Documents
        /\ [st EXCEPT !.flags = @ \ {"image"}] \in Documents
        /\ [call[c].st EXCEPT !.status = "FAILED"] \in Documents
    BY <1>h, <2>1, <2>3, DocumentTypes DEF Statuses, Ended, Checks
  <2>5. QED BY <1>s, <2>1, <2>2, <2>4 DEF Leaves
<1>8. CASE VerifyBoundary(c)
  <2> DEFINE verified == Register(call[c].st, {"physical"})
             waiting == [call[c].st EXCEPT !.status = "WAITING"]
             r == [call[c] EXCEPT !.pc = "save", !.st = verified, !.next = "flag",
                                  !.guarded = TRUE]
  <2>0. call[c].pc \in Loaded /\ UNCHANGED StepVars
    BY <1>8 DEF VerifyBoundary, Works
  <2>1. verified \in Documents /\ waiting \in Documents /\ waiting.status = "WAITING"
    BY <1>h, <2>0, DocumentTypes DEF Checks, Statuses, Documents
  <2>2. CASE call' = [call EXCEPT ![c] = r] /\ UNCHANGED <<doc, faults>>
    <3> HIDE DEF verified
    <3>1. r \in CallRecords /\ r.pc = "save" /\ r.s = call[c].s /\ r.st = verified
      BY <1>h, <2>0, <2>1 DEF CallRecords, Points
    <3> HIDE DEF r
    <3>2. QED BY <1>f, <1>h, <2>0, <2>1, <2>2, <3>1, CallTypes DEF StepVars
  <2>3. \/ Announces(c, "WAITING")
        \/ GoesOn(c, call[c].st) \/ GoesOn(c, verified)
        \/ call' = [call EXCEPT ![c] = r] /\ UNCHANGED <<doc, faults>>
    BY <1>8 DEF VerifyBoundary
  <2>4. \/ Leaves(c, waiting) \/ Leaves(c, call[c].st) \/ Leaves(c, verified)
        \/ call' = [call EXCEPT ![c] = r] /\ UNCHANGED <<doc, faults>>
    BY <2>1, <2>3 DEF Leaves
  <2>5. QED BY <1>h, <1>s, <2>0, <2>1, <2>2, <2>4
<1>9. CASE FlagSession(c)
  <2>1. /\ [call[c].st EXCEPT !.status = "FLAGGED", !.high = TRUE] \in Documents
        /\ call[c].pc \in Loaded
    BY <1>9, <1>h, DocumentTypes DEF FlagSession, Statuses, Ended
  <2>2. QED BY <1>9, <1>s, <2>1 DEF FlagSession, Leaves
<1>10. CASE CheckRecords(c)
  <2> DEFINE st == call[c].st
             found == Register(st, {"title", "additional", "zoning"})
  <2>0. call[c].pc \in Loaded /\ UNCHANGED StepVars /\ st \in Documents
    BY <1>10, <1>h DEF CheckRecords, Works
  <2>1. /\ [st EXCEPT !.status = "FAILED"] \in Documents
        /\ [st EXCEPT !.status = "FAILED", !.high = TRUE] \in Documents
        /\ found \in Documents
    BY <2>0, DocumentTypes DEF Statuses, Ended, Checks
  <2>2. Register(found, {"historical"}) \in Documents
    BY <2>1, DocumentTypes DEF Checks
  <2>3. QED BY <1>10, <1>s, <2>0, <2>1, <2>2 DEF CheckRecords, Leaves
<1>11. CASE AnnounceThought(c)
  BY <1>11, <1>m DEF AnnounceThought, Works, Points
<1>12. CASE Conclude(c)
  <2> DEFINE verdict == IF call[c].st.high THEN "FLAGGED" ELSE "COMPLETED"
             ended == [call[c].st EXCEPT !.status = verdict]
             waiting == [call[c].st EXCEPT !.status = "WAITING"]
  <2>1. verdict \in Statuses /\ call[c].pc \in Loaded /\ UNCHANGED StepVars
    BY <1>12 DEF Conclude, Statuses, Ended
  <2>2. /\ ended \in Documents /\ waiting \in Documents
        /\ waiting.status = "WAITING"
    BY <1>h, <2>1, DocumentTypes DEF Statuses, Documents
  <2>3. Concludes(c, ended, "answer") \/ Announces(c, "WAITING")
    BY <1>12 DEF Conclude
  <2> HIDE DEF ended, verdict
  <2>4. Leaves(c, ended) \/ Leaves(c, waiting)
    BY <2>2, <2>3 DEF Leaves
  <2>5. QED BY <1>s, <2>1, <2>2, <2>4
<1>13. CASE SaveState(c)
  <2>0. call[c].pc \in Loaded
    BY <1>13 DEF SaveState
  <2>1. Merge(doc[call[c].s], call[c].st) \in Documents
    BY <1>h, <2>0, DocumentTypes
  <2>2. doc' = [doc EXCEPT ![call[c].s] = Merge(doc[call[c].s], call[c].st)]
    BY <1>13 DEF SaveState
  <2>3. PICK r \in CallRecords : /\ call' = [call EXCEPT ![c] = r]
                                 /\ r.pc \in {"flag", "save", "answer"}
                                 /\ r.s = call[c].s
                                 /\ r.pc # "answer" => r.st = call[c].st
    <3>1. CASE call[c].next \in {"flag", "save"}
      <4> DEFINE r == [call[c] EXCEPT !.pc = call[c].next, !.next = "answer"]
      <4>1. /\ r \in CallRecords /\ r.pc = call[c].next /\ r.s = call[c].s
            /\ r.st = call[c].st
        BY <1>h, <2>0, <3>1 DEF CallRecords, Points
      <4>2. QED BY <1>13, <3>1, <4>1 DEF SaveState
    <3>2. CASE call[c].next = "answer"
      BY <1>13, <1>h, <2>0, <3>2, RecordTypes DEF SaveState
    <3>3. QED BY <1>h, <2>0, <3>1, <3>2 DEF CallRecords
  <2>4. UNCHANGED <<key, keyOf, owner, boot, begun, faults>>
    BY <1>13 DEF SaveState
  <2>5. r.pc \in Loaded => r.st \in Documents
    BY <1>h, <2>0, <2>3
  <2>6. QED BY <1>f, <1>h, <2>0, <2>1, <2>2, <2>3, <2>4, <2>5, CallTypes
<1>14. CASE SaveRaises(c)
  <2>0. call[c].pc \in Loaded
    BY <1>14 DEF SaveRaises
  <2>1. PICK new \in {call[c].st, [call[c].st EXCEPT !.status = "FAILED"]} :
            /\ doc' = [doc EXCEPT ![call[c].s].status =
                           IF new = call[c].st THEN @ ELSE "FAILED"]
            /\ call' = [call EXCEPT ![c].st = new, ![c].guarded = FALSE,
                                    ![c].next = "answer"]
    BY <1>14 DEF SaveRaises
  <2> DEFINE status == IF new = call[c].st THEN doc[call[c].s].status ELSE "FAILED"
             d == [doc[call[c].s] EXCEPT !.status = status]
             r == [call[c] EXCEPT !.st = new, !.guarded = FALSE, !.next = "answer"]
  <2>2. new \in Documents
    <3>1. [call[c].st EXCEPT !.status = "FAILED"] \in Documents
      BY <1>h, <2>0, DocumentTypes DEF Statuses, Ended
    <3>2. QED BY <1>h, <2>0, <3>1
  <2>3. status \in Statuses
    BY <1>h, <2>0 DEF Documents, Statuses, Ended
  <2>4. doc' = [doc EXCEPT ![call[c].s] = d] /\ call' = [call EXCEPT ![c] = r]
    BY <2>1
  <2> HIDE DEF status
  <2>5. d \in Documents
    BY <1>h, <2>0, <2>3, DocumentTypes
  <2>6. r \in CallRecords /\ r.pc = "save" /\ r.s = call[c].s /\ r.st = new
    BY <1>14, <1>h, <2>0, <2>2 DEF SaveRaises, CallRecords
  <2> HIDE DEF d, r
  <2>7. QED BY <1>14, <1>f, <1>h, <2>0, <2>2, <2>4, <2>5, <2>6, CallTypes, FaultTypes
            DEF SaveRaises, StepVars
<1>15. CASE StepRaises(c)
  <2>0. call[c].pc \in Loaded
    BY <1>15 DEF StepRaises
  <2>1. PICK r \in CallRecords : /\ call' = [call EXCEPT ![c] = r]
                                 /\ r.pc \in {"fail", "idle"}
                                 /\ r.pc = "fail" => r.s = call[c].s
    <3>1. Idle.pc = "idle"
      BY DEF Idle
    <3>2. QED BY <1>15, <2>0, <3>1, RecordTypes DEF StepRaises, Ends
  <2>2. QED BY <1>15, <1>f, <1>h, <2>0, <2>1, CallTypes, FaultTypes DEF StepRaises
<1>16. QED
  BY <1>1, <1>2, <1>3, <1>4, <1>5, <1>6, <1>7, <1>8, <1>9, <1>10, <1>11, <1>12,
     <1>13, <1>14, <1>15 DEF SingleStep

(* Answers, retries and failures.                                             *)
LEMMA EndTypes ==
    ASSUME Typed, NEW c \in Calls,
           \/ Answer(c) \/ AuditRaises(c) \/ FailBootstrap(c) \/ Retry(c) \/ Crash(c)
           \/ \E s \in Sessions : ReadForRetry(c, s)
    PROVE  Typed'
<1>f. faults \in 0..MaxFaults
  BY DEF Typed, TypeOK
<1>h. call[c].pc \notin {"idle", "create"} => /\ call[c].s \in Sessions
                                             /\ doc[call[c].s] \in Documents
                                             /\ doc[call[c].s] # None
                                             /\ call[c] \in CallRecords
  BY CallHolds
<1>i. Idle \in CallRecords /\ Idle.pc = "idle"
  BY DEF Idle, CallRecords, Points
<1> USE DEF Loaded
<1>1. CASE Answer(c)
  BY <1>1, <1>f, <1>i, CallTypes DEF Answer, Ends
<1>2. CASE AuditRaises(c)
  <2>1. PICK r \in CallRecords : /\ call' = [call EXCEPT ![c] = r]
                                 /\ r.pc \in {"fail", "idle"}
                                 /\ r.pc = "fail" => r.s = call[c].s
    BY <1>2, <1>i, RecordTypes DEF AuditRaises, Ends
  <2>2. QED BY <1>2, <1>f, <1>h, <2>1, CallTypes, FaultTypes DEF AuditRaises
<1>3. CASE FailBootstrap(c)
  <2>1. [doc[call[c].s] EXCEPT !.status = "FAILED"] \in Documents
    BY <1>3, <1>h, DocumentTypes DEF FailBootstrap, Statuses, Ended
  <2>2. QED BY <1>3, <1>f, <1>h, <1>i, <2>1, CallTypes DEF FailBootstrap, Ends
<1>4. CASE Retry(c)
  <2>1. [doc[call[c].s] EXCEPT !.status = "RUNNING"] \in Documents
    BY <1>4, <1>h, DocumentTypes DEF Retry, Statuses
  <2>2. PICK r \in CallRecords : /\ call' = [call EXCEPT ![c] = r]
                                 /\ r.pc = "answer" /\ r.s = call[c].s
    BY <1>4, RecordTypes DEF Retry
  <2>3. QED BY <1>4, <1>f, <1>h, <2>1, <2>2, CallTypes DEF Retry
<1>5. CASE Crash(c)
  BY <1>5, <1>f, <1>i, CallTypes, FaultTypes DEF Crash, Ends
<1>6. ASSUME NEW s \in Sessions, ReadForRetry(c, s)
      PROVE  Typed'
  <2> DEFINE saw == doc[s].status \in {"COMPLETED", "FLAGGED"}
             r == [Idle EXCEPT !.op = "retry", !.pc = "retry", !.s = s,
                               !.sawEnd = saw]
  <2>1. call' = [call EXCEPT ![c] = r]
    BY <1>6 DEF ReadForRetry
  <2>2. saw \in BOOLEAN
    OBVIOUS
  <2> HIDE DEF saw
  <2>3. r \in CallRecords /\ r.pc = "retry" /\ r.s = s
    BY <2>2 DEF Idle, CallRecords, Ops, Points
  <2> HIDE DEF r
  <2>4. QED BY <1>6, <1>f, <2>1, <2>3, KnownTypes, CallTypes DEF ReadForRetry
<1>7. QED BY <1>1, <1>2, <1>3, <1>4, <1>5, <1>6

(* Every variable keeps its type, and every call its document.                *)
LEMMA NextTypes == Typed /\ [Next]_vars => Typed'
<1> SUFFICES ASSUME Typed, [Next]_vars PROVE Typed'
  OBVIOUS
<1>1. ASSUME NEW s \in Sessions, LoseBootstrap(s)
      PROVE  Typed'
  BY <1>1, FaultTypes
  DEF LoseBootstrap, Typed, TypeOK, CallsOwn, KnownStored, Known, Loaded
<1>2. CASE UNCHANGED vars
  BY <1>2 DEF vars, Typed, TypeOK, CallsOwn, KnownStored, Known, Loaded
<1>3. QED BY <1>1, <1>2, StartTypes, StepTypes, EndTypes DEF Next

LEMMA InitTypes == Init => Typed
<1> SUFFICES ASSUME Init PROVE Typed
  OBVIOUS
<1>1. Idle \in CallRecords /\ Idle.pc = "idle"
  BY DEF Idle, CallRecords, Points
<1>2. TypeOK
  BY <1>1, SessionAssumption DEF SessionAssumption, Init, TypeOK
<1>3. CallsOwn /\ KnownStored
  BY <1>1 DEF Init, CallsOwn, KnownStored, Known, Loaded
<1>4. QED BY <1>2, <1>3 DEF Typed

LEMMA SpecTyped == Spec => []Typed
BY InitTypes, NextTypes, PTL DEF Spec

(* Documents, calls and key documents hold what the code stores in them:      *)
(* services/session_service.py and agent/marathon_loop.py.                    *)
THEOREM TypeCorrectness == Spec => []TypeOK
<1>1. Typed => TypeOK
  BY DEF Typed
<1>2. QED BY <1>1, SpecTyped, PTL

-----------------------------------------------------------------------------
(* What a step does to everything but its call and its session.               *)
Continues(c) ==
    \/ SingleStep(c) \/ Answer(c) \/ AuditRaises(c) \/ FailBootstrap(c)
    \/ Retry(c) \/ Crash(c) \/ \E s \in Sessions : ReadForRetry(c, s)

LEMMA CallFrame ==
    ASSUME Typed, NEW c \in Calls
    PROVE  /\ Fails(c) => /\ \A d \in Calls \ {c} : call'[d] = call[d]
                          /\ call'[c].pc = "fail" /\ call'[c].s = call[c].s
                          /\ ~call'[c].sawEnd
           /\ Ends(c) => /\ \A d \in Calls \ {c} : call'[d] = call[d]
                         /\ call'[c] = Idle
           /\ Returns(c) =>
                  /\ \A d \in Calls \ {c} : call'[d] = call[d]
                  /\ call'[c].pc = "answer" /\ call'[c].s = call[c].s
                  /\ ~call'[c].sawEnd
           /\ \A op, s : LoadState(c, op, s) =>
                  /\ \A d \in Calls \ {c} : call'[d] = call[d]
                  /\ call'[c].pc = IF doc[s].status = "QUEUED" THEN "enter" ELSE "decide"
                  /\ call'[c].s = s /\ call'[c].st = doc[s]
                  /\ call'[c].sawEnd <=> doc[s].status \in {"COMPLETED", "FLAGGED"}
           /\ Idle.pc = "idle" /\ Idle.s = None /\ ~Idle.sawEnd
<1> USE DEF Typed, TypeOK, Idle
<1>1. ASSUME Fails(c)
      PROVE  /\ \A d \in Calls \ {c} : call'[d] = call[d]
             /\ call'[c].pc = "fail" /\ call'[c].s = call[c].s
             /\ ~call'[c].sawEnd
  BY <1>1 DEF Fails
<1>2. Ends(c) => /\ \A d \in Calls \ {c} : call'[d] = call[d]
                 /\ call'[c] = Idle
  BY DEF Ends
<1>3. ASSUME Returns(c)
      PROVE  /\ \A d \in Calls \ {c} : call'[d] = call[d]
             /\ call'[c].pc = "answer" /\ call'[c].s = call[c].s
             /\ ~call'[c].sawEnd
  BY <1>3 DEF Returns
<1>4. ASSUME NEW op, NEW s, LoadState(c, op, s)
      PROVE  /\ \A d \in Calls \ {c} : call'[d] = call[d]
             /\ call'[c].pc = IF doc[s].status = "QUEUED" THEN "enter" ELSE "decide"
             /\ call'[c].s = s /\ call'[c].st = doc[s]
             /\ call'[c].sawEnd <=> doc[s].status \in {"COMPLETED", "FLAGGED"}
  <2>1. PICK spent \in BOOLEAN : call' = [call EXCEPT ![c] =
          [Idle EXCEPT !.op = op, !.s = s, !.st = doc[s], !.spent = spent,
                       !.sawEnd = doc[s].status \in {"COMPLETED", "FLAGGED"},
                       !.pc = IF doc[s].status = "QUEUED" THEN "enter" ELSE "decide"]]
    BY <1>4 DEF LoadState
  <2> DEFINE saw == doc[s].status \in {"COMPLETED", "FLAGGED"}
             pc == IF doc[s].status = "QUEUED" THEN "enter" ELSE "decide"
             r == [Idle EXCEPT !.op = op, !.s = s, !.st = doc[s], !.spent = spent,
                               !.sawEnd = saw, !.pc = pc]
  <2> HIDE DEF saw, pc
  <2>2. r.pc = pc /\ r.s = s /\ r.st = doc[s] /\ r.sawEnd = saw
    OBVIOUS
  <2>3. call'[c] = r /\ \A d \in Calls \ {c} : call'[d] = call[d]
    BY <2>1 DEF saw, pc
  <2> HIDE DEF r
  <2>4. QED BY <2>2, <2>3 DEF saw, pc
<1>5. Idle.pc = "idle" /\ Idle.s = None /\ ~Idle.sawEnd
  OBVIOUS
<1>6. QED BY <1>1, <1>2, <1>3, <1>4, <1>5

LEMMA StepFrame ==
    ASSUME Typed, NEW c \in Calls, Continues(c)
    PROVE  /\ \A d \in Calls \ {c} : call'[d] = call[d]
           /\ UNCHANGED <<key, keyOf, begun>>
           /\ \A s \in Sessions : s # call[c].s => doc'[s] = doc[s]
           /\ call[c].pc # "idle" => call'[c].s \in {None, call[c].s}
           /\ call[c].pc = "idle" => call'[c].s \in Known /\ UNCHANGED doc
           /\ call'[c].pc \notin {"create", "register", "record"}
           /\ call[c].pc \notin {"create", "register", "record"} \/ UNCHANGED doc
<1> USE DEF Typed, TypeOK
<1> DEFINE Goal ==
               /\ \A d \in Calls \ {c} : call'[d] = call[d]
               /\ UNCHANGED <<key, keyOf, begun>>
               /\ \A s \in Sessions : s # call[c].s => doc'[s] = doc[s]
               /\ call[c].pc # "idle" => call'[c].s \in {None, call[c].s}
               /\ call[c].pc = "idle" => call'[c].s \in Known /\ UNCHANGED doc
               /\ call'[c].pc \notin {"create", "register", "record"}
               /\ call[c].pc \notin {"create", "register", "record"} \/ UNCHANGED doc
<1>1. ASSUME NEW s \in Sessions, Bootstrap(c, s) \/ Tick(c, s)
      PROVE  Goal
  <2>1. s \in Known
    BY <1>1 DEF Bootstrap, Tick, Known
  <2>2. CASE \E op : LoadState(c, op, s)
    BY <1>1, <2>1, <2>2, CallFrame DEF Bootstrap, Tick
  <2>3. CASE Bootstrap(c, s) /\ ~TimestampLoads
    BY <2>1, <2>3 DEF Bootstrap, Idle
  <2>4. QED BY <1>1, <2>2, <2>3 DEF Bootstrap, Tick
<1>2. CASE EnterRunning(c) \/ BudgetSpent(c) \/ AlreadyEnded(c)
  <2>1. CASE EnterRunning(c)
    BY <2>1 DEF EnterRunning, CallRecords
  <2>2. CASE BudgetSpent(c)
    <3>1. call' = [call EXCEPT ![c].pc = "save", ![c].st = call'[c].st]
      BY <2>2 DEF BudgetSpent, CallRecords
    <3>2. \A s \in Sessions : s # call[c].s => doc'[s] = doc[s]
      BY <2>2 DEF BudgetSpent, SyncState
    <3>3. UNCHANGED <<key, begun, keyOf>> /\ call[c].pc = "decide"
      BY <2>2 DEF BudgetSpent
    <3>4. QED BY <3>1, <3>2, <3>3 DEF CallRecords
  <2>3. CASE AlreadyEnded(c)
    BY <2>3, CallFrame DEF AlreadyEnded
  <2>4. QED BY <1>2, <2>1, <2>2, <2>3
<1>3. CASE AnnounceImage(c) \/ AnnounceThought(c)
  BY <1>3 DEF AnnounceImage, AnnounceThought, Works, SyncStatus, SyncState, Moves,
              StepVars, CallRecords
<1>4. ASSUME UNCHANGED StepVars, call[c].pc \in Loaded,
             \/ \E st : GoesOn(c, st) \/ \E next : Concludes(c, st, next)
             \/ FailsSource(c) \/ \E status : Announces(c, status)
      PROVE  Goal
  <2>1. \A s \in Sessions : s # call[c].s => doc'[s] = doc[s]
    BY <1>4 DEF GoesOn, Concludes, Announces, FailsSource, SyncStatus, SyncState
  <2>2. /\ \A d \in Calls \ {c} : call'[d] = call[d]
        /\ call'[c].pc = "save" /\ call'[c].s = call[c].s
    <3>1. CASE \E st : GoesOn(c, st)
      BY <3>1 DEF GoesOn, CallRecords
    <3>2. CASE \E st, next : Concludes(c, st, next)
      BY <3>2 DEF Concludes, CallRecords
    <3>3. CASE FailsSource(c) \/ \E status : Announces(c, status)
      <4>1. ASSUME NEW x, NEW g,
                   call' = [call EXCEPT ![c].pc = "save", ![c].st.status = x,
                                        ![c].guarded = g]
            PROVE  /\ \A d \in Calls \ {c} : call'[d] = call[d]
                   /\ call'[c].pc = "save" /\ call'[c].s = call[c].s
        <5> DEFINE st == [call[c].st EXCEPT !.status = x]
        <5>1. call' = [call EXCEPT ![c].pc = "save", ![c].st = st, ![c].guarded = g]
          BY <4>1 DEF CallRecords
        <5> HIDE DEF st
        <5>2. QED BY <5>1 DEF CallRecords
      <4>2. CASE FailsSource(c)
        BY <4>1, <4>2 DEF FailsSource
      <4>3. CASE \E status : Announces(c, status)
        BY <4>1, <4>3 DEF Announces
      <4>4. QED BY <3>3, <4>2, <4>3
    <3>4. QED BY <1>4, <3>1, <3>2, <3>3
  <2>3. QED BY <1>4, <2>1, <2>2 DEF StepVars, Loaded
<1>5. CASE AnalyzeImage(c)
  BY <1>5, <1>4 DEF AnalyzeImage, Loaded
<1>6. CASE FlagSession(c) \/ CheckRecords(c) \/ Conclude(c)
  BY <1>6, <1>4 DEF FlagSession, CheckRecords, Works, Conclude, Loaded
<1>7. CASE VerifyBoundary(c)
  BY <1>7, <1>4 DEF VerifyBoundary, Works, Loaded, StepVars, CallRecords
<1>8. CASE SaveState(c) \/ SaveRaises(c) \/ StepRaises(c)
  <2>1. CASE SaveState(c)
    BY <2>1, CallFrame DEF SaveState, CallRecords
  <2>2. CASE SaveRaises(c)
    BY <2>2 DEF SaveRaises, StepVars, CallRecords
  <2>3. CASE StepRaises(c)
    BY <2>3, CallFrame DEF StepRaises
  <2>4. QED BY <1>8, <2>1, <2>2, <2>3
<1>9. CASE Answer(c) \/ AuditRaises(c) \/ FailBootstrap(c) \/ Retry(c) \/ Crash(c)
  BY <1>9, CallFrame DEF Answer, AuditRaises, FailBootstrap, Retry, Crash
<1>10. ASSUME NEW s \in Sessions, ReadForRetry(c, s)
       PROVE  Goal
  BY <1>10 DEF ReadForRetry, Idle, CallRecords
<1>11. QED
  BY <1>1, <1>2, <1>3, <1>5, <1>6, <1>7, <1>8, <1>9, <1>10 DEF Continues, SingleStep

-----------------------------------------------------------------------------
(* Idempotent start.                                                          *)
LEMMA OthersStart ==
    ASSUME Typed, StartInv, NEW c \in Calls, Continues(c)
    PROVE  StartInv'
<1> DEFINE pcs == {"create", "register", "record"}
<1>1. /\ \A d \in Calls \ {c} : call'[d] = call[d]
      /\ UNCHANGED <<key, keyOf, begun>>
      /\ \A s \in Sessions : s # call[c].s => doc'[s] = doc[s]
      /\ call[c].pc # "idle" => call'[c].s \in {None, call[c].s}
      /\ call[c].pc = "idle" => call'[c].s \in Known /\ UNCHANGED doc
      /\ call'[c].pc \notin {"create", "register", "record"}
  BY StepFrame
<1>2. FreshStarts'
  <2> SUFFICES ASSUME NEW b \in Calls, call'[b].pc \in {"create", "register"}
               PROVE  /\ call'[b].s \notin Known'
                      /\ \A d \in Calls \ {b} : call'[d].s # call'[b].s
                      /\ call'[b].pc = "create" => doc'[call'[b].s] = None
                      /\ call'[b].pc = "register" => keyOf'[call'[b].s] = call'[b].key
    BY DEF FreshStarts
  <2>1. b # c /\ call'[b] = call[b] /\ Known' = Known
    BY <1>1 DEF Known
  <2>2. /\ call[b].s \notin Known /\ call[b].s \in Sessions
        /\ \A d \in Calls \ {b} : call[d].s # call[b].s
        /\ call[b].pc = "create" => doc[call[b].s] = None
        /\ call[b].pc = "register" => keyOf[call[b].s] = call[b].key
    BY <2>1 DEF StartInv, FreshStarts, Typed, CallsOwn
  <2>3. call'[c].s # call[b].s
    BY <1>1, <2>1, <2>2, SessionAssumption DEF SessionAssumption
  <2>4. QED BY <1>1, <2>1, <2>2, <2>3
<1>3. KeysKept'
  BY <1>1 DEF StartInv, KeysKept, Registered
<1>4. QED BY <1>2, <1>3 DEF StartInv

LEMMA StartKeepsStart ==
    ASSUME Typed, StartInv, NEW c \in Calls, Start(c)
    PROVE  StartInv'
<1> USE SessionAssumption, NoneIsNoDocument
    DEF SessionAssumption, Typed, TypeOK, StartInv, CallRecords
<1>0. Idle.pc = "idle" /\ Idle.s = None
  BY DEF Idle
<1>1. ASSUME NEW u \in Users, NEW k \in StartKeys, NEW s \in Sessions,
             ResolveKey(c, u, k, s)
      PROVE  StartInv'
  <2>1. /\ call'[c].pc = "create" /\ call'[c].s = s
        /\ \A d \in Calls \ {c} : call'[d] = call[d]
    BY <1>1 DEF ResolveKey, Idle
  <2>2. s \notin Known
    BY <1>1 DEF ResolveKey, KnownStored
  <2>3. UNCHANGED <<doc, key, keyOf, begun>> /\ doc[s] = None /\ \A b \in Calls : call[b].s # s
    BY <1>1 DEF ResolveKey
  <2> HIDE DEF Typed, TypeOK, CallRecords
  <2>4. FreshStarts'
    BY <2>1, <2>2, <2>3 DEF FreshStarts, Known
  <2>5. KeysKept'
    BY <2>1, <2>3 DEF KeysKept, Registered
  <2>6. QED BY <2>4, <2>5
<1>2. CASE CreateSession(c)
  <2> DEFINE s == call[c].s
  <2>1. /\ s \in Sessions /\ s \notin Known /\ call[c].pc = "create"
        /\ \A d \in Calls \ {c} : call[d].s # s
    BY <1>2 DEF CreateSession, CallsOwn, FreshStarts
  <2>2. /\ call'[c].pc \in {"register", "record"} /\ call'[c].s = s
        /\ call'[c].key = call[c].key
        /\ call'[c].pc = "record" => call[c].key = None
        /\ \A d \in Calls \ {c} : call'[d] = call[d]
    BY <1>2 DEF CreateSession, Moves
  <2>3. /\ UNCHANGED <<key, begun>>
        /\ keyOf' = [keyOf EXCEPT ![s] = call[c].key]
        /\ \A t \in Sessions \ {s} : doc'[t] = doc[t]
    BY <1>2 DEF CreateSession
  <2>4. keyOf'[s] = call[c].key /\ \A t \in Sessions \ {s} : keyOf'[t] = keyOf[t]
    BY <2>1, <2>3
  <2>5. \A d \in Calls : call[d].pc # "idle" => call[d].s \in Sessions
    BY DEF CallsOwn
  <2>6. Known' = Known /\ begun \subseteq Sessions
    BY <2>3 DEF Known
  <2>7. FreshStarts'
    BY <2>1, <2>2, <2>3, <2>4, <2>5, <2>6 DEF FreshStarts
  <2>8. KeysKept'
    BY <2>1, <2>2, <2>3, <2>4, <2>5 DEF KeysKept, Registered, Known
  <2>9. QED BY <2>7, <2>8
<1>3. CASE RegisterKey(c)
  <2> DEFINE s == call[c].s
             k == call[c].key
  <2>1. /\ s \in Sessions /\ s \notin Known /\ k \in Keys /\ keyOf[s] = k
        /\ \A d \in Calls \ {c} : call[d].s # s
    BY <1>3 DEF RegisterKey, CallsOwn, FreshStarts
  <2>2. UNCHANGED <<doc, keyOf, begun>>
    BY <1>3 DEF RegisterKey
  <2>3. CASE key[k] = None /\ key' = [key EXCEPT ![k] = s] /\ Moves(c, "record")
    <3>1. /\ call'[c].pc = "record" /\ call'[c].s = s
          /\ \A d \in Calls \ {c} : call'[d] = call[d]
      BY <2>3 DEF Moves
    <3>2. key'[k] = s /\ \A l \in Keys \ {k} : key'[l] = key[l]
      BY <2>1, <2>3
    <3>3. Known' = Known \cup {s}
      BY <2>1, <2>2, <2>3, <3>2 DEF Known
    <3>4. \A t \in Sessions : Registered(t) => Registered(t)'
      BY <2>1, <2>2, <2>3, <3>2 DEF Registered
    <3>5. Registered(s)'
      BY <2>1, <2>2, <3>1, <3>2 DEF Registered
    <3>6. FreshStarts'
      BY <2>1, <2>2, <3>1, <3>3 DEF FreshStarts
    <3>7. KeysKept'
      BY <2>1, <2>2, <3>1, <3>4, <3>5 DEF KeysKept, CallsOwn
    <3>8. QED BY <3>6, <3>7
  <2>4. CASE Ends(c) /\ UNCHANGED key
    <3>1. call'[c] = Idle /\ \A d \in Calls \ {c} : call'[d] = call[d]
      BY <2>4 DEF Ends
    <3>2. Known' = Known /\ \A t \in Sessions : Registered(t)' = Registered(t)
      BY <2>2, <2>4 DEF Known, Registered
    <3>3. FreshStarts'
      BY <1>0, <2>2, <2>4, <3>1, <3>2 DEF FreshStarts, CallsOwn
    <3>4. KeysKept'
      BY <1>0, <2>2, <3>1, <3>2 DEF KeysKept, CallsOwn
    <3>5. QED BY <3>3, <3>4
  <2>5. QED BY <1>3, <2>3, <2>4 DEF RegisterKey
<1>4. CASE RecordStart(c)
  <2> DEFINE s == call[c].s
  <2>1. call'[c] = Idle /\ \A d \in Calls \ {c} : call'[d] = call[d]
    BY <1>4 DEF RecordStart, Ends
  <2>2. /\ UNCHANGED <<doc, key, keyOf>> /\ begun' \subseteq begun \cup {s}
        /\ s \in Sessions /\ call[c].pc = "record"
    BY <1>4 DEF RecordStart, CallsOwn
  <2>3. \A t \in Sessions : Registered(t)' = Registered(t)
    BY <2>2 DEF Registered
  <2>4. Known' \subseteq Known \cup {s}
    BY <2>2 DEF Known
  <2>5. FreshStarts'
    BY <1>0, <2>1, <2>2, <2>4 DEF FreshStarts, CallsOwn
  <2>6. KeysKept'
    BY <1>0, <2>1, <2>2, <2>3 DEF KeysKept, CallsOwn
  <2>7. QED BY <2>5, <2>6
<1>5. QED BY <1>1, <1>2, <1>3, <1>4 DEF Start

LEMMA NextStart == Typed /\ StartInv /\ [Next]_vars => StartInv'
<1> SUFFICES ASSUME Typed, StartInv, [Next]_vars PROVE StartInv'
  OBVIOUS
<1>1. ASSUME NEW s \in Sessions, LoseBootstrap(s)
      PROVE  StartInv'
  BY <1>1 DEF LoseBootstrap, StartInv, FreshStarts, KeysKept, Registered, Known
<1>2. CASE UNCHANGED vars
  BY <1>2 DEF vars, StartInv, FreshStarts, KeysKept, Registered, Known
<1>3. QED BY <1>1, <1>2, OthersStart, StartKeepsStart DEF Next, Continues

LEMMA InitStart == Init => StartInv
BY DEF Init, Idle, StartInv, FreshStarts, KeysKept

(* A repeated POST /audit/start with the same key never gets two              *)
(* investigations bootstrapped (services/session_service.py:95).              *)
THEOREM IdempotentStart == Spec => []OneInvestigationPerKey
<1>1. StartInv => OneInvestigationPerKey
  BY DEF StartInv, KeysKept, Registered, OneInvestigationPerKey
<1>2. QED BY <1>1, InitStart, NextStart, SpecTyped, PTL DEF Spec

-----------------------------------------------------------------------------
(* The evidence behind the checklist.                                         *)
LEMMA MergeBacked ==
    ASSUME NEW d \in Documents, NEW st \in Documents, Backed(st)
    PROVE  /\ Backed(Merge(d, st))
           /\ Merge(d, st).status = st.status
           /\ st.evidence \subseteq Merge(d, st).evidence
<1>1. /\ Merge(d, st).status = st.status
      /\ Merge(d, st).flags = st.flags
      /\ Merge(d, st).evidence = IF st.evidence = {} THEN {}
                                 ELSE st.evidence \cup d.evidence
  BY DEF Documents, Merge
<1>2. QED BY <1>1 DEF Backed

LEMMA BackedKept ==
    ASSUME NEW st \in Documents, Backed(st)
    PROVE  /\ \A checks \in SUBSET Checks :
                  /\ Backed(Register(st, checks))
                  /\ Register(st, checks).evidence = st.evidence \cup checks
                  /\ Register(st, checks).status = st.status
           /\ \A checks : Backed([st EXCEPT !.flags = @ \ checks])
           /\ \A x : Backed([st EXCEPT !.status = x])
           /\ \A x, h : Backed([st EXCEPT !.status = x, !.high = h])
BY DEF Documents, Register, Backed

(* What one step of c on its session s may do to the document and the call.   *)
Justified(s, c) ==
    faults' = 0 /\ doc'[s].status = "COMPLETED" =>
        \/ BudgetChecks \subseteq doc'[s].evidence
        \/ call'[c].s = s /\ call'[c].pc = "save"
        \/ /\ doc[s].status = "COMPLETED" /\ doc'[s].evidence = doc[s].evidence
           /\ call[c].pc # "save"
Stands(s, c) ==
    doc[s].status \in {"COMPLETED", "FLAGGED"} =>
        \/ doc'[s].status = doc[s].status
        \/ call'[c] # call[c] /\ (~call[c].sawEnd \/ call[c].spent)
Sound(s, c) ==
    /\ Local(call'[c])
    /\ doc'[s] # None => Backed(doc'[s])
    /\ Justified(s, c) /\ Stands(s, c)
    /\ faults' = 0 => faults = 0

LEMMA FaultCounts ==
    ASSUME Typed
    PROVE  \A f : Fault(f) => faults' # 0
BY SessionAssumption DEF SessionAssumption, Fault, Typed, TypeOK

(* A call past the tests of its step saw no end, or its budget is spent.      *)
LEMMA WorkingSound ==
    ASSUME Typed, StepInv, NEW c \in Calls, NEW st \in Documents, Backed(st),
           call[c].pc \in {"image", "conclude", "flag"} \/ Works(c),
           st.status = "COMPLETED" => BudgetChecks \subseteq st.evidence,
           Leaves(c, st), UNCHANGED StepVars
    PROVE  Sound(call[c].s, c)
<1> DEFINE s == call[c].s
           d == doc[s]
<1>1. /\ call[c] \in CallRecords /\ s \in Sessions /\ d \in Documents /\ d # None
      /\ call[c].pc # "save" /\ call \in [Calls -> CallRecords]
      /\ call[c].pc \in Loaded
      /\ doc \in [Sessions -> Documents \cup {None}]
  BY CallHolds DEF Works, Loaded, Typed, TypeOK
<1>2. Backed(d) /\ Local(call[c])
  BY <1>1 DEF StepInv, FlagsBacked, Backed
<1>3. ~call[c].sawEnd \/ call[c].spent
  BY <1>2 DEF Local, Works, Ended
<1>4. /\ call'[c].pc = "save" /\ call'[c].s = s /\ call'[c].st = st
      /\ call'[c].sawEnd = call[c].sawEnd /\ call'[c].spent = call[c].spent
  <2>1. PICK r \in CallRecords :
            /\ call' = [call EXCEPT ![c] = r]
            /\ r.pc = "save" /\ r.s = call[c].s /\ r.st = st
            /\ r.sawEnd = call[c].sawEnd /\ r.spent = call[c].spent
    BY <1>1, LeavesEffect
  <2>2. QED BY <1>1, <2>1
<1>5. /\ doc'[s].flags = d.flags /\ doc'[s].evidence = d.evidence
      /\ doc' = doc \/ call'[c] # call[c]
      /\ faults' = 0 => faults = 0
  <2>1. CASE UNCHANGED <<doc, faults>>
    BY <2>1
  <2>2. ASSUME NEW h \in BOOLEAN,
               SyncState(s, [d EXCEPT !.status = st.status, !.high = h])
        PROVE  /\ doc'[s].flags = d.flags /\ doc'[s].evidence = d.evidence
               /\ faults' = 0 => faults = 0
    <3>1. \/ /\ doc'[s] = [d EXCEPT !.status = st.status, !.high = h]
             /\ faults' = faults
          \/ doc' = doc /\ faults' # 0
      BY <1>1, <2>2, FaultCounts DEF SyncState
    <3>2. QED BY <1>1, <3>1 DEF Documents
  <2>3. call'[c] # call[c]
    BY <1>1, <1>4
  <2>4. QED BY <1>1, <2>1, <2>2, <2>3, LeavesEffect
<1>6. Local(call'[c])
  BY <1>3, <1>4 DEF Local
<1>7. Backed(doc'[s])
  BY <1>2, <1>5 DEF Backed
<1>8. Justified(s, c) /\ Stands(s, c)
  BY <1>3, <1>4, <1>5 DEF Justified, Stands
<1>9. QED BY <1>5, <1>6, <1>7, <1>8 DEF Sound

LEMMA AnnouncingSound ==
    ASSUME Typed, StepInv, NEW c \in Calls, Works(c), NEW pc \in {"image", "conclude"},
           Moves(c, pc), SyncStatus(call[c].s, "RUNNING"), UNCHANGED StepVars,
           pc = "conclude" => "image" \in call[c].st.flags
    PROVE  Sound(call[c].s, c)
<1> DEFINE s == call[c].s
           d == doc[s]
<1>1. /\ call[c] \in CallRecords /\ s \in Sessions /\ d \in Documents /\ d # None
      /\ call \in [Calls -> CallRecords] /\ call[c].pc = "decide"
      /\ doc \in [Sessions -> Documents \cup {None}]
  BY CallHolds DEF Works, Loaded, Typed, TypeOK
<1>2. Backed(d) /\ Local(call[c])
  BY <1>1 DEF StepInv, FlagsBacked, Backed
<1>3. ~call[c].sawEnd \/ call[c].spent
  BY <1>2 DEF Local, Works, Ended
<1>4. /\ call'[c].pc = pc /\ call'[c].s = s /\ call'[c].st = call[c].st
      /\ call'[c].sawEnd = call[c].sawEnd /\ call'[c].spent = call[c].spent
  BY <1>1 DEF Moves, CallRecords
<1>5. /\ doc'[s].flags = d.flags /\ doc'[s].evidence = d.evidence
      /\ doc'[s].status = "COMPLETED" => doc[s].status = "COMPLETED"
      /\ faults' = 0 => faults = 0
  <2>1. SyncState(s, [d EXCEPT !.status = "RUNNING"])
    BY DEF SyncStatus
  <2>2. \/ doc'[s] = [d EXCEPT !.status = "RUNNING"] /\ faults' = faults
        \/ doc' = doc /\ faults' # 0
    BY <1>1, <2>1, FaultCounts DEF SyncState
  <2>3. QED BY <1>1, <2>2 DEF Documents
<1>6. call'[c] # call[c]
  BY <1>1, <1>4
<1>7. Local(call'[c])
  BY <1>1, <1>2, <1>3, <1>4 DEF Local, Works, Ended, Loaded
<1>8. Backed(doc'[s])
  BY <1>2, <1>5 DEF Backed
<1>9. Justified(s, c) /\ Stands(s, c)
  BY <1>1, <1>3, <1>5, <1>6, <1>8 DEF Justified, Stands
<1>10. QED BY <1>5, <1>7, <1>8, <1>9 DEF Sound

(* Loading: nothing is written, and the snapshot is the document.             *)
LEMMA LoadSound ==
    ASSUME Typed, StepInv, NEW c \in Calls, NEW s \in Sessions,
           Bootstrap(c, s) \/ Tick(c, s) \/ ReadForRetry(c, s)
    PROVE  /\ Local(call'[c])
           /\ UNCHANGED <<doc, faults>>
<1>1. s \in Known /\ doc[s] \in Documents /\ doc[s] # None
  BY KnownTypes DEF Bootstrap, Tick, ReadForRetry, Typed, TypeOK, Known
<1>2. Backed(doc[s])
  BY <1>1 DEF StepInv, FlagsBacked, Backed
<1>3. UNCHANGED <<doc, faults>>
  BY DEF Bootstrap, Tick, ReadForRetry
<1>4. ASSUME NEW op, LoadState(c, op, s)
      PROVE  Local(call'[c])
  BY <1>2, <1>4, CallFrame DEF Local
<1>5. CASE Bootstrap(c, s) /\ ~TimestampLoads
  <2>1. call'[c].pc = "fail" /\ ~call'[c].sawEnd
    BY <1>5 DEF Bootstrap, Idle, Typed, TypeOK
  <2>2. QED BY <1>3, <2>1 DEF Local, Loaded
<1>6. CASE ReadForRetry(c, s)
  <2>1. call'[c].pc = "retry" /\ ~call'[c].sawEnd
    BY <1>6 DEF ReadForRetry, Idle, Typed, TypeOK, Retriable
  <2>2. QED BY <1>3, <2>1 DEF Local, Loaded
<1>7. QED BY <1>3, <1>4, <1>5, <1>6 DEF Bootstrap, Tick

LEMMA StepSound ==
    ASSUME Typed, StepInv, NEW c \in Calls, SingleStep(c), call[c].pc # "idle"
    PROVE  Sound(call[c].s, c)
<1> DEFINE s == call[c].s
           d == doc[s]
           st == call[c].st
<1>1. /\ call[c].pc \in Loaded
      /\ call[c] \in CallRecords /\ s \in Sessions /\ d \in Documents /\ d # None
      /\ st \in Documents
      /\ call \in [Calls -> CallRecords]
      /\ doc \in [Sessions -> Documents \cup {None}]
  <2>1. call[c].pc \in Loaded
    BY DEF SingleStep, Bootstrap, Tick, EnterRunning, BudgetSpent, AlreadyEnded,
           AnnounceImage, AnalyzeImage, VerifyBoundary, FlagSession, CheckRecords,
           AnnounceThought, Conclude, Works, SaveState, SaveRaises, StepRaises, Loaded
  <2>2. QED BY <2>1, CallHolds DEF Loaded, Typed, TypeOK
<1>2. Backed(d) /\ Local(call[c]) /\ Backed(st)
  BY <1>1 DEF StepInv, FlagsBacked, Backed, Local
<1>3. CASE EnterRunning(c)
  <2> DEFINE new == [st EXCEPT !.status = "RUNNING"]
  <2>1. new \in Documents /\ Backed(new) /\ new.status = "RUNNING"
    BY <1>1, <1>2, DocumentTypes, BackedKept DEF Statuses, Documents
  <2>2. doc'[s] = Merge(d, new) /\ call' = [call EXCEPT ![c].pc = "decide", ![c].st = new]
    BY <1>1, <1>3 DEF EnterRunning
  <2> HIDE DEF new
  <2>3. /\ call'[c].pc = "decide" /\ call'[c].s = s /\ call'[c].st = new
        /\ call'[c].sawEnd = call[c].sawEnd /\ call'[c].spent = call[c].spent
    BY <1>1, <2>2 DEF CallRecords
  <2>4. Backed(doc'[s]) /\ doc'[s].status = "RUNNING"
    BY <1>1, <2>1, <2>2, MergeBacked
  <2>5. call[c].pc = "enter" /\ UNCHANGED faults
    BY <1>3 DEF EnterRunning
  <2>6. ~call[c].sawEnd \/ call[c].spent
    BY <1>2, <2>5 DEF Local
  <2>7. Local(call'[c])
    BY <2>1, <2>3, <2>6 DEF Local
  <2>9. Justified(s, c) /\ Stands(s, c)
    BY <2>3, <2>4, <2>5, <2>6 DEF Justified, Stands
  <2>10. QED BY <2>4, <2>5, <2>7, <2>9 DEF Sound
<1>4. CASE BudgetSpent(c)
  <2> DEFINE done == BudgetChecks \subseteq st.evidence
             status == IF done THEN "COMPLETED" ELSE "WAITING"
             new == [st EXCEPT !.status = status, !.high = @ /\ ~done]
  <2>1. /\ new.status = status /\ new.flags = st.flags /\ new.evidence = st.evidence
        /\ status = "COMPLETED" => done
    BY <1>1 DEF Documents
  <2>2. /\ SyncState(s, [d EXCEPT !.status = new.status, !.high = @ /\ ~done])
        /\ call' = [call EXCEPT ![c].pc = "save", ![c].st = new]
        /\ call[c].pc = "decide" /\ call[c].spent
    BY <1>4 DEF BudgetSpent
  <2> HIDE DEF status, new
  <2>3. /\ call'[c].pc = "save" /\ call'[c].s = s /\ call'[c].st = new
        /\ call'[c].spent
    BY <1>1, <2>2 DEF CallRecords
  <2>4. \/ /\ doc'[s] = [d EXCEPT !.status = new.status, !.high = @ /\ ~done]
           /\ faults' = faults
        \/ doc' = doc /\ faults' # 0
    BY <1>1, <2>2, FaultCounts DEF SyncState
  <2>5. doc'[s].flags = d.flags /\ doc'[s].evidence = d.evidence
    BY <1>1, <2>4 DEF Documents
  <2>6. Backed(doc'[s]) /\ call'[c] # call[c]
    BY <1>2, <2>2, <2>3, <2>5 DEF Backed
  <2>7. Local(call'[c])
    BY <1>2, <2>1, <2>3 DEF Local, Backed
  <2>8. Justified(s, c) /\ Stands(s, c)
    BY <2>2, <2>3, <2>6 DEF Justified, Stands
  <2>9. QED BY <2>2, <2>4, <2>6, <2>7, <2>8 DEF Sound
<1>5. CASE AlreadyEnded(c)
  <2>1. call'[c].pc = "answer" /\ call'[c].s = s /\ ~call'[c].sawEnd
    BY <1>5, CallFrame DEF AlreadyEnded
  <2>2. UNCHANGED <<doc, faults>> /\ call[c].pc = "decide"
    BY <1>5 DEF AlreadyEnded
  <2>3. Local(call'[c])
    BY <2>1 DEF Local, Loaded
  <2>4. QED BY <1>2, <2>1, <2>2, <2>3 DEF Sound, Justified, Stands
<1>6. CASE AnnounceImage(c)
  BY <1>6, AnnouncingSound DEF AnnounceImage
<1>7. CASE AnnounceThought(c)
  BY <1>7, AnnouncingSound DEF AnnounceThought
<1>8. CASE AnalyzeImage(c)
  <2> DEFINE new == [st EXCEPT !.status = "RUNNING"]
  <2>1. new \in Documents /\ Backed(new) /\ new.status = "RUNNING"
    BY <1>1, <1>2, DocumentTypes, BackedKept DEF Statuses, Documents
  <2>2. /\ \/ GoesOn(c, Register(new, {"image"}))
           \/ GoesOn(c, [new EXCEPT !.flags = @ \ {"image"}])
           \/ FailsSource(c)
        /\ UNCHANGED StepVars /\ call[c].pc = "image"
    BY <1>8 DEF AnalyzeImage
  <2> HIDE DEF new
  <2>3. /\ Register(new, {"image"}) \in Documents
        /\ Backed(Register(new, {"image"})) /\ Register(new, {"image"}).status = "RUNNING"
    BY <2>1, DocumentTypes, BackedKept DEF Checks
  <2>4. new.flags \ {"image"} \in SUBSET Checks
    BY <2>1 DEF Documents
  <2>5. /\ [new EXCEPT !.flags = @ \ {"image"}] \in Documents
        /\ Backed([new EXCEPT !.flags = @ \ {"image"}])
        /\ [new EXCEPT !.flags = @ \ {"image"}].status = "RUNNING"
    BY <2>1, <2>4, DocumentTypes, BackedKept DEF Documents
  <2>6. /\ [st EXCEPT !.status = "FAILED"] \in Documents
        /\ Backed([st EXCEPT !.status = "FAILED"])
        /\ [st EXCEPT !.status = "FAILED"].status = "FAILED"
    BY <1>1, <1>2, DocumentTypes, BackedKept DEF Documents, Statuses, Ended
  <2>7. \/ Leaves(c, Register(new, {"image"}))
        \/ Leaves(c, [new EXCEPT !.flags = @ \ {"image"}])
        \/ Leaves(c, [st EXCEPT !.status = "FAILED"])
    BY <2>2 DEF Leaves
  <2>8. QED BY <2>2, <2>3, <2>5, <2>6, <2>7, WorkingSound
<1>9. CASE VerifyBoundary(c)
  <2> DEFINE verified == Register(st, {"physical"})
             waiting == [st EXCEPT !.status = "WAITING"]
  <2>0. Works(c) /\ UNCHANGED StepVars /\ call[c].pc = "decide"
    BY <1>9 DEF VerifyBoundary, Works
  <2>1. /\ verified \in Documents /\ Backed(verified) /\ verified.status = st.status
        /\ verified.evidence = st.evidence \cup {"physical"}
    BY <1>1, <1>2, DocumentTypes, BackedKept DEF Checks
  <2>2. waiting \in Documents /\ Backed(waiting) /\ waiting.status = "WAITING"
    BY <1>1, <1>2, DocumentTypes, BackedKept DEF Statuses, Documents
  <2>3. st.status # "COMPLETED"
    BY <2>0 DEF Works, Ended
  <2>4. \/ Leaves(c, waiting) \/ Leaves(c, st) \/ Leaves(c, verified)
        \/ /\ call' = [call EXCEPT ![c].pc = "save", ![c].st = verified,
                                    ![c].next = "flag", ![c].guarded = TRUE]
           /\ UNCHANGED <<doc, faults>>
    BY <1>9, <2>2 DEF VerifyBoundary, Leaves
  <2> HIDE DEF verified, waiting
  <2>5. CASE /\ call' = [call EXCEPT ![c].pc = "save", ![c].st = verified,
                                     ![c].next = "flag", ![c].guarded = TRUE]
             /\ UNCHANGED <<doc, faults>>
    <3>1. /\ call'[c].pc = "save" /\ call'[c].s = s /\ call'[c].st = verified
          /\ call'[c].sawEnd = call[c].sawEnd /\ call'[c].spent = call[c].spent
      BY <1>1, <2>5 DEF CallRecords
    <3>2. ~call[c].sawEnd \/ call[c].spent
      BY <1>2, <2>0 DEF Local, Works, Ended
    <3>3. Local(call'[c])
      BY <2>1, <2>3, <3>1, <3>2 DEF Local
    <3>4. QED BY <1>2, <2>0, <2>5, <3>3 DEF Sound, Justified, Stands
  <2>6. QED BY <1>1, <1>2, <2>0, <2>1, <2>2, <2>3, <2>4, <2>5, WorkingSound
<1>10. CASE FlagSession(c)
  <2> DEFINE new == [st EXCEPT !.status = "FLAGGED", !.high = TRUE]
  <2>1. new \in Documents /\ Backed(new) /\ new.status = "FLAGGED"
    BY <1>1, <1>2, DocumentTypes, BackedKept DEF Statuses, Ended, Documents
  <2>2. Leaves(c, new) /\ UNCHANGED StepVars /\ call[c].pc = "flag"
    BY <1>10 DEF FlagSession, Leaves
  <2> HIDE DEF new
  <2>3. QED BY <2>1, <2>2, WorkingSound
<1>11. CASE CheckRecords(c)
  <2> DEFINE found == Register(st, {"title", "additional", "zoning"})
             history == Register(found, {"historical"})
             failed == [st EXCEPT !.status = "FAILED"]
             fraud == [st EXCEPT !.status = "FAILED", !.high = TRUE]
  <2>1. Works(c) /\ UNCHANGED StepVars /\ st.status # "COMPLETED"
    BY <1>11 DEF CheckRecords, Works, Ended
  <2>2. \/ Leaves(c, failed) \/ Leaves(c, st) \/ Leaves(c, fraud)
        \/ Leaves(c, found) \/ Leaves(c, history)
    BY <1>11 DEF CheckRecords, Leaves
  <2>3. found \in Documents /\ Backed(found) /\ found.status = st.status
    BY <1>1, <1>2, DocumentTypes, BackedKept DEF Checks
  <2> HIDE DEF found
  <2>4. history \in Documents /\ Backed(history) /\ history.status = st.status
    BY <2>3, DocumentTypes, BackedKept DEF Checks
  <2>5. failed \in Documents /\ Backed(failed) /\ failed.status = "FAILED"
    BY <1>1, <1>2, DocumentTypes, BackedKept DEF Statuses, Ended, Documents
  <2>6. fraud \in Documents /\ Backed(fraud) /\ fraud.status = "FAILED"
    BY <1>1, <1>2, DocumentTypes, BackedKept DEF Statuses, Ended, Documents
  <2> HIDE DEF history, failed, fraud
  <2>7. QED BY <1>1, <1>2, <2>1, <2>2, <2>3, <2>4, <2>5, <2>6, WorkingSound
<1>12. CASE Conclude(c)
  <2> DEFINE status == IF DecisionChecks \subseteq st.evidence
                       THEN IF st.high THEN "FLAGGED" ELSE "COMPLETED"
                       ELSE "WAITING"
             new == [st EXCEPT !.status = status]
  <2>1. new \in Documents /\ Backed(new) /\ new.status = status
    BY <1>1, <1>2, DocumentTypes, BackedKept DEF Statuses, Ended, Documents
  <2>2. Leaves(c, new) /\ UNCHANGED StepVars /\ call[c].pc = "conclude"
    BY <1>12, <2>1 DEF Conclude, Leaves
  <2>3. "image" \in st.evidence
    BY <1>2, <2>2 DEF Local, Backed
  <2>4. status = "COMPLETED" => BudgetChecks \subseteq st.evidence
    BY <2>3 DEF DecisionChecks, BudgetChecks
  <2> HIDE DEF status
  <2>5. new.evidence = st.evidence
    BY <1>1 DEF Documents
  <2> HIDE DEF new
  <2>6. QED BY <2>1, <2>2, <2>4, <2>5, WorkingSound
<1>13. CASE SaveState(c)
  <2>1. /\ doc'[s] = Merge(d, st) /\ call[c].pc = "save" /\ UNCHANGED faults
    BY <1>1, <1>13 DEF SaveState
  <2>2. /\ Backed(doc'[s]) /\ doc'[s].status = st.status
        /\ BudgetChecks \subseteq st.evidence => BudgetChecks \subseteq doc'[s].evidence
    BY <1>1, <1>2, <2>1, MergeBacked
  <2>3. ~call[c].sawEnd \/ call[c].spent
    BY <1>2, <2>1 DEF Local
  <2>4. /\ call'[c].s = s
        /\ \/ /\ call'[c].pc \in {"flag", "save"} /\ call'[c].st = st
              /\ call'[c].sawEnd = call[c].sawEnd /\ call'[c].spent = call[c].spent
           \/ call'[c].pc = "answer" /\ ~call'[c].sawEnd
        /\ call'[c] # call[c]
    <3>1. CASE call[c].next # "answer"
      <4>1. call' = [call EXCEPT ![c].pc = call[c].next, ![c].next = "answer"]
        BY <1>13, <3>1 DEF SaveState
      <4>2. call[c].next \in {"flag", "save"}
        BY <1>1, <3>1 DEF CallRecords
      <4>3. call'[c].next = "answer"
        BY <1>1, <4>1 DEF CallRecords
      <4>4. QED BY <1>1, <3>1, <4>1, <4>2, <4>3 DEF CallRecords
    <3>2. CASE call[c].next = "answer"
      BY <1>13, <2>1, <3>2, CallFrame DEF SaveState
    <3>3. QED BY <3>1, <3>2
  <2>5. Local(call'[c])
    BY <1>2, <2>1, <2>3, <2>4 DEF Local, Loaded
  <2>7. st.status = "COMPLETED" => BudgetChecks \subseteq st.evidence
    BY <1>2, <2>1 DEF Local
  <2>8. QED BY <2>1, <2>2, <2>3, <2>4, <2>5, <2>7
            DEF Sound, Justified, Stands
<1>14. CASE SaveRaises(c)
  <2>1. PICK new \in {st, [st EXCEPT !.status = "FAILED"]} :
            /\ doc' = [doc EXCEPT ![s].status = IF new = st THEN @ ELSE "FAILED"]
            /\ call' = [call EXCEPT ![c].st = new, ![c].guarded = FALSE,
                                    ![c].next = "answer"]
    BY <1>14 DEF SaveRaises
  <2>2. /\ call[c].pc = "save" /\ call[c].guarded /\ faults' # 0
    BY <1>14, FaultCounts DEF SaveRaises
  <2>3. /\ new.flags = st.flags /\ new.evidence = st.evidence
        /\ new = st \/ new.status = "FAILED"
    BY <1>1 DEF Documents
  <2>4. /\ doc'[s].flags = d.flags
        /\ doc'[s].evidence = d.evidence
    BY <1>1, <2>1 DEF Documents
  <2> HIDE DEF st
  <2>5. /\ call'[c].pc = "save" /\ call'[c].st = new /\ ~call'[c].guarded
        /\ call'[c].sawEnd = call[c].sawEnd /\ call'[c].spent = call[c].spent
    BY <1>1, <2>1, <2>2 DEF CallRecords
  <2>6. ~call[c].sawEnd \/ call[c].spent
    BY <1>2, <2>2 DEF Local
  <2>7. Local(call'[c])
    BY <1>2, <2>2, <2>3, <2>5, <2>6 DEF Local, Backed, st
  <2>8. Backed(doc'[s]) /\ call'[c] # call[c]
    BY <1>2, <2>2, <2>4, <2>5 DEF Backed
  <2>9. QED BY <2>2, <2>6, <2>7, <2>8 DEF Sound, Justified, Stands
<1>15. CASE StepRaises(c)
  <2>1. faults' # 0 /\ UNCHANGED doc
    BY <1>15, FaultCounts DEF StepRaises
  <2>2. call'[c].pc \in {"fail", "idle"} /\ ~call'[c].sawEnd
    BY <1>15, CallFrame DEF StepRaises
  <2>3. QED BY <1>2, <2>1, <2>2 DEF Sound, Local, Loaded, Justified, Stands
<1>16. QED
  BY <1>3, <1>4, <1>5, <1>6, <1>7, <1>8, <1>9, <1>10, <1>11, <1>12, <1>13, <1>14,
     <1>15 DEF SingleStep, Bootstrap, Tick

LEMMA EndSound ==
    ASSUME Typed, StepInv, NEW c \in Calls, call[c].pc # "idle",
           Answer(c) \/ AuditRaises(c) \/ FailBootstrap(c) \/ Retry(c) \/ Crash(c)
    PROVE  Sound(call[c].s, c)
<1> DEFINE s == call[c].s
           d == doc[s]
<1>1. /\ s \in Sessions /\ call[c] \in CallRecords
      /\ d # None => d \in Documents /\ Backed(d)
      /\ doc \in [Sessions -> Documents \cup {None}]
      /\ Local(call[c])
  BY DEF Typed, TypeOK, CallsOwn, StepInv, FlagsBacked, Backed
<1>2. CASE UNCHANGED doc /\ faults' # 0 /\ (Fails(c) \/ Ends(c))
  <2>1. call'[c].pc \in {"fail", "idle"} /\ ~call'[c].sawEnd
    BY <1>2, CallFrame
  <2>2. QED BY <1>1, <1>2, <2>1 DEF Sound, Local, Loaded, Justified, Stands
<1>3. CASE AuditRaises(c) \/ Crash(c)
  BY <1>2, <1>3, FaultCounts DEF AuditRaises, Crash
<1>4. CASE Answer(c)
  <2>1. UNCHANGED <<doc, faults>> /\ call'[c] = Idle /\ call[c].pc = "answer"
    BY <1>4, CallFrame DEF Answer
  <2>2. Local(Idle)
    BY CallFrame DEF Local, Loaded
  <2>3. QED BY <1>1, <2>1, <2>2 DEF Sound, Justified, Stands
<1>5. CASE FailBootstrap(c)
  <2>1. d \in Documents /\ call[c].pc = "fail"
    BY <1>5, CallHolds DEF FailBootstrap
  <2>2. /\ doc'[s] = [d EXCEPT !.status = "FAILED"] /\ call'[c] = Idle
        /\ UNCHANGED faults
    BY <1>1, <1>5, CallFrame DEF FailBootstrap
  <2>3. doc'[s].status = "FAILED" /\ Backed(doc'[s])
    <3>1. Backed(d)
      BY <1>1, <2>1, NoneIsNoDocument
    <3>2. QED BY <2>1, <2>2, <3>1 DEF Documents, Backed
  <2>4. ~call[c].sawEnd \/ call[c].spent
    BY <1>1, <2>1 DEF Local
  <2>5. Local(Idle) /\ Idle # call[c]
    BY <2>1, CallFrame DEF Local, Loaded
  <2>6. QED BY <2>2, <2>3, <2>4, <2>5 DEF Sound, Justified, Stands
<1>6. CASE Retry(c)
  <2>1. d \in Documents /\ call[c].pc = "retry"
    BY <1>6, CallHolds DEF Retry
  <2>2. /\ doc'[s] = [d EXCEPT !.status = "RUNNING"] /\ UNCHANGED faults
        /\ call'[c].pc = "answer" /\ call'[c].s = s
        /\ ~call'[c].sawEnd
    BY <1>1, <1>6, CallFrame DEF Retry
  <2>3. doc'[s].status = "RUNNING" /\ Backed(doc'[s])
    <3>1. Backed(d)
      BY <1>1, <2>1, NoneIsNoDocument
    <3>2. QED BY <2>1, <2>2, <3>1 DEF Documents, Backed
  <2>4. ~call[c].sawEnd \/ call[c].spent
    BY <1>1, <2>1 DEF Local
  <2>5. Local(call'[c]) /\ call'[c] # call[c]
    BY <2>1, <2>2 DEF Local, Loaded
  <2>6. QED BY <2>2, <2>3, <2>4, <2>5 DEF Sound, Justified, Stands
<1>7. QED BY <1>3, <1>4, <1>5, <1>6

(* The effect of any step on the claims about documents and calls.            *)
ClaimsInv == StepInv /\ ConclusionJustified

LEMMA ContinuesClaims ==
    ASSUME Typed, ClaimsInv, NEW c \in Calls, Continues(c)
    PROVE  /\ ClaimsInv'
           /\ \A s \in Sessions :
                  doc[s] # None /\ doc[s].status \in {"COMPLETED", "FLAGGED"} =>
                      doc'[s].status = doc[s].status \/ EndedOverwritten(s)
<1>0. /\ \A e \in Calls \ {c} : call'[e] = call[e]
      /\ \A s \in Sessions : s # call[c].s => doc'[s] = doc[s]
      /\ call[c].pc \in {"idle", "create"} => UNCHANGED doc
  BY StepFrame
<1>1. CASE call[c].pc = "idle"
  <2>1. PICK u \in Sessions : Bootstrap(c, u) \/ Tick(c, u) \/ ReadForRetry(c, u)
    BY <1>1 DEF Continues, SingleStep, EnterRunning, BudgetSpent, AlreadyEnded,
                AnnounceImage, AnalyzeImage, VerifyBoundary, FlagSession, CheckRecords,
                AnnounceThought, Conclude, Works, SaveState, SaveRaises, StepRaises,
                Answer, AuditRaises, FailBootstrap, Retry, Crash
  <2>2. Local(call'[c]) /\ UNCHANGED <<doc, faults>>
    BY <2>1, LoadSound DEF ClaimsInv
  <2>3. StepInv'
    BY <1>0, <2>2 DEF ClaimsInv, StepInv, FlagsBacked
  <2>4. ConclusionJustified'
    BY <1>0, <1>1, <2>2 DEF ClaimsInv, ConclusionJustified
  <2>5. QED BY <2>2, <2>3, <2>4 DEF ClaimsInv
<1>2. CASE call[c].pc # "idle"
  <2> DEFINE s == call[c].s
  <2>1. s \in Sessions
    BY <1>2 DEF Typed, CallsOwn
  <2>2. Sound(s, c)
    BY <1>2, StepSound, EndSound DEF Continues, ReadForRetry, ClaimsInv
  <2> HIDE DEF s
  <2>3. StepInv'
    <3>1. \A e \in Calls : Local(call'[e])
      BY <1>0, <2>2 DEF ClaimsInv, StepInv, Sound
    <3>2. FlagsBacked'
      BY <1>0, <2>2 DEF ClaimsInv, StepInv, FlagsBacked, Sound, Backed, s
    <3>3. QED BY <3>1, <3>2 DEF StepInv
  <2>4. ASSUME NEW t \in Sessions, faults' = 0, doc'[t] # None,
               doc'[t].status = "COMPLETED"
        PROVE  \/ BudgetChecks \subseteq doc'[t].evidence
               \/ \E e \in Calls : call'[e].s = t /\ call'[e].pc = "save"
    <3>1. faults = 0
      BY <2>2, <2>4 DEF Sound
    <3>2. CASE t # s
      BY <1>0, <2>4, <3>1, <3>2 DEF ClaimsInv, ConclusionJustified, s
    <3>3. CASE t = s
      <4>1. \/ BudgetChecks \subseteq doc'[s].evidence
            \/ call'[c].s = s /\ call'[c].pc = "save"
            \/ /\ doc[s].status = "COMPLETED" /\ doc'[s].evidence = doc[s].evidence
               /\ call[c].pc # "save"
        BY <2>2, <2>4, <3>3 DEF Sound, Justified
      <4>2. doc[s] # None
        BY <1>0, <1>2, <2>4, <3>3, CallHolds DEF s
      <4>3. QED BY <1>0, <2>1, <3>1, <3>3, <4>1, <4>2 DEF ClaimsInv, ConclusionJustified
    <3>4. QED BY <3>2, <3>3
  <2>5. ConclusionJustified'
    BY <2>4 DEF ConclusionJustified
  <2>8. \A t \in Sessions :
            doc[t] # None /\ doc[t].status \in {"COMPLETED", "FLAGGED"} =>
                doc'[t].status = doc[t].status \/ EndedOverwritten(t)
    BY <1>0, <2>2 DEF Sound, Stands, EndedOverwritten, s
  <2>9. QED BY <2>3, <2>5, <2>8 DEF ClaimsInv
<1>3. QED BY <1>1, <1>2

(* A start works on a session nobody holds: it changes no claim.              *)
LEMMA StartClaims ==
    ASSUME Typed, StartInv, ClaimsInv, NEW c \in Calls, Start(c)
    PROVE  /\ ClaimsInv'
           /\ \A s \in Sessions : doc[s] # None => doc'[s] = doc[s]
<1> DEFINE new(s) == doc[s] = None /\ doc'[s] = NewDocument
<1>0. Ends(c) => /\ \A e \in Calls \ {c} : call'[e] = call[e]
                 /\ call'[c].pc = "idle" /\ ~call'[c].sawEnd
  BY CallFrame
<1>1. /\ \A s \in Sessions : doc'[s] = doc[s] \/ new(s)
      /\ \A e \in Calls \ {c} : call'[e] = call[e]
      /\ call[c].pc \in {"idle", "create", "register", "record"}
      /\ call'[c].pc \in {"idle", "create", "register", "record"}
      /\ \/ ~call'[c].sawEnd
         \/ call'[c].sawEnd = call[c].sawEnd /\ call'[c].spent = call[c].spent
      /\ faults' = 0 => faults = 0
  <2> USE DEF Typed, TypeOK
  <2>1. ASSUME NEW u \in Users, NEW k \in StartKeys, NEW s \in Sessions,
               ResolveKey(c, u, k, s)
        PROVE  /\ \A e \in Calls \ {c} : call'[e] = call[e]
               /\ call'[c].pc = "create" /\ ~call'[c].sawEnd
               /\ call[c].pc = "idle" /\ UNCHANGED <<doc, faults>>
    BY <2>1 DEF ResolveKey, Idle
  <2>2. CASE CreateSession(c)
    <3>1. call[c].s \in Sessions /\ doc[call[c].s] = None
      BY <2>2 DEF CreateSession, StartInv, FreshStarts, CallsOwn
    <3>2. \A s \in Sessions : doc'[s] = doc[s] \/ new(s)
      BY <2>2, <3>1 DEF CreateSession
    <3>3. QED BY <2>2, <3>2 DEF CreateSession, Moves, CallRecords
  <2>3. CASE RegisterKey(c)
    <3>1. call[c].pc = "register" /\ UNCHANGED <<doc, faults>>
      BY <2>3 DEF RegisterKey
    <3>2. CASE Moves(c, "record")
      BY <3>1, <3>2 DEF Moves, CallRecords
    <3>3. CASE Ends(c)
      BY <1>0, <3>1, <3>3
    <3>4. QED BY <2>3, <3>2, <3>3 DEF RegisterKey
  <2>4. CASE RecordStart(c)
    <3>1. /\ call[c].pc = "record" /\ UNCHANGED doc /\ Ends(c)
          /\ faults' = faults \/ faults' # 0
      BY <2>4, FaultCounts DEF RecordStart
    <3>2. QED BY <1>0, <3>1
  <2>5. CASE \E u \in Users, k \in StartKeys, s \in Sessions : ResolveKey(c, u, k, s)
    BY <2>1, <2>5
  <2>6. QED BY <2>2, <2>3, <2>4, <2>5 DEF Start
<1>2. \A s \in Sessions : doc[s] # None => doc'[s] = doc[s]
  BY <1>1
<1>3. /\ NewDocument.status = "QUEUED"
      /\ NewDocument.flags \subseteq NewDocument.evidence
  BY DEF NewDocument
<1>4. ~call[c].sawEnd \/ call[c].spent
  BY <1>1 DEF ClaimsInv, StepInv, Local
<1>5. Local(call'[c])
  BY <1>1, <1>4 DEF Local, Loaded
<1>6. StepInv'
  BY <1>1, <1>3, <1>5 DEF ClaimsInv, StepInv, FlagsBacked
<1>7. ConclusionJustified'
  BY <1>1, <1>3 DEF ClaimsInv, ConclusionJustified
<1>8. QED BY <1>2, <1>6, <1>7 DEF ClaimsInv

LEMMA NextClaims ==
    ASSUME Typed, StartInv, ClaimsInv, [Next]_vars
    PROVE  /\ ClaimsInv'
           /\ \A s \in Sessions :
                  doc[s] # None /\ doc[s].status \in {"COMPLETED", "FLAGGED"} =>
                      doc'[s].status = doc[s].status \/ EndedOverwritten(s)
<1>1. ASSUME NEW s \in Sessions, LoseBootstrap(s)
      PROVE  ClaimsInv' /\ UNCHANGED doc
  <2>1. UNCHANGED <<doc, call>> /\ faults' # 0
    BY <1>1, FaultCounts DEF LoseBootstrap
  <2>2. QED
    BY <2>1 DEF ClaimsInv, StepInv, FlagsBacked, ConclusionJustified
<1>2. CASE UNCHANGED vars
  BY <1>2 DEF vars, ClaimsInv, StepInv, FlagsBacked, ConclusionJustified
<1>3. ASSUME NEW c \in Calls, Start(c)
      PROVE  ClaimsInv' /\ \A s \in Sessions : doc[s] # None => doc'[s] = doc[s]
  BY <1>3, StartClaims
<1>4. QED BY <1>1, <1>2, <1>3, ContinuesClaims DEF Next, Continues

LEMMA InitClaims == Init => ClaimsInv
<1> SUFFICES ASSUME Init PROVE ClaimsInv
  OBVIOUS
<1>1. \A c \in Calls : Local(call[c])
  BY DEF Init, Idle, Local, Loaded
<1>2. QED
  BY <1>1 DEF Init, ClaimsInv, StepInv, FlagsBacked, ConclusionJustified

LEMMA SpecClaims == Spec => [](Typed /\ StartInv /\ ClaimsInv)
<1>1. Init => Typed /\ StartInv /\ ClaimsInv
  BY InitTypes, InitStart, InitClaims
<1>2. Typed /\ StartInv /\ ClaimsInv /\ [Next]_vars => (Typed /\ StartInv /\ ClaimsInv)'
  BY NextTypes, NextStart, NextClaims
<1>3. QED BY <1>1, <1>2, PTL DEF Spec

(* No interleaving of steps over stale snapshots ticks a check without its    *)
(* evidence (register_evidence, save_state).                                  *)
THEOREM ChecklistBacked == Spec => []FlagsBacked
<1>1. ClaimsInv => FlagsBacked
  BY DEF ClaimsInv, StepInv
<1>2. QED BY <1>1, SpecClaims, PTL

(* Without failures an investigation is COMPLETED by its evidence only, by    *)
(* the forced decision as by a spent budget (agent/marathon_loop.py:758).     *)
THEOREM CompletionJustified == Spec => []ConclusionJustified
<1>1. ClaimsInv => ConclusionJustified
  BY DEF ClaimsInv
<1>2. QED BY <1>1, SpecClaims, PTL

(* COMPLETED and FLAGGED are overwritten by calls that read the session       *)
(* before, by steps at their budget and by failed bootstraps only.            *)
THEOREM VerdictsStand == Spec => EndedStands
<1>1. Typed /\ StartInv /\ ClaimsInv /\ [Next]_vars =>
        [\A s \in Sessions :
            doc[s] # None /\ doc[s].status \in {"COMPLETED", "FLAGGED"} =>
                doc'[s].status = doc[s].status \/ EndedOverwritten(s)]_vars
  BY NextClaims
<1>2. QED BY <1>1, SpecClaims, PTL DEF Spec, EndedStands

-----------------------------------------------------------------------------
(* What the timestamp of a stored session decides.  The code stores a server  *)
(* timestamp and declares a float (repositories/session_repository.py:34,44,  *)
(* agent/marathon_loop.py:64): TimestampLoads is FALSE of the code as it is.  *)

(* Where a start leaves its call, and what it does to the documents.          *)
LEMMA StartEffect ==
    ASSUME Typed, NEW c \in Calls, Start(c)
    PROVE  /\ \A d \in Calls \ {c} : call'[d] = call[d]
           /\ call'[c].pc \in {"idle", "create", "register", "record"}
           /\ \A s \in Sessions : doc'[s] \in {doc[s], NewDocument}
           /\ faults' = faults \/ faults' # 0
<1> USE CallFrame, FaultCounts DEF Typed, TypeOK
<1>1. ASSUME NEW u, NEW k, NEW s \in Sessions, ResolveKey(c, u, k, s)
      PROVE  /\ \A d \in Calls \ {c} : call'[d] = call[d]
             /\ call'[c].pc = "create" /\ UNCHANGED <<doc, faults>>
  BY <1>1 DEF ResolveKey, Idle
<1>2. CASE CreateSession(c)
  BY <1>2 DEF CreateSession, Moves, CallRecords
<1>3. CASE RegisterKey(c)
  BY <1>3 DEF RegisterKey, Moves, CallRecords
<1>4. CASE RecordStart(c)
  BY <1>4 DEF RecordStart
<1>5. QED BY <1>1, <1>2, <1>3, <1>4 DEF Start

(* A document no step has worked on.                                          *)
Untouched(d) ==
    /\ d.flags = {} /\ d.evidence = {} /\ ~d.high
    /\ d.status \in {"QUEUED", "FAILED", "RUNNING"}
NeverInvestigated == \A s \in Sessions : doc[s] # None => Untouched(doc[s])

NothingLoads == \A c \in Calls : call[c].pc \notin Loaded

LEMMA NothingDone ==
    ASSUME Typed, ~TimestampLoads, NothingLoads, NeverInvestigated,
           NEW c \in Calls, Continues(c)
    PROVE  /\ call'[c].pc \notin Loaded
           /\ \A s \in Sessions : doc'[s] # None => Untouched(doc'[s])
<1> USE CallFrame
<1>0. call[c].pc \notin Loaded
  BY DEF NothingLoads
<1>1. CASE UNCHANGED doc /\ (Ends(c) \/ Fails(c))
  BY <1>1 DEF NeverInvestigated, Loaded
<1>2. ASSUME NEW s \in Sessions, Bootstrap(c, s) \/ Tick(c, s) \/ ReadForRetry(c, s)
      PROVE  call'[c].pc \notin Loaded /\ UNCHANGED doc
  <2>1. CASE ReadForRetry(c, s)
    BY <2>1 DEF ReadForRetry, Typed, TypeOK, Idle, Loaded
  <2>2. CASE Bootstrap(c, s)
    <3>1. /\ call' = [call EXCEPT ![c] = [Idle EXCEPT !.op = "bootstrap", !.s = s,
                                                     !.pc = "fail"]]
          /\ UNCHANGED doc
      BY <2>2, ~TimestampLoads DEF Bootstrap
    <3>2. QED BY <3>1 DEF Typed, TypeOK, Idle, Loaded
  <2>3. QED BY <1>2, <2>1, <2>2 DEF Tick
<1>3. CASE Answer(c) \/ AuditRaises(c) \/ Crash(c)
  BY <1>1, <1>3 DEF Answer, AuditRaises, Crash
<1>4. ASSUME NEW x \in {"FAILED", "RUNNING"}, call[c].pc \in {"fail", "retry"},
             doc' = [doc EXCEPT ![call[c].s].status = x]
      PROVE  \A s \in Sessions : doc'[s] # None => Untouched(doc'[s])
  <2>1. call[c].s \in Sessions /\ doc[call[c].s] \in Documents /\ Untouched(doc[call[c].s])
    BY <1>4, CallHolds DEF NeverInvestigated
  <2>2. Untouched(doc'[call[c].s])
    BY <1>4, <2>1 DEF Untouched, Documents, Typed, TypeOK
  <2>3. \A s \in Sessions : s # call[c].s => doc'[s] = doc[s]
    BY <1>4 DEF Typed, TypeOK
  <2>4. QED BY <2>2, <2>3 DEF NeverInvestigated
<1>5. CASE FailBootstrap(c)
  BY <1>4, <1>5 DEF FailBootstrap, Loaded
<1>6. CASE Retry(c)
  BY <1>4, <1>6 DEF Retry, Loaded
<1>7. CASE StepRaises(c) \/ EnterRunning(c) \/ BudgetSpent(c) \/ AlreadyEnded(c)
           \/ AnnounceImage(c) \/ AnalyzeImage(c) \/ VerifyBoundary(c) \/ FlagSession(c)
           \/ CheckRecords(c) \/ AnnounceThought(c) \/ Conclude(c) \/ SaveState(c)
           \/ SaveRaises(c)
  BY <1>0, <1>7
  DEF StepRaises, EnterRunning, BudgetSpent, AlreadyEnded, AnnounceImage, AnalyzeImage,
      VerifyBoundary, FlagSession, CheckRecords, AnnounceThought, Conclude, SaveState,
      SaveRaises, Works, Loaded
<1>8. QED
  BY <1>2, <1>3, <1>5, <1>6, <1>7 DEF Continues, SingleStep, NeverInvestigated

(* Stored sessions do not load, and so no session is ever                     *)
(* investigated, whatever is started, ticked or retried: every document stays *)
(* without a check, and none is COMPLETED, FLAGGED or waits for its user.     *)
THEOREM NeverInvestigatedAsStored ==
    ASSUME ~TimestampLoads PROVE Spec => []NeverInvestigated
<1>1. Init => NothingLoads /\ NeverInvestigated
  BY DEF Init, Idle, NothingLoads, NeverInvestigated, Loaded
<1>2. Typed /\ NothingLoads /\ NeverInvestigated /\ [Next]_vars
        => (NothingLoads /\ NeverInvestigated)'
  <2> SUFFICES ASSUME Typed, NothingLoads, NeverInvestigated, [Next]_vars
               PROVE  (NothingLoads /\ NeverInvestigated)'
    OBVIOUS
  <2>1. ASSUME NEW c \in Calls, Start(c)
        PROVE  (NothingLoads /\ NeverInvestigated)'
    <3>1. Untouched(NewDocument)
      BY DEF Untouched, NewDocument
    <3>2. QED BY <2>1, <3>1, StartEffect DEF NothingLoads, NeverInvestigated, Loaded
  <2>2. ASSUME NEW c \in Calls, Continues(c)
        PROVE  (NothingLoads /\ NeverInvestigated)'
    BY <2>2, StepFrame, NothingDone DEF NothingLoads, NeverInvestigated
  <2>3. CASE UNCHANGED <<doc, call>>
    BY <2>3 DEF NothingLoads, NeverInvestigated
  <2>4. QED BY <2>1, <2>2, <2>3 DEF Next, Continues, LoseBootstrap, vars
<1>3. QED BY <1>1, <1>2, SpecTyped, PTL DEF Spec
=============================================================================
