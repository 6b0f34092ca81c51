------------------------- MODULE TokenRotationProofs -------------------------
(* Refresh tokens, for any number of sessions, tokens, concurrent requests    *)
(* and mishaps.                                                               *)
EXTENDS TokenRotation, TLAPS

-----------------------------------------------------------------------------
Revocations == {"revoke", "logout", "limit"}
Points == {"idle", "commit", "lookup", "rotate", "advance", "next", "sweep", "mark"}
CallRecords ==
    [op : Revocations \cup {"create", "rotate", None}, pc : Points,
     s : Sessions \cup {None}, t : Tokens \cup {None}, new : Tokens \cup {None},
     snap : SessionDocuments \cup {None}, rest : SUBSET Sessions,
     targets : SUBSET Tokens, marks : SUBSET Sessions]

(* What a call knows is there.                                                *)
Creating(r) ==
    r.pc = "commit" => r.s \in Sessions /\ r.t \in Tokens
Rotating(r) ==
    r.pc \in {"lookup", "rotate", "advance"} =>
        /\ r.s \in Sessions
        /\ r.t \in held /\ r.t \in Tokens /\ token[r.t] # None
        /\ r.pc \in {"rotate", "advance"} => Exists(r.s) /\ r.snap \in SessionDocuments
        /\ r.pc = "advance" => r.new \in Tokens
Revokes(r) ==
    /\ r.op \in Revocations <=> r.pc \in {"next", "sweep", "mark"}
    /\ r.op \notin Revocations => r.marks = {}
    /\ \A s \in r.rest \cup r.marks : Exists(s)
    /\ r.pc = "next" => r.s = None
    /\ r.pc = "sweep" => r.s \in Sessions /\ Exists(r.s) /\ r.targets \subseteq Family(r.s)
    /\ r.pc = "mark" => r.s \in r.marks \cup {None}
    /\ r.op \in {"revoke", "limit"} /\ r.pc \in {"next", "sweep"} => r.marks = {}

Typed ==
    /\ TypeOK /\ faults \in Nat
    /\ call \in [Calls -> CallRecords]
    /\ \A c \in Calls : Creating(call[c]) /\ Rotating(call[c]) /\ Revokes(call[c])
    /\ \A t \in held : token[t] # None => Exists(token[t].family)
    /\ \A t \in expired : token[t] # None

(* A session under creation is new, and nobody else's.                        *)
CreatedOnce ==
    /\ \A s \in Sessions : Exists(s) => s <= created
    /\ \A c \in Calls : call[c].pc = "commit" =>
           /\ call[c].s <= created /\ ~Exists(call[c].s)
           /\ \A d \in Calls \ {c} : call[d].pc = "commit" => call[d].s # call[c].s

(* The token a call is about to hand out is nobody else's, and of the family  *)
(* of the new session, or of the token it replaces.                           *)
Fresh(r) == IF r.pc = "commit" THEN {r.t}
            ELSE IF r.pc = "advance" THEN {r.new} ELSE {}
Heir(r) == IF r.pc = "advance" THEN token[r.t].family ELSE r.s
FreshTokens ==
    \A c \in Calls :
        /\ Fresh(call[c]) \cap held = {}
        /\ \A d \in Calls \ {c} : Fresh(call[c]) \cap Fresh(call[d]) = {}
        /\ \A t \in Fresh(call[c]) :
               token[t] # None => token[t].family = Heir(call[c])

(* What a revocation has swept stays without ACTIVE tokens.                   *)
SweptBy(c) ==
    /\ \A s \in call[c].marks \ leaked : FamilyActive(s) = {}
    /\ call[c].pc = "sweep" /\ call[c].s \notin leaked =>
           FamilyActive(call[c].s) \subseteq call[c].targets
Swept == \A c \in Calls : SweptBy(c)

IInv == Typed /\ CreatedOnce /\ FreshTokens /\ Swept /\ RevocationReaches

-----------------------------------------------------------------------------
(* Documents once written keep what identifies them: a token keeps its family *)
(* and never becomes ACTIVE again; a session exists, and stays revoked.       *)
TokensKept ==
    \A t \in Tokens : token[t] # None =>
        /\ token'[t] # None
        /\ token'[t].family = token[t].family
        /\ Live(t)' => Live(t)
SessionsKept ==
    \A s \in Sessions : Exists(s) =>
        session'[s] # None /\ (session[s].revoked => session'[s].revoked)

(* A token that appears was drawn by nobody else.                             *)
NewTokens == \A u \in Tokens : token[u] = None /\ token'[u] # None => Unused(u)

(* Behind a revocation no ACTIVE token appears unnoticed.                     *)
QuietFamilies ==
    \A s \in Sessions \ leaked' :
        Exists(s) /\ Revoking(s) => FamilyActive(s)' \subseteq FamilyActive(s)

Effects ==
    /\ TokensKept /\ SessionsKept /\ NewTokens /\ QuietFamilies
    /\ held \subseteq held' /\ leaked \subseteq leaked'

SessionsRight ==
    \A s \in Sessions : session'[s] # None /\ session'[s].revoked =>
        \/ Exists(s) /\ session[s].revoked
        \/ s \notin leaked' => FamilyActive(s)' = {}

CallsRight == \A c \in Calls : call'[c] = call[c] \/ SweptBy(c)'

LEMMA TokenFacts ==
    ASSUME Typed, NEW t \in Tokens, token[t] # None
    PROVE  /\ token[t] \in TokenDocuments
           /\ token[t].family \in Sessions /\ token[t].generation \in Nat
           /\ \A status \in Statuses :
                  [token[t] EXCEPT !.status = status] \in TokenDocuments
BY DEF Typed, TypeOK, TokenDocuments

LEMMA SessionFacts ==
    ASSUME Typed, NEW s \in Sessions, Exists(s)
    PROVE  session[s] \in SessionDocuments
BY DEF Typed, TypeOK, Exists

LEMMA CallFacts ==
    ASSUME Typed, NEW c \in Calls
    PROVE  /\ call[c] \in CallRecords
           /\ Creating(call[c]) /\ Rotating(call[c]) /\ Revokes(call[c])
BY DEF Typed

(* Every step writes documents of their types and keeps the old ones.         *)
LEMMA RevokedTokens ==
    ASSUME Typed, NEW targets \in SUBSET Tokens, NEW status \in Statuses \ {"ACTIVE"},
           \A t \in targets : token[t] # None,
           token' = [t \in Tokens |-> IF t \in targets
                                      THEN [token[t] EXCEPT !.status = status]
                                      ELSE token[t]]
    PROVE  /\ TokensKept /\ token' \in [Tokens -> TokenDocuments \cup {None}]
           /\ \A t \in Tokens : token[t] = None => token'[t] = None
<1>1. \A t \in targets : /\ token'[t] \in TokenDocuments
                         /\ token'[t].family = token[t].family
                         /\ token'[t].status = status
  BY TokenFacts DEF TokenDocuments
<1>2. \A t \in Tokens \ targets : token'[t] = token[t]
  OBVIOUS
<1>3. token' \in [Tokens -> TokenDocuments \cup {None}]
  BY <1>1, <1>2 DEF Typed, TypeOK
<1>4. TokensKept
  BY <1>1, <1>2, NoneIsNoValue DEF TokensKept, Live
<1>5. QED BY <1>2, <1>3, <1>4

LEMMA StoredToken ==
    ASSUME Typed, NEW u \in Tokens, token[u] = None, NEW d \in TokenDocuments,
           token' = [token EXCEPT ![u] = d]
    PROVE  TokensKept /\ token' \in [Tokens -> TokenDocuments \cup {None}]
BY DEF Typed, TypeOK, TokensKept, Live

LEMMA ExchangedToken ==
    ASSUME Typed, NEW u \in Tokens, token[u] = None, NEW d \in TokenDocuments,
           NEW old \in Tokens, token[old] # None,
           NEW rotated \in TokenDocuments, rotated.status = "ROTATED",
           rotated.family = token[old].family,
           token' = [token EXCEPT ![old] = rotated, ![u] = d]
    PROVE  /\ TokensKept /\ token' \in [Tokens -> TokenDocuments \cup {None}]
           /\ token'[u] = d /\ token'[old].status = "ROTATED"
           /\ \A t \in Tokens \ {old, u} : token'[t] = token[t]
<1>3. /\ token'[u] = d /\ token'[old] = rotated /\ u # old
      /\ \A t \in Tokens \ {old, u} : token'[t] = token[t]
      /\ token' \in [Tokens -> TokenDocuments \cup {None}]
  BY DEF Typed, TypeOK
<1>4. TokensKept
  BY <1>3, NoneIsNoValue DEF TokensKept, Live
<1>5. QED BY <1>3, <1>4

(* The types depend on other documents only through their existence.          *)
Documents ==
    /\ created \in 0..MaxCreated /\ faults \in Nat
    /\ session \in [Sessions -> SessionDocuments \cup {None}]
    /\ token \in [Tokens -> TokenDocuments \cup {None}]
    /\ expired \cup held \subseteq Tokens /\ leaked \subseteq Sessions
    /\ \A s \in Sessions : Exists(s) => (session[s].revoked <=> session[s].reason # None)
    /\ \A t \in held : token[t] # None => Exists(token[t].family)
    /\ \A t \in expired : token[t] # None

LEMMA TypedKept ==
    ASSUME Typed, TokensKept, SessionsKept, held \subseteq held', Documents',
           call' \in [Calls -> CallRecords],
           \A c \in Calls : \/ call'[c] = call[c]
                            \/ (Creating(call[c]) /\ Rotating(call[c]) /\ Revokes(call[c]))'
    PROVE  Typed'
<1>1. \A s \in Sessions : Exists(s) => Exists(s)'
  BY DEF SessionsKept, Exists
<1>2. \A s \in Sessions : Family(s) \subseteq Family(s)'
  BY DEF TokensKept, Family
<1>3. ASSUME NEW c \in Calls
      PROVE  Creating(call[c])' /\ Rotating(call[c])' /\ Revokes(call[c])'
  <2>1. /\ call[c] \in CallRecords
        /\ Creating(call[c]) /\ Rotating(call[c]) /\ Revokes(call[c])
    BY CallFacts
  <2> SUFFICES ASSUME call'[c] = call[c]
               PROVE  Creating(call[c])' /\ Rotating(call[c])' /\ Revokes(call[c])'
    OBVIOUS
  <2>2. Creating(call[c])'
    BY <2>1 DEF Creating
  <2>3. Rotating(call[c])'
    BY <1>1, <2>1 DEF Rotating, TokensKept
  <2>4. Revokes(call[c])'
    BY <1>1, <1>2, <2>1 DEF Revokes, CallRecords
  <2>5. QED BY <2>2, <2>3, <2>4
<1>4. \A c \in Calls : call'[c].targets \subseteq Tokens
  BY DEF CallRecords
<1>5. TypeOK'
  BY <1>4 DEF Documents, TypeOK
<1>6. QED BY <1>3, <1>5 DEF Documents, Typed

-----------------------------------------------------------------------------
(* What the invariant needs of a step.                                        *)
LEMMA Preserved ==
    ASSUME IInv, Typed', Effects, SessionsRight, CallsRight, CreatedOnce', FreshTokens'
    PROVE  IInv'
<1> USE DEF Effects
<1>3. \A c \in Calls : call[c] \in CallRecords /\ Rotating(call[c]) /\ Revokes(call[c])
  BY CallFacts DEF IInv
<1>4. Swept'
  <2> SUFFICES ASSUME NEW c \in Calls, call'[c] = call[c] PROVE SweptBy(c)'
    BY DEF Swept, CallsRight
  <2>1. ASSUME NEW s \in call[c].marks \ leaked' PROVE FamilyActive(s)' = {}
    <3>1. s \in Sessions /\ Exists(s) /\ Revoking(s) /\ s \notin leaked
      BY <1>3 DEF CallRecords, Revokes, Revoking, Revocations
    <3>2. FamilyActive(s) = {}
      BY <3>1 DEF IInv, Swept, SweptBy
    <3>3. QED BY <3>1, <3>2 DEF QuietFamilies
  <2>2. ASSUME NEW s, call[c].pc = "sweep", call[c].s = s, s \notin leaked'
        PROVE  FamilyActive(s)' \subseteq call[c].targets
    <3>1. s \in Sessions /\ Exists(s) /\ Revoking(s) /\ s \notin leaked
      BY <1>3, <2>2 DEF Revokes, Revoking, Revocations
    <3>2. FamilyActive(s) \subseteq call[c].targets
      BY <2>2, <3>1 DEF IInv, Swept, SweptBy
    <3>3. FamilyActive(s)' \subseteq FamilyActive(s)
      BY <2>2, <3>1 DEF QuietFamilies
    <3>4. QED BY <3>2, <3>3
  <2>3. QED BY <2>1, <2>2 DEF SweptBy
<1>5. RevocationReaches'
  <2> SUFFICES ASSUME NEW s \in Sessions, session'[s] # None, session'[s].revoked,
                      s \notin leaked', Exists(s), session[s].revoked
               PROVE  FamilyActive(s)' = {}
    BY DEF RevocationReaches, Exists, SessionsRight
  <2>1. FamilyActive(s) = {} /\ Revoking(s)
    BY DEF IInv, RevocationReaches, Revoking
  <2>2. QED BY <2>1 DEF QuietFamilies
<1>6. QED BY <1>4, <1>5 DEF IInv

-----------------------------------------------------------------------------
(* Every action has these effects.                                            *)
Sound ==
    Typed' /\ Effects /\ SessionsRight /\ CallsRight /\ CreatedOnce' /\ FreshTokens'

LEMMA CreatedKept ==
    ASSUME IInv, created' = created, \A s \in Sessions : session'[s] # None => Exists(s),
           \A c \in Calls : call'[c] = call[c] \/ call'[c].pc # "commit"
    PROVE  CreatedOnce'
<1>1. \A c \in Calls : call[c].pc = "commit" => call[c].s \in Sessions
  BY CallFacts DEF IInv, Creating
<1>2. QED BY <1>1 DEF IInv, CreatedOnce, Exists

LEMMA HeirKept ==
    ASSUME IInv, TokensKept, NEW c \in Calls, call'[c] = call[c]
    PROVE  Heir(call[c])' = Heir(call[c])
BY CallFacts DEF IInv, Heir, Rotating, TokensKept

LEMMA FreshKept ==
    ASSUME IInv, TokensKept, NewTokens, held' = held,
           \A c \in Calls : \/ call'[c] = call[c]
                            \/ call'[c].pc \notin {"commit", "advance"}
    PROVE  FreshTokens'
<1>1. \A c \in Calls : Fresh(call'[c]) = {} \/ call'[c] = call[c]
  BY DEF Fresh
<1>2. ASSUME NEW c \in Calls, call'[c] = call[c], NEW t \in Fresh(call[c]),
             token'[t] # None
      PROVE  token'[t].family = Heir(call[c])'
  <2>1. t \in Tokens /\ t \in {call[c].t, call[c].new}
    BY CallFacts DEF IInv, Fresh, Creating, Rotating
  <2>2. token[t] # None
    BY <1>2, <2>1 DEF NewTokens, Unused
  <2>3. token'[t].family = Heir(call[c])
    BY <1>2, <2>1, <2>2 DEF IInv, FreshTokens, TokensKept
  <2>4. QED BY <1>2, <2>3, HeirKept
<1>3. QED BY <1>1, <1>2 DEF IInv, FreshTokens

LEMMA DocumentsHold == ASSUME Typed PROVE Documents
BY DEF Typed, TypeOK, Documents

(* A step that changes no document.                                           *)
LEMMA CallOnly ==
    ASSUME IInv, NEW c \in Calls, NEW r \in CallRecords, call' = [call EXCEPT ![c] = r],
           UNCHANGED <<created, session, token, expired, held, leaked>>,
           faults' \in {faults, faults + 1}, r.pc \notin {"commit", "advance"},
           Rotating(r), Revokes(r), SweptBy(c)'
    PROVE  Sound
<1> USE DEF IInv
<1>1. /\ call'[c] = r /\ call' \in [Calls -> CallRecords]
      /\ \A d \in Calls : d # c => call'[d] = call[d]
  BY DEF Typed
<1>2. TokensKept /\ SessionsKept /\ NewTokens /\ QuietFamilies
  BY DEF TokensKept, SessionsKept, NewTokens, QuietFamilies, Live, Exists,
         FamilyActive, Family
<1>3. Documents'
  BY DocumentsHold DEF Documents, Exists
<1>4. (Creating(call[c]) /\ Rotating(call[c]) /\ Revokes(call[c]))'
  BY <1>1 DEF Creating, Rotating, Revokes, Exists, Family
<1>5. Typed'
  BY <1>1, <1>2, <1>3, <1>4, TypedKept
<1>6. CreatedOnce'
  BY <1>1, CreatedKept DEF Exists
<1>7. FreshTokens'
  BY <1>1, <1>2, FreshKept
<1>8. SessionsRight
  BY DEF SessionsRight, Exists
<1>9. CallsRight
  BY <1>1 DEF CallsRight
<1>10. QED BY <1>2, <1>5, <1>6, <1>7, <1>8, <1>9 DEF Sound, Effects

-----------------------------------------------------------------------------
(* The actions.  First those that change no document.                         *)
LEMMA IdleRecord ==
    /\ Idle \in CallRecords /\ Idle.pc = "idle" /\ Idle.op = None /\ Idle.marks = {}
    /\ Creating(Idle) /\ Rotating(Idle) /\ Revokes(Idle)
BY NoneIsNoValue DEF Idle, CallRecords, Points, Revocations, Creating, Rotating, Revokes

LEMMA VerifyTokenSound ==
    ASSUME IInv, NEW c \in Calls, NEW t \in Tokens, NEW s \in Sessions,
           VerifyToken(c, t, s)
    PROVE  Sound
<1> DEFINE r == [Idle EXCEPT !.op = "rotate", !.pc = "lookup", !.s = s, !.t = t]
<1>1. token[t] # None /\ t \in held
  BY DEF VerifyToken, Live
<1>2. /\ r \in CallRecords /\ r.pc = "lookup" /\ r.op = "rotate" /\ r.t = t
      /\ r.s = s /\ r.rest = {} /\ r.marks = {}
  BY DEF Idle, CallRecords, Points, Revocations
<1>3. call' = [call EXCEPT ![c] = r]
  BY DEF VerifyToken
<1> HIDE DEF r
<1>4. Rotating(r) /\ Revokes(r)
  BY <1>1, <1>2, NoneIsNoValue DEF Rotating, Revokes, Revocations
<1>5. call'[c] = r
  BY <1>3 DEF IInv, Typed
<1>6. SweptBy(c)'
  BY <1>2, <1>5 DEF SweptBy
<1>7. faults' = faults /\ UNCHANGED <<created, session, token, expired, held, leaked>>
  BY DEF VerifyToken
<1>8. QED BY <1>2, <1>3, <1>4, <1>6, <1>7, CallOnly

LEMMA GetSessionSound ==
    ASSUME IInv, NEW c \in Calls, GetSession(c)
    PROVE  Sound
<1> PICK s : s = call[c].s
  OBVIOUS
<1> DEFINE p == [call[c] EXCEPT !.pc = "rotate", !.snap = session[s]]
<1> PICK r : r = IF Exists(s) THEN p ELSE Idle
  OBVIOUS
<1>1. /\ call[c] \in CallRecords /\ Rotating(call[c]) /\ Revokes(call[c])
      /\ call[c].pc = "lookup"
  BY CallFacts DEF IInv, GetSession
<1>2. s \in Sessions /\ (Exists(s) => session[s] \in SessionDocuments)
  BY <1>1, SessionFacts DEF Rotating, IInv
<1>3. Exists(s) => /\ p \in CallRecords /\ p.pc = "rotate" /\ p.op = call[c].op
                   /\ p.t = call[c].t /\ p.s = s /\ p.snap = session[s]
                   /\ p.rest = call[c].rest /\ p.marks = call[c].marks
  BY <1>1, <1>2 DEF CallRecords, Points
<1>4. call' = [call EXCEPT ![c] = r]
  BY DEF GetSession, Ends, IInv, Typed
<1> HIDE DEF p
<1>5. r \in CallRecords /\ Rotating(r) /\ Revokes(r) /\ r.pc \in {"rotate", "idle"}
      /\ r.marks = {}
  <2>1. CASE Exists(s)
    BY <1>1, <1>2, <1>3, <2>1 DEF Rotating, Revokes
  <2>2. CASE ~Exists(s)
    BY <2>2, IdleRecord
  <2>3. QED BY <2>1, <2>2
<1>6. call'[c] = r
  BY <1>4 DEF IInv, Typed
<1>7. faults' = faults /\ UNCHANGED <<created, session, token, expired, held, leaked>>
  BY DEF GetSession
<1>8. SweptBy(c)'
  BY <1>5, <1>6 DEF SweptBy
<1>9. QED BY <1>4, <1>5, <1>7, <1>8, CallOnly

LEMMA BeginRevokingSound ==
    ASSUME IInv, NEW c \in Calls, NEW op \in Revocations,
           NEW sessions \in SUBSET Sessions, \A s \in sessions : Exists(s),
           BeginRevoking(c, op, sessions)
    PROVE  Sound
<1> DEFINE r == [Idle EXCEPT !.op = op, !.pc = "next", !.rest = sessions]
<1>1. /\ r \in CallRecords /\ r.pc = "next" /\ r.op = op /\ r.s = None
      /\ r.rest = sessions /\ r.marks = {}
  BY DEF Idle, CallRecords, Points
<1>2. /\ call' = [call EXCEPT ![c] = r] /\ call[c].pc = "idle" /\ faults' = faults
      /\ UNCHANGED <<created, session, token, expired, held, leaked>>
  BY DEF BeginRevoking
<1> HIDE DEF r
<1>3. Rotating(r) /\ Revokes(r)
  BY <1>1 DEF Rotating, Revokes
<1>4. call'[c] = r
  BY <1>2 DEF IInv, Typed
<1>5. SweptBy(c)'
  BY <1>1, <1>4 DEF SweptBy
<1>6. QED BY <1>1, <1>2, <1>3, <1>5, CallOnly

LEMMA QueryFamilySound ==
    ASSUME IInv, NEW c \in Calls, NEW s \in Sessions, QueryFamily(c, s)
    PROVE  Sound
<1> DEFINE targets == FamilyActive(s)
           rest == call[c].rest \ {s}
           r == [call[c] EXCEPT !.pc = "sweep", !.s = s, !.rest = rest,
                                !.targets = targets]
<1>1. /\ call[c] \in CallRecords /\ Revokes(call[c]) /\ call[c].pc = "next"
      /\ s \in call[c].rest /\ Exists(s)
  BY CallFacts DEF IInv, QueryFamily, Revokes
<1>2. targets \subseteq Family(s) /\ targets \subseteq Tokens
  BY DEF FamilyActive, Family
<1>3. call' = [call EXCEPT ![c] = r]
  BY DEF QueryFamily, IInv, Typed
<1> HIDE DEF targets, rest
<1>4. /\ r \in CallRecords /\ r.pc = "sweep" /\ r.op = call[c].op /\ r.s = s
      /\ r.targets = targets /\ r.rest \subseteq call[c].rest /\ r.marks = call[c].marks
  BY <1>1, <1>2 DEF CallRecords, Points, rest
<1> HIDE DEF r
<1>5. Rotating(r) /\ Revokes(r)
  BY <1>1, <1>2, <1>4 DEF Rotating, Revokes
<1>6. call'[c] = r
  BY <1>3 DEF IInv, Typed
<1>7. /\ faults' = faults
      /\ UNCHANGED <<created, session, token, expired, held, leaked>>
  BY DEF QueryFamily
<1>8. \A u \in Sessions : FamilyActive(u)' = FamilyActive(u)
  BY <1>7 DEF FamilyActive, Family, Live
<1>9. SweptBy(c)'
  <2>1. \A u \in call[c].marks \ leaked : u \in Sessions /\ FamilyActive(u) = {}
    BY <1>1 DEF IInv, Swept, SweptBy, CallRecords
  <2>2. QED BY <1>4, <1>6, <1>7, <1>8, <2>1 DEF SweptBy, targets
<1>10. QED BY <1>3, <1>4, <1>5, <1>7, <1>9, CallOnly

-----------------------------------------------------------------------------
(* The actions that write tokens.                                             *)
LEMMA SessionsUntouched ==
    ASSUME IInv, session' = session
    PROVE  SessionsKept /\ SessionsRight
BY DEF SessionsKept, SessionsRight, Exists

LEMMA StoreTokenSound ==
    ASSUME IInv, NEW c \in Calls, NEW t \in Tokens, StoreToken(c, t)
    PROVE  Sound
<1> DEFINE s == created + 1
           d == NewToken(s, 1, None)
           r == [Idle EXCEPT !.op = "create", !.pc = "commit", !.s = s, !.t = t]
<1>1. /\ s \in Sessions /\ s = created + 1 /\ created' = s /\ s \in 0..MaxCreated
      /\ created \in Nat /\ ~Exists(s) /\ Unused(t) /\ call[c].pc = "idle"
  BY TokenAssumption DEF StoreToken, IInv, Typed, TypeOK, Sessions, CreatedOnce
<1>2. /\ d \in TokenDocuments /\ d.family = s /\ d.generation = 1 /\ d.from = None
      /\ d.status = "ACTIVE" /\ d # None
  BY <1>1, NoneIsNoValue DEF TokenDocuments, NewToken, Statuses
<1>3. /\ r \in CallRecords /\ r.pc = "commit" /\ r.s = s /\ r.t = t /\ r.op = "create"
      /\ r.rest = {} /\ r.marks = {}
  BY <1>1 DEF Idle, CallRecords, Points, Revocations
<1>4. /\ call' = [call EXCEPT ![c] = r]
      /\ \/ token' = [token EXCEPT ![t] = d] /\ faults' = faults
         \/ faults' = faults + 1 /\ token' = token
      /\ UNCHANGED <<session, expired, held, leaked>>
  BY DEF StoreToken, Fault
<1> HIDE DEF d, r, s
<1>5. /\ call'[c] = r /\ call' \in [Calls -> CallRecords]
      /\ \A e \in Calls : e # c => call'[e] = call[e]
  BY <1>3, <1>4 DEF IInv, Typed
<1>6. /\ TokensKept /\ token' \in [Tokens -> TokenDocuments \cup {None}]
      /\ \A u \in Tokens \ {t} : token'[u] = token[u]
      /\ token[t] = None /\ t \notin held
      /\ token'[t] # None => token'[t] = d
  <2>1. token[t] = None /\ t \notin held
    BY <1>1 DEF Unused
  <2>2. CASE token' = [token EXCEPT ![t] = d]
    BY <1>2, <2>1, <2>2, StoredToken DEF IInv, Typed, TypeOK
  <2>3. CASE token' = token
    BY <2>1, <2>3 DEF IInv, Typed, TypeOK, TokensKept, Live
  <2>4. QED BY <1>4, <2>2, <2>3
<1>7. SessionsKept /\ SessionsRight
  BY <1>4, SessionsUntouched
<1>8. NewTokens
  BY <1>1, <1>2, <1>6 DEF NewTokens
<1>9. QuietFamilies
  BY <1>1, <1>2, <1>6 DEF QuietFamilies, FamilyActive, Family, Live
<1>10. Typed'
  <2>1. \A u \in held : token'[u] # None => token[u] = token'[u]
    BY <1>6 DEF IInv, Typed, TypeOK
  <2>2. Documents'
    BY <1>1, <1>4, <1>6, <2>1, DocumentsHold DEF IInv, Documents, Exists
  <2>3. (Creating(call[c]) /\ Rotating(call[c]) /\ Revokes(call[c]))'
    BY <1>1, <1>3, <1>5, NoneIsNoValue DEF Creating, Rotating, Revokes, Revocations
  <2>4. QED BY <1>4, <1>5, <1>6, <1>7, <2>2, <2>3, TypedKept DEF IInv
<1>11. CreatedOnce'
  <2>1. \A e \in Calls : call[e].pc = "commit" => call[e].s \in Sessions
    BY CallFacts DEF IInv, Creating
  <2>2. \A u \in Sessions : u <= created => u <= created' /\ u # s
    BY <1>1 DEF Sessions
  <2>3. s <= created'
    BY <1>1
  <2>4. \A u \in Sessions : Exists(u)' <=> Exists(u)
    BY <1>4 DEF Exists
  <2>5. \A u \in Sessions : Exists(u)' => u <= created'
    BY <2>2, <2>4 DEF IInv, CreatedOnce
  <2>6. ASSUME NEW e \in Calls, call'[e].pc = "commit"
        PROVE  /\ call'[e].s <= created' /\ ~Exists(call[e].s)'
               /\ \A f \in Calls \ {e} : call'[f].pc = "commit" => call'[f].s # call'[e].s
    <3>1. CASE e = c
      BY <1>1, <1>3, <1>4, <1>5, <2>1, <2>2, <2>3, <3>1 DEF IInv, CreatedOnce, Exists
    <3>2. CASE e # c
      BY <1>3, <1>4, <1>5, <2>1, <2>2, <2>6, <3>2 DEF IInv, CreatedOnce, Exists
    <3>3. QED BY <3>1, <3>2
  <2>7. QED BY <2>5, <2>6 DEF CreatedOnce
<1>12. FreshTokens'
  <2>1. Fresh(call'[c]) = {t}
    BY <1>3, <1>5 DEF Fresh
  <2>2. \A e \in Calls : Fresh(call[e]) \subseteq Tokens \ {t}
    BY <1>1, CallFacts DEF IInv, Fresh, Unused, Creating, Rotating
  <2>3. ASSUME NEW e \in Calls
        PROVE  /\ Fresh(call'[e]) \cap held' = {}
               /\ \A f \in Calls \ {e} : Fresh(call'[e]) \cap Fresh(call'[f]) = {}
               /\ \A u \in Fresh(call'[e]) :
                      token'[u] # None => token'[u].family = Heir(call[e])'
    <3>1. CASE e = c
      BY <1>2, <1>3, <1>4, <1>5, <1>6, <2>1, <2>2, <3>1 DEF Heir
    <3>2. CASE e # c
      <4>1. Heir(call[e])' = Heir(call[e])
        BY <1>5, <1>6, <3>2, HeirKept
      <4>2. QED BY <1>4, <1>5, <1>6, <2>1, <2>2, <3>2, <4>1 DEF IInv, FreshTokens
    <3>3. QED BY <3>1, <3>2
  <2>4. QED BY <2>3 DEF FreshTokens
<1>13. CallsRight
  BY <1>3, <1>5 DEF CallsRight, SweptBy
<1>14. QED
  BY <1>4, <1>6, <1>7, <1>8, <1>9, <1>10, <1>11, <1>12, <1>13 DEF Sound, Effects

LEMMA RotateTokenSound ==
    ASSUME IInv, NEW c \in Calls, NEW u \in Tokens, RotateToken(c, u)
    PROVE  Sound
<1> PICK x, old, s : x = call[c].s /\ old = call[c].t /\ s = token[old].family
  OBVIOUS
<1> DEFINE d == NewToken(s, token[old].generation + 1, old)
           r == [call[c] EXCEPT !.pc = "advance", !.new = u]
<1>1. /\ call[c] \in CallRecords /\ Rotating(call[c]) /\ Revokes(call[c])
      /\ call[c].pc = "rotate" /\ Unused(u)
  BY CallFacts DEF IInv, RotateToken
<1>2. /\ x \in Sessions /\ Exists(x) /\ old \in held /\ old \in Tokens
      /\ token[old] # None /\ s \in Sessions /\ token[old].generation \in Nat
      /\ token[u] = None /\ u \notin held
  BY <1>1, TokenFacts DEF Rotating, IInv, Unused
<1>3. /\ d \in TokenDocuments /\ d.family = s /\ d.status = "ACTIVE" /\ d # None
  BY <1>2, NoneIsNoValue DEF TokenDocuments, NewToken, Statuses
<1>4. /\ r \in CallRecords /\ r.pc = "advance" /\ r.op = call[c].op /\ r.t = old
      /\ r.s = x /\ r.snap = call[c].snap /\ r.rest = call[c].rest
      /\ r.marks = call[c].marks /\ r.new = u
  BY <1>1 DEF CallRecords, Points
<1>5. /\ call' = [call EXCEPT ![c] = r]
      /\ \/ /\ token' = [token EXCEPT ![old].status = "ROTATED", ![u] = d]
            /\ leaked' = IF Revoking(s) THEN leaked \cup {s} ELSE leaked
            /\ faults' = faults
         \/ faults' = faults + 1 /\ token' = token /\ leaked' = leaked
      /\ UNCHANGED <<created, session, expired, held>>
  BY DEF RotateToken, Fault, IInv, Typed
<1> HIDE DEF d, r
<1>6. /\ call'[c] = r /\ call' \in [Calls -> CallRecords]
      /\ \A e \in Calls : e # c => call'[e] = call[e]
  BY <1>4, <1>5 DEF IInv, Typed
<1>7. /\ TokensKept /\ token' \in [Tokens -> TokenDocuments \cup {None}]
      /\ \A t \in Tokens \ {old, u} : token'[t] = token[t]
      /\ \/ token' = token
         \/ /\ token'[u] = d /\ token'[old].status = "ROTATED"
            /\ s \in leaked' \/ ~Revoking(s)
  <2>1. CASE /\ token' = [token EXCEPT ![old].status = "ROTATED", ![u] = d]
             /\ leaked' = IF Revoking(s) THEN leaked \cup {s} ELSE leaked
    <3>1. /\ TokensKept /\ token' \in [Tokens -> TokenDocuments \cup {None}]
          /\ token'[u] = d /\ token'[old].status = "ROTATED"
          /\ \A t \in Tokens \ {old, u} : token'[t] = token[t]
      <4>1. PICK rotated : rotated = [token[old] EXCEPT !.status = "ROTATED"]
        OBVIOUS
      <4>2. /\ rotated \in TokenDocuments /\ rotated.status = "ROTATED"
            /\ rotated.family = token[old].family
        BY <1>2, <4>1, TokenFacts DEF IInv, TokenDocuments, Statuses
      <4>3. token' = [token EXCEPT ![old] = rotated, ![u] = d]
        BY <2>1, <4>1
      <4>4. QED BY <1>2, <1>3, <4>2, <4>3, ExchangedToken DEF IInv
    <3>2. s \in leaked' \/ ~Revoking(s)
      BY <2>1
    <3>3. QED BY <3>1, <3>2
  <2>2. CASE token' = token
    BY <2>2 DEF IInv, Typed, TypeOK, TokensKept, Live
  <2>3. QED BY <1>5, <2>1, <2>2
<1>8. /\ SessionsKept /\ SessionsRight
      /\ leaked \subseteq leaked' /\ leaked' \subseteq leaked \cup {s}
  BY <1>5, SessionsUntouched
<1>9. token'[old] # None /\ token'[old].family = s
  BY <1>2, <1>7 DEF TokensKept
<1>10. NewTokens
  BY <1>1, <1>2, <1>7 DEF NewTokens
<1>11. QuietFamilies
  <2>1. SUFFICES ASSUME NEW y \in Sessions \ leaked', Revoking(y), token' # token
                 PROVE  FamilyActive(y)' \subseteq FamilyActive(y)
    BY DEF QuietFamilies, FamilyActive, Family, Live
  <2>2. y # s
    BY <1>7, <2>1
  <2>3. token'[u] = d
    BY <1>7, <2>1
  <2>4. ASSUME NEW t \in FamilyActive(y)' PROVE t \in FamilyActive(y)
    <3>1. t \in Tokens /\ token'[t] # None /\ token'[t].family = y /\ Live(t)'
      BY DEF FamilyActive, Family
    <3>2. t # u /\ token[t] # None
      BY <1>2, <1>3, <1>7, <2>2, <2>3, <3>1
    <3>3. QED BY <1>7, <3>1, <3>2 DEF FamilyActive, Family, TokensKept
  <2>5. QED BY <2>4
<1>12. Typed'
  <2>1. \A t \in held : token'[t] # None =>
            token[t] # None /\ token'[t].family = token[t].family
    BY <1>2, <1>7 DEF IInv, Typed, TypeOK, TokensKept
  <2> \A t \in expired' : token'[t] # None
    BY <1>5, <1>7 DEF TokensKept, IInv, Typed, TypeOK
  <2>2. Documents'
    BY <1>2, <1>5, <1>7, <1>8, <2>1, DocumentsHold DEF IInv, Documents, Exists
  <2>3. Exists(x)' /\ old \in held'
    BY <1>2, <1>5 DEF Exists
  <2>4. Rotating(call[c])'
    BY <1>1, <1>2, <1>4, <1>6, <1>9, <2>3 DEF Rotating
  <2>5. Revokes(call[c])'
    BY <1>1, <1>4, <1>5, <1>6 DEF Revokes, Exists, Family
  <2>6. (Creating(call[c]) /\ Rotating(call[c]) /\ Revokes(call[c]))'
    BY <1>4, <1>6, <2>4, <2>5 DEF Creating
  <2>7. QED BY <1>5, <1>6, <1>7, <1>8, <2>2, <2>6, TypedKept DEF IInv
<1>13. CreatedOnce'
  BY <1>4, <1>5, <1>6, CreatedKept DEF Exists
<1>14. FreshTokens'
  <2>1. Fresh(call'[c]) = {u}
    BY <1>4, <1>6 DEF Fresh
  <2>2. \A e \in Calls : Fresh(call[e]) \subseteq Tokens \ {u}
    BY <1>1, CallFacts DEF IInv, Fresh, Unused, Creating, Rotating
  <2>3. ASSUME NEW e \in Calls
        PROVE  /\ Fresh(call'[e]) \cap held' = {}
               /\ \A f \in Calls \ {e} : Fresh(call'[e]) \cap Fresh(call'[f]) = {}
               /\ \A t \in Fresh(call'[e]) :
                      token'[t] # None => token'[t].family = Heir(call[e])'
    <3>1. CASE e = c
      <4>1. token'[u] # None => token'[u].family = Heir(call[e])'
        BY <1>2, <1>3, <1>4, <1>6, <1>7, <1>9, <3>1 DEF Heir
      <4>2. QED BY <1>2, <1>5, <1>6, <2>1, <2>2, <3>1, <4>1
    <3>2. CASE e # c
      <4>1. Fresh(call[e]) \cap held = {}
        BY DEF IInv, FreshTokens
      <4>2. Heir(call[e])' = Heir(call[e])
        BY <1>6, <1>7, <3>2, HeirKept
      <4>3. \A t \in Fresh(call[e]) : token'[t] # None => token'[t].family = Heir(call[e])
        BY <1>2, <1>7, <2>2, <4>1 DEF IInv, FreshTokens
      <4>4. QED BY <1>5, <1>6, <2>1, <2>2, <3>2, <4>1, <4>2, <4>3 DEF IInv, FreshTokens
    <3>3. QED BY <3>1, <3>2
  <2>4. QED BY <2>3 DEF FreshTokens
<1>15. CallsRight
  <2>1. SweptBy(c)'
    BY <1>1, <1>4, <1>6 DEF SweptBy, Revokes
  <2>2. QED BY <1>6, <2>1 DEF CallsRight
<1>16. QED
  BY <1>5, <1>7, <1>8, <1>10, <1>11, <1>12, <1>13, <1>14, <1>15 DEF Sound, Effects

(* A step that stores no token and writes no session.                         *)
LEMMA TokensRetired ==
    ASSUME IInv, TokensKept, token' \in [Tokens -> TokenDocuments \cup {None}],
           \A t \in Tokens : token[t] = None => token'[t] = None,
           UNCHANGED <<created, session, held>>, faults' \in {faults, faults + 1},
           leaked \subseteq leaked', leaked' \subseteq Sessions,
           expired' \subseteq Tokens,
           \A t \in expired' : token[t] # None,
           call' \in [Calls -> CallRecords],
           \A c \in Calls :
               \/ call'[c] = call[c]
               \/ /\ call'[c].pc \notin {"commit", "advance"}
                  /\ (Rotating(call[c]) /\ Revokes(call[c]))' /\ SweptBy(c)'
    PROVE  Sound
<1>1. SessionsKept /\ SessionsRight
  BY SessionsUntouched
<1>2. NewTokens
  BY DEF NewTokens
<1>3. QuietFamilies
  <2>1. ASSUME NEW s \in Sessions, NEW t \in FamilyActive(s)' PROVE t \in FamilyActive(s)
    BY DEF TokensKept, FamilyActive, Family
  <2>2. QED BY <2>1 DEF QuietFamilies
<1>4. Typed'
  <2>1. \A t \in held : token'[t] # None =>
            token[t] # None /\ token'[t].family = token[t].family
    BY DEF IInv, Typed, TypeOK, TokensKept
  <2>2. \A t \in expired' : token'[t] # None
    BY DEF TokensKept
  <2>3. Documents'
    BY <2>1, <2>2, DocumentsHold DEF IInv, Documents, Exists
  <2>4. \A c \in Calls : call'[c] = call[c]
                           \/ (Creating(call[c]) /\ Rotating(call[c]) /\ Revokes(call[c]))'
    BY DEF Creating
  <2>5. QED BY <1>1, <2>3, <2>4, TypedKept DEF IInv
<1>5. CreatedOnce' /\ FreshTokens'
  BY <1>2, CreatedKept, FreshKept DEF Exists
<1>6. CallsRight
  BY DEF CallsRight
<1>7. QED BY <1>1, <1>2, <1>3, <1>4, <1>5, <1>6 DEF Sound, Effects

LEMMA RevokeTokenSound ==
    ASSUME IInv, NEW t \in Tokens, RevokeToken(t)
    PROVE  Sound
<1>1. token' = [x \in Tokens |-> IF x \in {t} THEN [token[x] EXCEPT !.status = "REVOKED"]
                                 ELSE token[x]]
  BY DEF RevokeToken, IInv, Typed, TypeOK
<1>2. /\ TokensKept /\ token' \in [Tokens -> TokenDocuments \cup {None}]
      /\ \A x \in Tokens : token[x] = None => token'[x] = None
  <2>1. {t} \in SUBSET Tokens /\ \A x \in {t} : token[x] # None
    BY DEF RevokeToken
  <2>2. "REVOKED" \in Statuses \ {"ACTIVE"}
    BY DEF Statuses
  <2>3. QED BY <1>1, <2>1, <2>2, RevokedTokens DEF IInv
<1>3. QED BY <1>2, TokensRetired DEF RevokeToken, Fault, IInv, Typed, TypeOK

LEMMA ExpireSound ==
    ASSUME IInv, NEW t \in Tokens, Expire(t)
    PROVE  Sound
<1>1. TokensKept
  BY DEF Expire, TokensKept, Live
<1>2. QED BY <1>1, TokensRetired DEF Expire, Fault, IInv, Typed, TypeOK

LEMMA CleanupExpiredTokensSound ==
    ASSUME IInv, CleanupExpiredTokens
    PROVE  Sound
<1> PICK old \in SUBSET expired :
        token' = [t \in Tokens |-> IF t \in old THEN [token[t] EXCEPT !.status = "DELETED"]
                                   ELSE token[t]]
  BY DEF CleanupExpiredTokens
<1>1. old \subseteq Tokens /\ \A t \in old : token[t] # None
  BY DEF IInv, Typed, TypeOK
<1>2. /\ TokensKept /\ token' \in [Tokens -> TokenDocuments \cup {None}]
      /\ \A x \in Tokens : token[x] = None => token'[x] = None
  BY <1>1, RevokedTokens DEF IInv, Statuses
<1>3. QED BY <1>2, TokensRetired DEF CleanupExpiredTokens, IInv, Typed, TypeOK

LEMMA SweepFamilySound ==
    ASSUME IInv, NEW c \in Calls, SweepFamily(c)
    PROVE  Sound
<1> PICK s, targets, op, rest, marks :
        /\ s = call[c].s /\ targets = call[c].targets /\ op = call[c].op
        /\ rest = call[c].rest /\ marks = call[c].marks
  OBVIOUS
<1> DEFINE pc1 == IF op = "logout" /\ rest # {} THEN "next" ELSE "mark"
           s1 == IF op = "logout" THEN None ELSE s
           marks1 == IF op = "logout" THEN marks \cup {s} ELSE {s}
           r == [call[c] EXCEPT !.pc = pc1, !.s = s1, !.marks = marks1]
<1>1. /\ call[c] \in CallRecords /\ Revokes(call[c]) /\ call[c].pc = "sweep"
      /\ SweptBy(c)
  BY CallFacts DEF IInv, SweepFamily, Swept
<1>2. /\ s \in Sessions /\ Exists(s) /\ targets \subseteq Family(s)
      /\ marks \subseteq Sessions /\ \A x \in rest \cup marks : Exists(x)
      /\ op \in Revocations /\ (op # "logout" => marks = {})
      /\ \A x \in marks \ leaked : FamilyActive(x) = {}
      /\ s \notin leaked => FamilyActive(s) \subseteq targets
  BY <1>1 DEF Revokes, Revocations, CallRecords, SweptBy
<1>3. /\ \/ /\ token' = [t \in Tokens |-> IF t \in targets
                                          THEN [token[t] EXCEPT !.status = "REVOKED"]
                                          ELSE token[t]]
            /\ leaked' = leaked
         \/ leaked' = leaked \cup {s} /\ token' = token
      /\ faults' \in {faults, faults + 1}
      /\ UNCHANGED <<created, session, expired, held>>
  BY DEF SweepFamily, Fault
<1>4. call' = [call EXCEPT ![c] = r]
  BY <1>1 DEF SweepFamily, CallRecords, IInv, Typed
<1>5. /\ marks \cup {s} = marks1 /\ pc1 \in {"next", "mark"}
      /\ pc1 = "next" => op = "logout"
      /\ op = "logout" => s1 = None
      /\ op # "logout" => s1 = s
  BY <1>2
<1> HIDE DEF pc1, s1, marks1
<1>6. /\ r \in CallRecords /\ r.pc = pc1 /\ r.op = op /\ r.s = s1 /\ r.rest = rest
      /\ r.marks = marks1
  BY <1>1, <1>2, <1>5 DEF CallRecords, Points
<1> HIDE DEF r
<1>7. /\ call'[c] = r /\ call' \in [Calls -> CallRecords]
      /\ \A d \in Calls : d # c => call'[d] = call[d]
  BY <1>4, <1>6 DEF IInv, Typed
<1>8. /\ targets \subseteq Tokens /\ \A t \in targets : token[t] # None /\ token[t].family = s
  BY <1>2 DEF Family
<1>9. /\ TokensKept /\ token' \in [Tokens -> TokenDocuments \cup {None}]
      /\ \A x \in Tokens : token[x] = None => token'[x] = None
      /\ \A x \in Tokens \ targets : token'[x] = token[x]
      /\ s \notin leaked' => \A x \in targets : ~Live(x)'
  <2>1. CASE token' = [t \in Tokens |-> IF t \in targets
                                        THEN [token[t] EXCEPT !.status = "REVOKED"]
                                        ELSE token[t]]
    <3>1. /\ TokensKept /\ token' \in [Tokens -> TokenDocuments \cup {None}]
          /\ \A x \in Tokens : token[x] = None => token'[x] = None
      BY <1>8, <2>1, RevokedTokens DEF IInv, Statuses
    <3>2. \A x \in targets : token'[x].status = "REVOKED"
      BY <1>8, <2>1, TokenFacts DEF IInv, TokenDocuments
    <3>3. QED BY <2>1, <3>1, <3>2 DEF Live
  <2>2. CASE leaked' = leaked \cup {s} /\ token' = token
    BY <2>2 DEF IInv, Typed, TypeOK, TokensKept, Live
  <2>3. QED BY <1>3, <2>1, <2>2
<1>10. Revokes(call[c])' /\ Rotating(call[c])'
  BY <1>2, <1>3, <1>5, <1>6, <1>7, NoneIsNoValue DEF Revokes, Rotating, Exists, Revocations
<1>11. SweptBy(c)'
  <2>1. ASSUME NEW x \in marks1 \ leaked', NEW t \in FamilyActive(x)' PROVE FALSE
    <3>1. t \in FamilyActive(x) /\ x \notin leaked /\ x \in marks \cup {s} /\ Live(t)'
      BY <1>3, <1>5, <1>9, <2>1 DEF TokensKept, FamilyActive, Family
    <3>2. t \in targets /\ x = s
      BY <1>2, <3>1
    <3>3. QED BY <1>9, <2>1, <3>1, <3>2
  <2>2. QED BY <1>5, <1>6, <1>7, <2>1 DEF SweptBy
<1>12. leaked \subseteq leaked' /\ leaked' \subseteq Sessions
  BY <1>2, <1>3 DEF IInv, Typed, TypeOK
<1>13. QED
  BY <1>3, <1>5, <1>6, <1>7, <1>9, <1>10, <1>11, <1>12, TokensRetired
  DEF IInv, Typed, TypeOK

-----------------------------------------------------------------------------
(* The actions that write sessions.                                           *)
LEMMA SessionsWritten ==
    ASSUME IInv, NEW c \in Calls, NEW r \in CallRecords, call' = [call EXCEPT ![c] = r],
           UNCHANGED <<created, token, expired, leaked>>,
           faults' \in {faults, faults + 1}, r.pc \in {"idle", "next"}, r.marks = {},
           Revokes(call[c])', SessionsKept,
           session' \in [Sessions -> SessionDocuments \cup {None}],
           \A s \in Sessions : session'[s] # None =>
               /\ session'[s].revoked <=> session'[s].reason # None
               /\ Exists(s) \/ (call[c].pc = "commit" /\ s = call[c].s),
           held \subseteq held', held' \subseteq held \cup Fresh(call[c]),
           held' # held => session'[Heir(call[c])] # None,
           SessionsRight
    PROVE  Sound
<1>1. /\ call'[c] = r /\ call' \in [Calls -> CallRecords]
      /\ \A d \in Calls : d # c => call'[d] = call[d]
  BY DEF IInv, Typed
<1>2. TokensKept /\ NewTokens /\ QuietFamilies
  BY DEF TokensKept, NewTokens, QuietFamilies, Live, FamilyActive, Family
<1>3. Fresh(call[c]) \subseteq Tokens
  BY CallFacts DEF IInv, Fresh, Creating, Rotating
<1>4. \A t \in held' : token'[t] # None => session'[token'[t].family] # None
  <2>1. ASSUME NEW t \in held', token[t] # None PROVE session'[token[t].family] # None
    <3>1. CASE t \in held
      <4>1. Exists(token[t].family) /\ token[t].family \in Sessions
        BY <2>1, <3>1, TokenFacts DEF IInv, Typed, TypeOK
      <4>2. QED BY <4>1 DEF SessionsKept
    <3>2. CASE t \notin held
      <4>1. t \in Fresh(call[c]) /\ session'[Heir(call[c])] # None
        BY <2>1, <3>2
      <4>2. token[t].family = Heir(call[c])
        BY <2>1, <4>1 DEF IInv, FreshTokens
      <4>3. QED BY <4>1, <4>2
    <3>3. QED BY <3>1, <3>2
  <2>2. QED BY <2>1
<1>5. Typed'
  <2>1. Documents'
    BY <1>3, <1>4, DocumentsHold DEF IInv, Documents, Exists
  <2>2. (Creating(call[c]) /\ Rotating(call[c]) /\ Revokes(call[c]))'
    BY <1>1 DEF Creating, Rotating
  <2>3. QED BY <1>1, <1>2, <2>1, <2>2, TypedKept DEF IInv
<1>6. CreatedOnce'
  <2>1. \A d \in Calls : call[d].pc = "commit" => call[d].s \in Sessions
    BY CallFacts DEF IInv, Creating
  <2>2. \A s \in Sessions : session'[s] # None => s <= created
    BY DEF IInv, CreatedOnce
  <2>3. \A d \in Calls : call'[d].pc = "commit" => d # c /\ call'[d] = call[d]
    BY <1>1
  <2>4. ASSUME NEW d \in Calls, d # c, call[d].pc = "commit"
        PROVE  session'[call[d].s] = None
    <3>1. ~Exists(call[d].s) /\ (call[c].pc = "commit" => call[c].s # call[d].s)
      BY <2>4 DEF IInv, CreatedOnce
    <3>2. QED BY <2>1, <2>4, <3>1
  <2>5. QED BY <2>2, <2>3, <2>4 DEF IInv, CreatedOnce, Exists
<1>7. FreshTokens'
  <2>1. \A d \in Calls : Fresh(call'[d]) = {} \/ (d # c /\ call'[d] = call[d])
    BY <1>1 DEF Fresh
  <2>2. \A d \in Calls : d # c => Fresh(call[d]) \cap held' = {}
    BY DEF IInv, FreshTokens
  <2>3. \A d \in Calls : call'[d] = call[d] => Heir(call[d])' = Heir(call[d])
    BY <1>2, HeirKept
  <2>4. QED BY <2>1, <2>2, <2>3 DEF IInv, FreshTokens
<1>8. CallsRight
  BY <1>1 DEF CallsRight, SweptBy
<1>9. QED BY <1>2, <1>5, <1>6, <1>7, <1>8 DEF Sound, Effects

LEMMA CreateSessionSound ==
    ASSUME IInv, NEW c \in Calls, CreateSession(c)
    PROVE  Sound
<1> PICK s, t : s = call[c].s /\ t = call[c].t
  OBVIOUS
<1> DEFINE d == [current |-> t, previous |-> {}, generation |-> 1,
                 revoked |-> FALSE, reason |-> None]
<1>1. /\ call[c].pc = "commit" /\ s \in Sessions /\ t \in Tokens /\ ~Exists(s)
      /\ Fresh(call[c]) = {t}
  BY CallFacts DEF IInv, CreateSession, Creating, CreatedOnce, Fresh
<1>2. /\ d \in SessionDocuments /\ d.current = t /\ d.previous = {} /\ d.generation = 1
      /\ ~d.revoked /\ d.reason = None /\ d # None
  <2>1. d \in SessionDocuments
    BY <1>1 DEF SessionDocuments
  <2>2. QED BY <2>1, NoneIsNoValue
<1>3. /\ \/ /\ session' = [session EXCEPT ![s] = d] /\ held' = held \cup {t}
            /\ faults' = faults
         \/ faults' = faults + 1 /\ session' = session /\ held' = held
      /\ call' = [call EXCEPT ![c] = Idle]
      /\ UNCHANGED <<created, token, expired, leaked>>
  BY DEF CreateSession, Fault, Ends
<1> HIDE DEF d
<1>4. /\ \A x \in Sessions \ {s} : session'[x] = session[x]
      /\ \/ session'[s] = d /\ held' = held \cup {t}
         \/ session'[s] = None /\ held' = held /\ faults' # 0
      /\ session' \in [Sessions -> SessionDocuments \cup {None}]
  BY <1>1, <1>2, <1>3 DEF IInv, Typed, TypeOK, Exists
<1>5. SessionsKept
  BY <1>1, <1>4 DEF SessionsKept, Exists
<1>7. SessionsRight
  <2>1. ASSUME NEW x \in Sessions, x # s PROVE session'[x] = session[x]
    BY <1>4, <2>1
  <2>2. session'[s] # None => ~session'[s].revoked
    BY <1>2, <1>4
  <2>3. QED BY <2>1, <2>2 DEF SessionsRight, Exists
<1>8. \A x \in Sessions : session'[x] # None =>
          /\ session'[x].revoked <=> session'[x].reason # None
          /\ Exists(x) \/ (call[c].pc = "commit" /\ x = call[c].s)
  BY <1>1, <1>2, <1>4 DEF IInv, Typed, TypeOK, Exists
<1>9. Revokes(call[c])'
  <2>1. call'[c] = Idle
    BY <1>3 DEF IInv, Typed
  <2>2. QED BY <2>1, IdleRecord, NoneIsNoValue DEF Revokes, Idle, Revocations
<1>10. held' # held => session'[Heir(call[c])] # None
  BY <1>1, <1>2, <1>4 DEF Heir
<1>11. QED
  BY <1>1, <1>3, <1>4, <1>5, <1>7, <1>8, <1>9, <1>10, IdleRecord, SessionsWritten

LEMMA AdvanceSessionSound ==
    ASSUME IInv, NEW c \in Calls, AdvanceSession(c)
    PROVE  Sound
<1> PICK s, t, new, snap :
        s = call[c].s /\ t = call[c].t /\ new = call[c].new /\ snap = call[c].snap
  OBVIOUS
<1> DEFINE d == [session[s] EXCEPT !.current = new, !.previous = snap.previous \cup {t},
                                   !.generation = token[t].generation + 1]
<1>1. /\ call[c].pc = "advance" /\ s \in Sessions /\ Exists(s) /\ new \in Tokens
      /\ t \in held /\ t \in Tokens /\ token[t] # None
      /\ snap \in SessionDocuments /\ Fresh(call[c]) = {new}
  BY CallFacts DEF IInv, AdvanceSession, Rotating, Fresh
<1>2. /\ d \in SessionDocuments /\ d.current = new
      /\ d.previous = snap.previous \cup {t}
      /\ d.generation = token[t].generation + 1
      /\ (d.revoked <=> session[s].revoked) /\ d.reason = session[s].reason /\ d # None
  <2>1. session[s] \in SessionDocuments /\ t \in Tokens /\ token[t].generation + 1 \in Nat
    BY <1>1, SessionFacts, TokenFacts DEF IInv
  <2>2. snap.previous \cup {t} \subseteq Tokens
    BY <1>1, <2>1 DEF SessionDocuments
  <2>3. d \in SessionDocuments
    BY <1>1, <2>1, <2>2 DEF SessionDocuments
  <2>4. QED BY <2>1, <2>3, NoneIsNoValue DEF SessionDocuments
<1>3. /\ \/ /\ session' = [session EXCEPT ![s] = d] /\ held' = held \cup {new}
            /\ faults' = faults
         \/ faults' = faults + 1 /\ session' = session /\ held' = held
      /\ call' = [call EXCEPT ![c] = Idle]
      /\ UNCHANGED <<created, token, expired, leaked>>
  BY DEF AdvanceSession, Advanced, Fault, Ends
<1> HIDE DEF d
<1>4. /\ \A x \in Sessions \ {s} : session'[x] = session[x]
      /\ \/ session'[s] = d /\ held' = held \cup {new}
         \/ session'[s] = session[s] /\ held' = held /\ faults' # 0
      /\ session' \in [Sessions -> SessionDocuments \cup {None}]
  BY <1>1, <1>2, <1>3 DEF IInv, Typed, TypeOK, Exists
<1>5. SessionsKept
  BY <1>1, <1>2, <1>4 DEF SessionsKept, Exists
<1>8. \A x \in Sessions : session'[x] # None =>
          Exists(x) /\ (session'[x].revoked <=> session[x].revoked)
                    /\ session'[x].reason = session[x].reason
  BY <1>1, <1>2, <1>4 DEF Exists
<1>9. SessionsRight
  BY <1>8 DEF SessionsRight
<1>11. Revokes(call[c])'
  <2>1. call'[c] = Idle
    BY <1>3 DEF IInv, Typed
  <2>2. QED BY <2>1, IdleRecord, NoneIsNoValue DEF Revokes, Idle, Revocations
<1>13. \A x \in Sessions : session'[x] # None =>
          /\ session'[x].revoked <=> session'[x].reason # None
          /\ Exists(x) \/ (call[c].pc = "commit" /\ x = call[c].s)
  BY <1>8 DEF IInv, Typed, TypeOK, Exists
<1>14. session'[Heir(call[c])] # None
  <2>1. Heir(call[c]) = token[t].family /\ token[t].family \in Sessions
    BY <1>1, TokenFacts DEF Heir, IInv
  <2>2. Exists(token[t].family)
    BY <1>1 DEF IInv, Typed
  <2>3. QED BY <1>5, <2>1, <2>2 DEF SessionsKept
<1>15. held \subseteq held' /\ held' \subseteq held \cup Fresh(call[c])
  BY <1>1, <1>4
<1>16. QED
  BY <1>3, <1>4, <1>5, <1>9, <1>11, <1>13, <1>14, <1>15, IdleRecord, SessionsWritten

LEMMA MarkRevokedSound ==
    ASSUME IInv, NEW c \in Calls, MarkRevoked(c)
    PROVE  Sound
<1> PICK marks, op : marks = call[c].marks /\ op = call[c].op
  OBVIOUS
<1> PICK r : r = IF call[c].rest = {} THEN Idle
                 ELSE [call[c] EXCEPT !.pc = "next", !.s = None, !.marks = {}]
  OBVIOUS
<1>1. /\ call[c] \in CallRecords /\ Revokes(call[c]) /\ call[c].pc = "mark"
      /\ SweptBy(c)
  BY CallFacts DEF IInv, MarkRevoked, Swept
<1>2. /\ marks \subseteq Sessions /\ op \in Revocations /\ call[c].s \in marks \cup {None}
      /\ \A x \in call[c].rest \cup marks : Exists(x)
      /\ \A x \in marks \ leaked : FamilyActive(x) = {}
  BY <1>1 DEF Revokes, CallRecords, SweptBy
<1>3. /\ r \in CallRecords /\ r.pc \in {"idle", "next"} /\ r.marks = {}
      /\ r.pc = "idle" => r.op = None /\ r.rest = {}
      /\ r.pc = "next" => r.op = op /\ r.rest = call[c].rest /\ r.s = None
  <2>1. CASE call[c].rest = {}
    BY <2>1, IdleRecord DEF Idle
  <2>2. CASE call[c].rest # {}
    BY <1>1, <2>2 DEF CallRecords, Points
  <2>3. QED BY <2>1, <2>2
<1>4. /\ \/ /\ session' = [s \in Sessions |->
                  IF s \in marks
                  THEN [session[s] EXCEPT !.revoked = TRUE, !.reason = Reason(op)]
                  ELSE session[s]]
            /\ faults' = faults
         \/ faults' = faults + 1 /\ session' = session
      /\ call' = [call EXCEPT ![c] = r]
      /\ UNCHANGED <<created, token, expired, held, leaked>>
  <2>1. call' = [call EXCEPT ![c] = r]
    BY <1>1 DEF MarkRevoked, Ends, IInv, Typed
  <2>2. QED BY <2>1 DEF MarkRevoked, Fault
<1>5. Reason(op) \in {"user", "logout", "limit"} /\ Reason(op) # None
  BY <1>2, NoneIsNoValue DEF Reason, Revocations
<1>6. ASSUME NEW s \in Sessions
      PROVE  /\ session'[s] \in SessionDocuments \cup {None}
             /\ session'[s] # None => Exists(s)
             /\ Exists(s) =>
                    /\ session'[s] # None
                    /\ session[s].revoked => session'[s].revoked
                    /\ session'[s].revoked => session[s].revoked \/ s \in marks
                    /\ session'[s].revoked <=> session'[s].reason # None
  <2>1. Exists(s) => session[s] \in SessionDocuments
    BY SessionFacts DEF IInv
  <2>2. session[s] \in SessionDocuments \cup {None}
    BY DEF IInv, Typed, TypeOK
  <2>3. Exists(s) => (session[s].revoked <=> session[s].reason # None)
    BY DEF IInv, Typed, TypeOK
  <2>4. CASE session' = session /\ faults' = faults + 1
    BY <2>2, <2>3, <2>4 DEF Exists
  <2>5. CASE /\ s \in marks
             /\ session'[s] = [session[s] EXCEPT !.revoked = TRUE, !.reason = Reason(op)]
    BY <1>2, <1>5, <2>1, <2>5, NoneIsNoValue DEF Exists, SessionDocuments
  <2>6. CASE s \notin marks /\ session'[s] = session[s]
    BY <2>2, <2>3, <2>6 DEF Exists
  <2>7. QED BY <1>4, <2>4, <2>5, <2>6
<1>7. session' \in [Sessions -> SessionDocuments \cup {None}]
  <2>1. session' = [s \in Sessions |-> session'[s]]
    BY <1>4 DEF IInv, Typed, TypeOK
  <2>2. QED BY <1>6, <2>1
<1>8. SessionsKept
  BY <1>6 DEF SessionsKept
<1>9. SessionsRight
  <2>1. ASSUME NEW s \in Sessions, session'[s].revoked, s \in marks, s \notin leaked'
        PROVE  FamilyActive(s)' = {}
    BY <1>2, <1>4, <2>1 DEF FamilyActive, Family, Live
  <2>2. QED BY <1>6, <2>1 DEF SessionsRight
<1>10. Revokes(call[c])'
  <2>1. call'[c] = r
    BY <1>4 DEF IInv, Typed
  <2>2. \A x \in r.rest : session'[x] # None
    BY <1>1, <1>2, <1>3, <1>6 DEF CallRecords
  <2>3. QED BY <1>2, <1>3, <2>1, <2>2, NoneIsNoValue DEF Revokes, Revocations, Exists
<1>11. \A s \in Sessions : session'[s] # None =>
           /\ session'[s].revoked <=> session'[s].reason # None
           /\ Exists(s)
  BY <1>6
<1>12. QED BY <1>3, <1>4, <1>7, <1>8, <1>9, <1>10, <1>11, SessionsWritten

-----------------------------------------------------------------------------
LEMMA OldestAreOpen == \A sessions : OldestOf(sessions) \subseteq sessions
BY DEF OldestOf

LEMMA RevokingCallsSound ==
    ASSUME IInv, NEW c \in Calls,
           \/ \E s \in Sessions : RevokeSession(c, s)
           \/ GlobalLogout(c)
           \/ EnforceConcurrentSessionLimit(c)
    PROVE  Sound
<1>1. Open \subseteq Sessions /\ \A s \in Open : Exists(s)
  BY DEF Open
<1>2. OldestOf(Open) \subseteq Open
  BY OldestAreOpen
<1>3. ASSUME NEW s \in Sessions, RevokeSession(c, s) PROVE Sound
  <2>1. {s} \in SUBSET Sessions /\ \A x \in {s} : Exists(x)
    BY <1>3 DEF RevokeSession
  <2>2. "revoke" \in Revocations /\ BeginRevoking(c, "revoke", {s})
    BY <1>3 DEF RevokeSession, Revocations
  <2>3. QED BY <2>1, <2>2, BeginRevokingSound
<1>4. CASE GlobalLogout(c)
  <2>1. "logout" \in Revocations /\ BeginRevoking(c, "logout", Open)
    BY <1>4 DEF GlobalLogout, Revocations
  <2>2. QED BY <1>1, <2>1, BeginRevokingSound
<1>5. CASE EnforceConcurrentSessionLimit(c)
  <2>1. "limit" \in Revocations /\ BeginRevoking(c, "limit", OldestOf(Open))
    BY <1>5 DEF EnforceConcurrentSessionLimit, Revocations
  <2>2. OldestOf(Open) \in SUBSET Sessions /\ \A s \in OldestOf(Open) : Exists(s)
    BY <1>1, <1>2
  <2>3. QED BY <2>1, <2>2, BeginRevokingSound
<1>6. QED BY <1>3, <1>4, <1>5

LEMMA NextSound == ASSUME IInv, Next PROVE Sound
<1>1. ASSUME NEW c \in Calls, NEW t \in Tokens,
             \/ StoreToken(c, t) \/ RotateToken(c, t)
             \/ \E s \in Sessions : VerifyToken(c, t, s)
      PROVE  Sound
  BY <1>1, StoreTokenSound, VerifyTokenSound, RotateTokenSound
<1>2. ASSUME NEW c \in Calls, CreateSession(c) \/ GetSession(c) \/ AdvanceSession(c)
      PROVE  Sound
  BY <1>2, CreateSessionSound, GetSessionSound, AdvanceSessionSound
<1>3. ASSUME NEW c \in Calls, NEW s \in Sessions, QueryFamily(c, s)
      PROVE  Sound
  BY <1>3, QueryFamilySound
<1>4. ASSUME NEW c \in Calls, SweepFamily(c) \/ MarkRevoked(c)
      PROVE  Sound
  BY <1>4, SweepFamilySound, MarkRevokedSound
<1>5. ASSUME NEW t \in Tokens, RevokeToken(t) \/ Expire(t)
      PROVE  Sound
  BY <1>5, RevokeTokenSound, ExpireSound
<1>6. QED
  BY <1>1, <1>2, <1>3, <1>4, <1>5, RevokingCallsSound, CleanupExpiredTokensSound DEF Next

LEMMA InitSound == Init => IInv
<1> SUFFICES ASSUME Init PROVE IInv
  OBVIOUS
<1>1. /\ \A c \in Calls : call[c] = Idle
      /\ \A s \in Sessions : session[s] = None
      /\ \A t \in Tokens : token[t] = None
  BY DEF Init
<1>2. TypeOK
  BY <1>1, IdleRecord, TokenAssumption DEF Init, TypeOK, Exists, Idle
<1>3. Typed
  BY <1>1, <1>2, IdleRecord DEF Init, Typed
<1>4. CreatedOnce /\ FreshTokens /\ Swept /\ RevocationReaches
  BY <1>1, IdleRecord
  DEF CreatedOnce, FreshTokens, Fresh, Exists, Swept, SweptBy, RevocationReaches
<1>5. QED BY <1>3, <1>4 DEF IInv

LEMMA StepSound == IInv /\ [Next]_vars => IInv' /\ SessionsKept
<1> SUFFICES ASSUME IInv, [Next]_vars PROVE IInv' /\ SessionsKept
  OBVIOUS
<1>1. CASE Next
  <2>1. Sound
    BY <1>1, NextSound
  <2>2. QED BY <2>1, Preserved DEF Sound, Effects
<1>2. CASE UNCHANGED vars
  <2> USE <1>2 DEF vars
  <2>1. Typed'
    BY DEF IInv, Typed, TypeOK, Exists, Family, Creating, Rotating, Revokes
  <2>2. CreatedOnce'
    BY DEF IInv, CreatedOnce, Exists
  <2>3. FreshTokens'
    BY DEF IInv, FreshTokens, Fresh, Heir
  <2>4. (Swept /\ RevocationReaches)'
    BY DEF IInv, Swept, SweptBy, RevocationReaches, Exists, Live, Family, FamilyActive
  <2>5. SessionsKept
    BY DEF SessionsKept, Exists
  <2>6. QED BY <2>1, <2>2, <2>3, <2>4, <2>5 DEF IInv
<1>3. QED BY <1>1, <1>2

LEMMA Invariance == Spec => []IInv
<1>1. QED BY InitSound, StepSound, PTL DEF Spec

(* Every document the accesses leave behind is one the code stores, and a     *)
(* session is revoked exactly when a reason is written.                       *)
THEOREM TypeCorrectness == Spec => []TypeOK
<1>1. IInv => TypeOK
  BY DEF IInv, Typed
<1>2. QED BY <1>1, Invariance, PTL

(* A session that is marked revoked has no ACTIVE token left, however many    *)
(* tokens its family had and whichever of the three revocations marked it,    *)
(* unless a rotation stored one behind the query or the batch failed.         *)
THEOREM RevocationComplete == Spec => []RevocationReaches
<1>1. IInv => RevocationReaches
  BY DEF IInv
<1>2. QED BY <1>1, Invariance, PTL

(* No step reopens a revoked session: a rotation that read the document       *)
(* before the revocation writes other fields of it.                           *)
THEOREM NeverReopened == Spec => RevokedStands
<1>1. IInv /\ [Next]_vars =>
          [\A s \in Sessions :
              Exists(s) /\ session[s].revoked => session'[s].revoked]_vars
  BY StepSound DEF SessionsKept
<1>2. QED BY <1>1, Invariance, PTL DEF Spec, RevokedStands

-----------------------------------------------------------------------------
(* What the expiry of a stored token decides.                                 *)
NoRotation ==
    /\ \A t \in Tokens : token[t] # None => token[t].status # "ROTATED"
    /\ \A c \in Calls : call[c].pc \notin {"lookup", "rotate", "advance"}

LEMMA NoRotationStep ==
    ASSUME IInv, NoRotation, ~ExpiryCompares, [Next]_vars
    PROVE  NoRotation'
<1> USE DEF NoRotation
<1>1. /\ call \in [Calls -> CallRecords]
      /\ token \in [Tokens -> TokenDocuments \cup {None}]
      /\ session \in [Sessions -> SessionDocuments \cup {None}]
  BY DEF IInv, Typed, TypeOK
<1>2. Idle.pc = "idle"
  BY IdleRecord
<1>3. ASSUME NEW targets \in SUBSET Tokens, NEW status \in {"REVOKED", "DELETED"},
             \A t \in targets : token[t] # None,
             token' = [t \in Tokens |-> IF t \in targets
                                        THEN [token[t] EXCEPT !.status = status]
                                        ELSE token[t]]
      PROVE  \A t \in Tokens : token'[t] # None => token'[t].status # "ROTATED"
  <2>1. \A t \in targets : token'[t].status = status
    BY <1>3, TokenFacts DEF IInv, TokenDocuments
  <2>2. \A t \in Tokens \ targets : token'[t] = token[t]
    BY <1>3
  <2>3. QED BY <2>1, <2>2
<1>4. ASSUME NEW c \in Calls, NEW r, call' = [call EXCEPT ![c] = r],
             r.pc \notin {"lookup", "rotate", "advance"}
      PROVE  \A d \in Calls : call'[d].pc \notin {"lookup", "rotate", "advance"}
  BY <1>1, <1>4
<1>5. ASSUME NEW c \in Calls, NEW t \in Tokens, StoreToken(c, t) PROVE NoRotation'
  <2>1. PICK r : r = [Idle EXCEPT !.op = "create", !.pc = "commit", !.s = created + 1, !.t = t]
    OBVIOUS
  <2>2. \A x \in Tokens : token'[x] = token[x] \/ token'[x].status = "ACTIVE"
    BY <1>1, <1>5 DEF StoreToken, NewToken
  <2>3. r.pc = "commit"
    BY <2>1 DEF Idle
  <2>4. call' = [call EXCEPT ![c] = r]
    BY <1>5, <2>1 DEF StoreToken
  <2>5. QED BY <1>4, <2>2, <2>3, <2>4
<1>6. ASSUME NEW c \in Calls, CreateSession(c) PROVE NoRotation'
  BY <1>2, <1>4, <1>6 DEF CreateSession, Ends
<1>7. ASSUME NEW c \in Calls, NEW op, NEW sessions, BeginRevoking(c, op, sessions)
      PROVE  NoRotation'
  <2>1. PICK r : r = [Idle EXCEPT !.op = op, !.pc = "next", !.rest = sessions]
    OBVIOUS
  <2>2. r.pc = "next"
    BY <2>1 DEF Idle
  <2>3. call' = [call EXCEPT ![c] = r] /\ token' = token
    BY <1>7, <2>1 DEF BeginRevoking
  <2>4. QED BY <1>4, <2>2, <2>3
<1>8. ASSUME NEW c \in Calls, NEW s, QueryFamily(c, s) PROVE NoRotation'
  <2>1. PICK r : r = [call[c] EXCEPT !.pc = "sweep", !.s = s, !.rest = @ \ {s},
                                     !.targets = FamilyActive(s)]
    OBVIOUS
  <2>2. r.pc = "sweep"
    BY <1>1, <2>1 DEF CallRecords
  <2>3. call' = [call EXCEPT ![c] = r] /\ token' = token
    BY <1>1, <1>8, <2>1 DEF QueryFamily
  <2>4. QED BY <1>4, <2>2, <2>3
<1>9. ASSUME NEW c \in Calls, SweepFamily(c) PROVE NoRotation'
  <2>1. PICK r : call' = [call EXCEPT ![c] = r] /\ r.pc \in {"next", "mark"}
    <3>1. CASE call[c].op = "logout"
      <4>1. PICK r : r = [call[c] EXCEPT
                              !.pc = IF call[c].rest = {} THEN "mark" ELSE "next",
                              !.s = None, !.marks = @ \cup {call[c].s}]
        OBVIOUS
      <4>2. r.pc \in {"next", "mark"}
        BY <1>1, <4>1 DEF CallRecords
      <4>3. call' = [call EXCEPT ![c] = r]
        BY <1>1, <1>9, <3>1, <4>1 DEF SweepFamily
      <4>4. QED BY <4>2, <4>3
    <3>2. CASE call[c].op # "logout"
      <4>1. PICK r : r = [call[c] EXCEPT !.pc = "mark", !.marks = {call[c].s}]
        OBVIOUS
      <4>2. r.pc = "mark"
        BY <1>1, <4>1 DEF CallRecords
      <4>3. call' = [call EXCEPT ![c] = r]
        BY <1>1, <1>9, <3>2, <4>1 DEF SweepFamily
      <4>4. QED BY <4>2, <4>3
    <3>3. QED BY <3>1, <3>2
  <2>2. /\ call[c].targets \subseteq Tokens
        /\ \A t \in call[c].targets : token[t] # None
    BY <1>9, CallFacts DEF SweepFamily, IInv, Revokes, Family
  <2>3. \A t \in Tokens : token'[t] # None => token'[t].status # "ROTATED"
    <3>1. CASE token' = token
      BY <3>1
    <3>2. CASE token' = [t \in Tokens |-> IF t \in call[c].targets
                                          THEN [token[t] EXCEPT !.status = "REVOKED"]
                                          ELSE token[t]]
      BY <1>3, <2>2, <3>2
    <3>3. QED BY <1>9, <3>1, <3>2 DEF SweepFamily
  <2>4. QED BY <1>4, <2>1, <2>3
<1>10. ASSUME NEW c \in Calls, MarkRevoked(c) PROVE NoRotation'
  <2>1. PICK r : call' = [call EXCEPT ![c] = r] /\ r.pc \in {"next", "idle"}
    <3>1. CASE call[c].rest = {}
      BY <1>2, <1>10, <3>1 DEF MarkRevoked, Ends
    <3>2. CASE call[c].rest # {}
      <4>1. PICK r : r = [call[c] EXCEPT !.pc = "next", !.s = None, !.marks = {}]
        OBVIOUS
      <4>2. r.pc = "next"
        BY <1>1, <4>1 DEF CallRecords
      <4>3. call' = [call EXCEPT ![c] = r]
        BY <1>1, <1>10, <3>2, <4>1 DEF MarkRevoked
      <4>4. QED BY <4>2, <4>3
    <3>3. QED BY <3>1, <3>2
  <2>2. QED BY <1>4, <1>10, <2>1 DEF MarkRevoked
<1>11. ASSUME NEW t \in Tokens, RevokeToken(t) PROVE NoRotation'
  <2>1. token' = [x \in Tokens |-> IF x \in {t} THEN [token[x] EXCEPT !.status = "REVOKED"]
                                   ELSE token[x]]
    BY <1>1, <1>11 DEF RevokeToken
  <2>2. QED BY <1>3, <1>11, <2>1 DEF RevokeToken
<1>12. CASE CleanupExpiredTokens
  <2>1. PICK old \in SUBSET expired :
            token' = [t \in Tokens |-> IF t \in old THEN [token[t] EXCEPT !.status = "DELETED"]
                                       ELSE token[t]]
    BY <1>12 DEF CleanupExpiredTokens
  <2>2. old \subseteq Tokens /\ \A t \in old : token[t] # None
    BY DEF IInv, Typed, TypeOK
  <2>3. QED BY <1>3, <1>12, <2>1, <2>2 DEF CleanupExpiredTokens
<1>13. ASSUME NEW c \in Calls,
              \/ GetSession(c) \/ AdvanceSession(c)
              \/ \E t \in Tokens : RotateToken(c, t)
              \/ \E t \in Tokens, s \in Sessions : VerifyToken(c, t, s)
       PROVE  FALSE
  BY <1>13, ~ExpiryCompares DEF GetSession, AdvanceSession, RotateToken, VerifyToken
<1>14. ASSUME NEW t \in Tokens, Expire(t) PROVE NoRotation'
  BY <1>14 DEF Expire
<1>15. CASE UNCHANGED vars
  BY <1>15 DEF vars
<1>16. QED
  BY <1>5, <1>6, <1>7, <1>8, <1>9, <1>10, <1>11, <1>12, <1>13, <1>14, <1>15
  DEF Next, RevokeSession, GlobalLogout, EnforceConcurrentSessionLimit

(* Over Firestore, whose timestamps carry a time zone, no refresh token is    *)
(* ever rotated: the comparison of its expiry with a time that has none       *)
(* raises (repositories/token_repository.py:121), which refuses the token.    *)
THEOREM NeverRotatedAsStored ==
    ASSUME ~ExpiryCompares PROVE Spec => []NoRotation
<1>1. Init => NoRotation
  BY IdleRecord DEF Init, NoRotation
<1>2. IInv /\ NoRotation /\ [Next]_vars => NoRotation'
  BY NoRotationStep
<1>3. QED BY <1>1, <1>2, Invariance, PTL DEF Spec
=============================================================================
