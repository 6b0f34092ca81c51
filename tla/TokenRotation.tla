---------------------------- MODULE TokenRotation ----------------------------
(* Refresh tokens and the sessions they belong to:                            *)
(* services/session_security_service.py over repositories/token_repository.py *)
(*                                                                            *)
(* Two collections of Firestore without a transaction across them.  One       *)
(* action is one access, a query or a batch, with the local computation that  *)
(* precedes it; the accesses of concurrent calls interleave.  Every session   *)
(* has its own token family, but a rotation is given a token and a session,   *)
(* and nothing compares the one with the family of the other.  Hashes,        *)
(* addresses, fingerprints and the security events are left out.  So is the   *)
(* branch that revokes a family when a ROTATED token is presented:            *)
(* verify_and_get_token has already refused every status but ACTIVE, and no   *)
(* execution reaches it.                                                      *)
(*                                                                            *)
(* Over Firestore ExpiryCompares is FALSE: it returns timestamps with a time  *)
(* zone, comparing one with datetime.now() raises, and verify_and_get_token   *)
(* refuses every token.  TRUE is a store that returns what was put into it.   *)
EXTENDS Naturals, FiniteSets

CONSTANTS
    MaxCreated,       \* sessions created (a bound of the instance)
    Tokens,           \* token ids that can be drawn
    Calls,            \* requests that run at a time
    None,
    ExpiryCompares,   \* a stored expires_at can be compared with the time
    MaxSessions,      \* max_sessions of the concurrent session limit
    MaxMishaps        \* failures of Firestore and tokens that expire or are
                      \* revoked singly, together (a bound of the instance)

ASSUME TokenAssumption ==
    /\ {MaxCreated, MaxSessions} \subseteq Nat \ {0}
    /\ MaxMishaps \in Nat /\ ExpiryCompares \in BOOLEAN
    /\ None \notin Tokens

(* The n-th session in the order of created_at.                               *)
Sessions == 1..MaxCreated

VARIABLES
    created,     \* create_session calls so far
    session,     \* session -> document, or None
    token,       \* token id -> document, or None
    expired,     \* tokens whose expires_at has passed
    held,        \* tokens that were handed to a client (history)
    leaked,      \* sessions a token was stored for behind a revocation (history)
    call,
    faults       \* how many mishaps there were

vars == <<created, session, token, expired, held, leaked, call, faults>>

(* previous is kept as a set; from names the token a rotation started from.   *)
Statuses == {"ACTIVE", "ROTATED", "REVOKED", "DELETED"}
TokenDocuments ==
    [status : Statuses, family : Sessions, generation : Nat,
     from : Tokens \cup {None}]
SessionDocuments ==
    [current : Tokens, previous : SUBSET Tokens, generation : Nat,
     revoked : BOOLEAN, reason : {None, "user", "logout", "limit"}]

ASSUME NoneIsNoValue ==
    /\ None \notin TokenDocuments /\ None \notin SessionDocuments
    /\ None \notin Sessions /\ None \notin {"user", "logout", "limit", "revoke"}

Idle == [op |-> None, pc |-> "idle", s |-> None, t |-> None, new |-> None,
         snap |-> None, rest |-> {}, targets |-> {}, marks |-> {}]

Fault == faults < MaxMishaps /\ faults' = faults + 1
Ends(c) == call' = [call EXCEPT ![c] = Idle]

Exists(s) == session[s] # None
Live(t) == token[t] # None /\ token[t].status = "ACTIVE"
Family(s) == {t \in Tokens : token[t] # None /\ token[t].family = s}
Unused(t) ==
    /\ token[t] = None /\ t \notin held
    /\ \A c \in Calls : t \notin {call[c].t, call[c].new}

NewToken(s, generation, from) ==
    [status |-> "ACTIVE", family |-> s, generation |-> generation, from |-> from]

-----------------------------------------------------------------------------
(* create_session stores the token first; store_token swallows a failure.     *)
StoreToken(c, t) ==
    LET s == created + 1 IN
    /\ call[c].pc = "idle" /\ created < MaxCreated /\ Unused(t)
    /\ created' = s
    /\ \/ token' = [token EXCEPT ![t] = NewToken(s, 1, None)] /\ UNCHANGED faults
       \/ Fault /\ UNCHANGED token
    /\ call' = [call EXCEPT ![c] = [Idle EXCEPT !.op = "create", !.pc = "commit",
                                                !.s = s, !.t = t]]
    /\ UNCHANGED <<session, expired, held, leaked>>

CreateSession(c) ==
    LET s == call[c].s IN
    /\ call[c].pc = "commit"
    /\ \/ /\ session' = [session EXCEPT ![s] =
                 [current |-> call[c].t, previous |-> {}, generation |-> 1,
                  revoked |-> FALSE, reason |-> None]]
          /\ held' = held \cup {call[c].t}
          /\ UNCHANGED faults
       \/ Fault /\ UNCHANGED <<session, held>>
    /\ Ends(c)
    /\ UNCHANGED <<created, token, expired, leaked>>

-----------------------------------------------------------------------------
(* rotate_refresh_token: verify the token, read the session (whose token it   *)
(* is and whether it is revoked is not asked), exchange the token, advance    *)
(* the session.  A call that is refused, or whose read fails, changes         *)
(* nothing.                                                                   *)
VerifyToken(c, t, s) ==
    /\ call[c].pc = "idle"
    /\ t \in held /\ Live(t) /\ ExpiryCompares /\ t \notin expired
    /\ call' = [call EXCEPT ![c] = [Idle EXCEPT !.op = "rotate", !.pc = "lookup",
                                                !.s = s, !.t = t]]
    /\ UNCHANGED <<created, session, token, expired, held, leaked, faults>>

GetSession(c) ==
    LET s == call[c].s IN
    /\ call[c].pc = "lookup"
    /\ IF Exists(s)
       THEN call' = [call EXCEPT ![c].pc = "rotate", ![c].snap = session[s]]
       ELSE Ends(c)
    /\ UNCHANGED <<created, session, token, expired, held, leaked, faults>>

(* A revocation of s has read which tokens to revoke.                         *)
Revoking(s) ==
    \/ session[s].revoked
    \/ \E c \in Calls : call[c].op \in {"revoke", "limit", "logout"}
                        /\ (s \in call[c].marks \/ call[c].s = s)

(* One batch retires the old token, whatever became of it since it was        *)
(* verified, and stores the new one; the result of rotate_token is ignored.   *)
RotateToken(c, u) ==
    LET old == call[c].t
        family == token[old].family IN
    /\ call[c].pc = "rotate" /\ Unused(u)
    /\ \/ /\ token' = [token EXCEPT ![old].status = "ROTATED",
                           ![u] = NewToken(family, token[old].generation + 1, old)]
          /\ leaked' = IF Revoking(family) THEN leaked \cup {family} ELSE leaked
          /\ UNCHANGED faults
       \/ Fault /\ UNCHANGED <<token, leaked>>
    /\ call' = [call EXCEPT ![c].pc = "advance", ![c].new = u]
    /\ UNCHANGED <<created, session, expired, held>>

(* Mutant: the session that was read is written back.                         *)
AdvancedWhole(c, doc) ==
    [call[c].snap EXCEPT !.current = call[c].new, !.previous = @ \cup {call[c].t},
                         !.generation = token[call[c].t].generation + 1]

(* The fields the update names; the list of previous tokens and the counters  *)
(* are those of the session that was read.                                    *)
Advanced(c, doc) ==
    [doc EXCEPT !.current = call[c].new,
                !.previous = call[c].snap.previous \cup {call[c].t},
                !.generation = token[call[c].t].generation + 1]

AdvanceSession(c) ==
    LET s == call[c].s IN
    /\ call[c].pc = "advance"
    /\ \/ /\ session' = [session EXCEPT ![s] = Advanced(c, @)]
          /\ held' = held \cup {call[c].new}
          /\ UNCHANGED faults
       \/ Fault /\ UNCHANGED <<session, held>>
    /\ Ends(c)
    /\ UNCHANGED <<created, token, expired, leaked>>

-----------------------------------------------------------------------------
(* revoke_session, global_logout and enforce_concurrent_session_limit name    *)
(* the sessions they revoke in rest.                                          *)
Open == {s \in Sessions : Exists(s) /\ ~session[s].revoked}

BeginRevoking(c, op, sessions) ==
    /\ call[c].pc = "idle" /\ sessions # {}
    /\ call' = [call EXCEPT ![c] = [Idle EXCEPT !.op = op, !.pc = "next",
                                                !.rest = sessions]]
    /\ UNCHANGED <<created, session, token, expired, held, leaked, faults>>

RevokeSession(c, s) == Exists(s) /\ BeginRevoking(c, "revoke", {s})
GlobalLogout(c) == BeginRevoking(c, "logout", Open)

OldestOf(sessions) ==
    {s \in sessions : Cardinality({u \in sessions : u > s}) >= MaxSessions}
EnforceConcurrentSessionLimit(c) == BeginRevoking(c, "limit", OldestOf(Open))

(* Mutant: the token the session names.                                       *)
CurrentActive(s) == {t \in {session[s].current} : Live(t)}

FamilyActive(s) == {t \in Family(s) : Live(t)}

(* revoke_token_family queries the ACTIVE tokens of the family ...            *)
QueryFamily(c, s) ==
    /\ call[c].pc = "next" /\ s \in call[c].rest
    /\ call' = [call EXCEPT ![c].pc = "sweep", ![c].s = s, ![c].rest = @ \ {s},
                            ![c].targets = FamilyActive(s)]
    /\ UNCHANGED <<created, session, token, expired, held, leaked, faults>>

(* ... and revokes them in one batch, which fails as a whole when one was     *)
(* deleted meanwhile; a failure is logged and not noticed by the caller.      *)
SweepFamily(c) ==
    LET s == call[c].s
        targets == call[c].targets IN
    /\ call[c].pc = "sweep"
    /\ \/ /\ \A t \in targets : token[t].status # "DELETED"
          /\ token' = [t \in Tokens |-> IF t \in targets
                                        THEN [token[t] EXCEPT !.status = "REVOKED"]
                                        ELSE token[t]]
          /\ UNCHANGED <<leaked, faults>>
       \/ /\ IF \E t \in targets : token[t].status = "DELETED"
             THEN UNCHANGED faults ELSE Fault
          /\ leaked' = leaked \cup {s} /\ UNCHANGED token
    /\ IF call[c].op = "logout"
       THEN call' = [call EXCEPT ![c].pc = IF call[c].rest = {} THEN "mark" ELSE "next",
                                 ![c].s = None, ![c].marks = @ \cup {s}]
       ELSE call' = [call EXCEPT ![c].pc = "mark", ![c].marks = {s}]
    /\ UNCHANGED <<created, session, expired, held>>

(* Mutant: the reason is not written.                                         *)
ReasonLeftOut(op) == None

(* The sessions are marked: each after its tokens, those of a global logout   *)
(* together after all tokens.                                                 *)
Reason(op) == IF op = "revoke" THEN "user" ELSE op
MarkRevoked(c) ==
    /\ call[c].pc = "mark"
    /\ \/ /\ session' = [s \in Sessions |->
                 IF s \in call[c].marks
                 THEN [session[s] EXCEPT !.revoked = TRUE, !.reason = Reason(call[c].op)]
                 ELSE session[s]]
          /\ UNCHANGED faults
       \/ Fault /\ UNCHANGED session
    /\ IF call[c].rest = {}
       THEN Ends(c)
       ELSE call' = [call EXCEPT ![c].pc = "next", ![c].s = None, ![c].marks = {}]
    /\ UNCHANGED <<created, token, expired, held, leaked>>

-----------------------------------------------------------------------------
(* revoke_token: one token, in whatever status.                               *)
RevokeToken(t) ==
    /\ token[t] # None /\ token[t].status # "DELETED" /\ Fault
    /\ token' = [token EXCEPT ![t].status = "REVOKED"]
    /\ UNCHANGED <<created, session, expired, held, leaked, call>>

Expire(t) ==
    /\ token[t] # None /\ t \notin expired /\ Fault
    /\ expired' = expired \cup {t}
    /\ UNCHANGED <<created, session, token, held, leaked, call>>

(* cleanup_expired_tokens, 30 days after the expiry: no rotation that         *)
(* verified the token is still running then.                                  *)
CleanupExpiredTokens ==
    LET old == {t \in expired : /\ token[t].status # "DELETED"
                                /\ \A c \in Calls : t \notin {call[c].t, call[c].new}} IN
    /\ old # {}
    /\ token' = [t \in Tokens |-> IF t \in old
                                  THEN [token[t] EXCEPT !.status = "DELETED"]
                                  ELSE token[t]]
    /\ UNCHANGED <<created, session, expired, held, leaked, call, faults>>

-----------------------------------------------------------------------------
Init ==
    /\ created = 0 /\ faults = 0
    /\ session = [s \in Sessions |-> None]
    /\ token = [t \in Tokens |-> None]
    /\ expired = {} /\ held = {} /\ leaked = {}
    /\ call = [c \in Calls |-> Idle]

Next ==
    \/ \E c \in Calls :
        \/ \E t \in Tokens :
            \/ StoreToken(c, t) \/ RotateToken(c, t)
            \/ \E s \in Sessions : VerifyToken(c, t, s)
        \/ CreateSession(c) \/ GetSession(c) \/ AdvanceSession(c)
        \/ \E s \in Sessions : RevokeSession(c, s) \/ QueryFamily(c, s)
        \/ GlobalLogout(c) \/ EnforceConcurrentSessionLimit(c)
        \/ SweepFamily(c) \/ MarkRevoked(c)
    \/ \E t \in Tokens : RevokeToken(t) \/ Expire(t)
    \/ CleanupExpiredTokens

Spec == Init /\ [][Next]_vars

-----------------------------------------------------------------------------
(* Documents hold what the code stores in them; a revocation has a reason.    *)
TypeOK ==
    /\ created \in 0..MaxCreated
    /\ session \in [Sessions -> SessionDocuments \cup {None}]
    /\ token \in [Tokens -> TokenDocuments \cup {None}]
    /\ expired \cup held \subseteq Tokens /\ leaked \subseteq Sessions
    /\ \A c \in Calls : call[c].targets \subseteq Tokens
    /\ \A s \in Sessions : Exists(s) => (session[s].revoked <=> session[s].reason # None)

(* What is claimed of rotation, "one-time-use enforcement": no token is       *)
(* exchanged for two tokens that both work.                                   *)
OneTimeUse ==
    \A u, v \in held :
        /\ Live(u) /\ Live(v)
        /\ token[u].from # None /\ token[u].from = token[v].from
        => u = v

(* A revoked session has no ACTIVE token, however many its family had, except *)
(* one that a rotation stored behind the revocation's query, or when the      *)
(* batch of the revocation failed.                                            *)
RevocationReaches ==
    \A s \in Sessions :
        Exists(s) /\ session[s].revoked /\ s \notin leaked => FamilyActive(s) = {}

(* Nothing reopens a revoked session: a rotation that read it before writes   *)
(* other fields only.                                                         *)
RevokedStands ==
    [][\A s \in Sessions :
        Exists(s) /\ session[s].revoked => session'[s].revoked]_vars
=============================================================================
