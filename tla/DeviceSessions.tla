--------------------------- MODULE DeviceSessions ----------------------------
(* The handlers of api/auth_router.py over services/device_session_service.py:*)
(* register (upsert), list and revoke one device session, whose request       *)
(* secret signs the requests.                                                 *)
(*                                                                            *)
(* An action is one access to the Firestore document; API instances interleave*)
(* between two accesses.  A request carries the secret it is signed with; a   *)
(* registration is signed with the secret it registers.  Timestamps and       *)
(* bodies, the version counter and the encryption of secrets are left out.    *)
EXTENDS Naturals, FiniteSets

CONSTANTS
    Requests,     \* requests handled at a time
    Users,        \* user and organization
    Secrets,      \* request secrets
    None

ASSUME DeviceAssumption == None \notin Users \cup Secrets

VARIABLES
    device,       \* the document, or None
    request,      \* the requests under way
    dead,         \* secrets a revocation removed, not registered since (history)
    revived       \* a registration wrote what it read before a revocation (history)

deviceVars == <<device, request, dead, revived>>

Kinds == {"register", "list", "revoke", "login"}
Documents ==
    [user : Users, revoked : BOOLEAN, secret : Secrets \cup {None},
     previous : Secrets \cup {None}]

ASSUME NoneIsNoDocument == None \notin Documents

Free == [pc |-> "free", kind |-> None, user |-> None, secret |-> None,
         read |-> None, late |-> FALSE]

Answers(r) == request' = [request EXCEPT ![r] = Free]
Goes(r, pc) == request' = [request EXCEPT ![r].pc = pc]
At(r, kinds, pc) == request[r].pc = pc /\ request[r].kind \in kinds

-----------------------------------------------------------------------------
(* upsert() reads the document; another owner's makes it raise.               *)
ReadForUpsert(r) ==
    /\ At(r, {"register"}, "handler")
    /\ IF device # None /\ device.user # request[r].user
       THEN Answers(r)
       ELSE request' = [request EXCEPT ![r].pc = "write", ![r].read = device]
    /\ UNCHANGED <<device, dead, revived>>

(* The secret that was read becomes the previous one when it differs; the     *)
(* merge leaves what the payload does not name.                               *)
Registered(r) ==
    LET new == request[r].secret
        old == request[r].read
        rotates == old # None /\ old.secret \notin {None, new}
        kept == IF device = None THEN None ELSE device.previous IN
    [user |-> request[r].user, revoked |-> FALSE, secret |-> new,
     previous |-> IF rotates THEN old.secret ELSE kept]

WriteUpsert(r) ==
    /\ At(r, {"register"}, "write")
    /\ device' = Registered(r)
    /\ dead' = dead \ {request[r].secret}
    /\ revived' = (revived \/ request[r].late)
    /\ Answers(r)

(* list and revoke: the session must exist, live and belong to the user.      *)
ReadForCheck(r) ==
    /\ At(r, {"list", "revoke"}, "handler")
    /\ IF device # None /\ ~device.revoked /\ device.user = request[r].user
       THEN Goes(r, "signature") ELSE Answers(r)
    /\ UNCHANGED <<device, dead, revived>>

(* A second read yields the secrets: the current or the previous one will do. *)
CheckSignature(r) ==
    /\ At(r, {"list", "revoke"}, "signature")
    /\ IF /\ request[r].kind = "revoke"
          /\ request[r].secret \in {device.secret, device.previous}
       THEN Goes(r, "write") ELSE Answers(r)
    /\ UNCHANGED <<device, dead, revived>>

(* Mutant: only the current secret is deleted.                                *)
ClearedCurrent(d) == [d EXCEPT !.revoked = TRUE, !.secret = None]

Cleared(d) == [d EXCEPT !.revoked = TRUE, !.secret = None, !.previous = None]

WriteRevoke(r) ==
    /\ At(r, {"revoke"}, "write")
    /\ device' = [Cleared(device) EXCEPT !.user = request[r].user]
    /\ dead' = dead \cup ({device.secret, device.previous} \ {None})
    /\ request' = [q \in Requests |->
                      IF q = r THEN Free
                      ELSE [request[q] EXCEPT !.late = @ \/ request[q].pc = "write"]]
    /\ UNCHANGED revived

-----------------------------------------------------------------------------
DeviceInit == device = None /\ dead = {} /\ revived = FALSE
              /\ request = [r \in Requests |-> Free]

DeviceNext ==
    \E r \in Requests :
        \/ ReadForUpsert(r) \/ WriteUpsert(r)
        \/ ReadForCheck(r) \/ CheckSignature(r) \/ WriteRevoke(r)

DeviceTypeOK ==
    /\ device \in Documents \cup {None}
    /\ dead \subseteq Secrets /\ revived \in BOOLEAN
    /\ \A r \in Requests :
        /\ request[r].kind \in Kinds \cup {None}
        /\ request[r].user \in Users \cup {None}
        /\ request[r].read \in Documents \cup {None}

(* A secret from before a revocation signs nothing afterwards, unless it is   *)
(* registered again or a registration had read the session before the         *)
(* revocation; re-registration does not bring it back as the previous one.    *)
DeadSecretsStayDead ==
    ~revived /\ device # None => {device.secret, device.previous} \cap dead = {}
=============================================================================
