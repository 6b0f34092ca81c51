----------------------------- MODULE RequestGate -----------------------------
(* What a request passes before its handler, composed with the handlers of    *)
(* DeviceSessions: AdaptiveProtectionMiddleware with the abuse engine and the *)
(* threat intelligence of one API instance, then the rate limit.              *)
(*                                                                            *)
(* A fingerprint hashes path, method, client and correlation id, so that only *)
(* requests that repeat a correlation id share one; the others are assessed   *)
(* with an empty history and leave nothing that is read again (fp = None).    *)
(* Left out because the application never does it: quarantines (only tests    *)
(* set one), the challenge hook and request.state.session (nothing sets       *)
(* either), velocity (all observations of a fingerprint have one address).    *)
EXTENDS DeviceSessions, Integers, Sequences, SequencesExt

CONSTANTS
    Fingerprints,     \* fingerprints of requests that repeat a correlation id
    Scripted,         \* those of a script on a login path
    Dense,            \* those with an entropy score above 4.5
    ClusterSize,      \* 8: observations that make a cluster
    SignalTTL,        \* 60 minutes
    Stores,           \* "memory" and "redis": the rate limit stores to look at
    Limit,            \* API_RATE_LIMIT_PER_MINUTE
    Window,           \* 60 seconds
    MaxRequests,      \* bounds of the instance: requests, time, store failures
    MaxTime,
    MaxFaults

ASSUME GateAssumption ==
    /\ Scripted \cup Dense \subseteq Fingerprints /\ None \notin Fingerprints
    /\ Stores \subseteq {"memory", "redis"}
    /\ {ClusterSize, SignalTTL, Limit, Window, MaxRequests, MaxTime} \subseteq Nat \ {0}
    /\ MaxFaults \in Nat

VARIABLES
    now,          \* time
    arrived,      \* requests so far
    observed,     \* fingerprint -> observations, up to ClusterSize
    signal,       \* fingerprint -> its ThreatIntelSignal (count 0: none)
    verdict,      \* fingerprint -> action of its last assessment (history)
    store,        \* the rate limit store of this deployment
    hits,         \* key -> times in the store
    admitted,     \* key -> times of the requests let through (history)
    faults

gateVars == <<now, arrived, observed, signal, verdict, store, hits, admitted, faults>>
vars == <<deviceVars, gateVars>>

Actions == {"ALLOW", "THROTTLE", "CHALLENGE", "QUARANTINE", "BLOCK"}
Keys == (Kinds \ {"login"}) \X Users
MaxCount == 6     \* from here on the count adds no score

-----------------------------------------------------------------------------
(* assess(), in half points: 10 for entropy, 35 and up to 15 for a known      *)
(* threat, 20 for a cluster, 25 for a script on a login path.                 *)
Known(fp) == signal[fp].count > 0 /\ now - signal[fp].seen <= SignalTTL

(* Mutant: a cluster weighs as much as it takes to challenge.                 *)
ClusterScoreHigh(fp) == IF observed[fp] >= ClusterSize THEN 80 ELSE 0

ClusterScore(fp) == IF observed[fp] >= ClusterSize THEN 40 ELSE 0

Score(fp) ==
    (IF fp \in Dense THEN 20 ELSE 0)
    + (IF Known(fp) THEN 70 + 5 * signal[fp].count ELSE 0)
    + ClusterScore(fp)
    + (IF fp \in Scripted THEN 50 ELSE 0)

Classify(score) ==
    IF score >= 160 THEN "BLOCK" ELSE IF score >= 120 THEN "QUARANTINE"
    ELSE IF score >= 80 THEN "CHALLENGE" ELSE IF score >= 40 THEN "THROTTLE"
    ELSE "ALLOW"

(* mark_indicator: a signal that has expired starts again.                    *)
Marked(fp) ==
    LET count == IF Known(fp) THEN signal[fp].count ELSE 0 IN
    [count |-> IF count < MaxCount THEN count + 1 ELSE count, seen |-> now]

Assess(fp) ==
    LET action == Classify(Score(fp)) IN
    /\ verdict' = [verdict EXCEPT ![fp] = action]
    /\ observed' = [observed EXCEPT ![fp] = IF @ < ClusterSize THEN @ + 1 ELSE @]
    /\ signal' = [signal EXCEPT ![fp] =
                     IF action \in {"ALLOW", "THROTTLE"} THEN @ ELSE Marked(fp)]

(* dispatch(): only BLOCK stops a request.  No route answers a login path.    *)
(* Path and method are part of a fingerprint: one that repeats is of one kind.*)
Arrive(r, kind, user, secret, fp) ==
    /\ request[r].pc = "free" /\ arrived < MaxRequests
    /\ arrived' = arrived + 1
    /\ (kind = "login") <=> (fp \in Scripted)
    /\ fp \in Fingerprints \ Scripted => kind = "list"
    /\ (secret = None) <=> (kind \in {"list", "login"})
    /\ IF fp = None THEN UNCHANGED <<verdict, observed, signal>> ELSE Assess(fp)
    /\ IF kind = "login" \/ (fp # None /\ verdict'[fp] = "BLOCK")
       THEN UNCHANGED request
       ELSE request' = [request EXCEPT ![r] =
                [Free EXCEPT !.pc = "limit", !.kind = kind, !.user = user,
                             !.secret = secret]]
    /\ UNCHANGED <<now, store, hits, admitted, faults, device, dead, revived>>

-----------------------------------------------------------------------------
(* hit() of the two stores: what is kept, and how many are left.  A request   *)
(* that finds the limit reached is stored in Redis and not in memory; Redis   *)
(* stores whole seconds, and two requests of one second as one.  What is too  *)
(* old is dropped from the front, up to the first time that is not.           *)
Since(times, from) ==
    LET old == CHOOSE n \in 0..Len(times) :
                  /\ \A i \in 1..n : times[i] < from
                  /\ n < Len(times) => times[n + 1] >= from IN
    SubSeq(times, old + 1, Len(times))

Recent(key) == Since(hits[key], now - Window)

(* Mutant: a request that is exactly as old as the window is dropped.         *)
MemoryHitShort(key) ==
    LET kept == Since(hits[key], now - Window + 1) IN
    IF Len(kept) >= Limit THEN [kept |-> kept, left |-> 0]
    ELSE [kept |-> Append(kept, now), left |-> Limit - Len(kept) - 1]

(* Mutant: a refused request is stored as well.                               *)
MemoryHitAlways(key) ==
    [kept |-> Append(Recent(key), now),
     left |-> IF Len(Recent(key)) >= Limit THEN 0 ELSE Limit - Len(Recent(key)) - 1]

MemoryHit(key) ==
    IF Len(Recent(key)) >= Limit THEN [kept |-> Recent(key), left |-> 0]
    ELSE [kept |-> Append(Recent(key), now), left |-> Limit - Len(Recent(key)) - 1]

RedisHit(key) ==
    LET kept == Since(hits[key], now - Window + 1) IN
    [kept |-> IF Contains(kept, now) THEN kept ELSE Append(kept, now),
     left |-> IF Len(kept) >= Limit THEN 0 ELSE Limit - Len(kept) - 1]

(* enforce_rate_limit: the request that uses up the last of the limit is      *)
(* refused; a store that raises is skipped.                                   *)
EnforceRateLimit(r) ==
    LET key == <<request[r].kind, request[r].user>>
        hit == IF store = "memory" THEN MemoryHit(key) ELSE RedisHit(key) IN
    /\ request[r].pc = "limit"
    /\ \/ /\ hits' = [hits EXCEPT ![key] = hit.kept]
          /\ IF hit.left = 0
             THEN Answers(r) /\ UNCHANGED admitted
             ELSE /\ Goes(r, "handler")
                  /\ admitted' = [admitted EXCEPT ![key] = Append(@, now)]
          /\ UNCHANGED faults
       \/ /\ store = "redis" /\ faults < MaxFaults /\ faults' = faults + 1
          /\ Goes(r, "handler")
          /\ UNCHANGED <<hits, admitted>>
    /\ UNCHANGED <<now, arrived, observed, signal, verdict, store, device, dead, revived>>

Tick ==
    /\ now < MaxTime /\ now' = now + 1
    /\ UNCHANGED <<arrived, observed, signal, verdict, store, hits, admitted, faults,
                   deviceVars>>

-----------------------------------------------------------------------------
Init ==
    /\ DeviceInit
    /\ now = 0 /\ arrived = 0 /\ faults = 0
    /\ observed = [f \in Fingerprints |-> 0]
    /\ signal = [f \in Fingerprints |-> [count |-> 0, seen |-> 0]]
    /\ verdict = [f \in Fingerprints |-> "ALLOW"]
    /\ store \in Stores
    /\ hits = [k \in Keys |-> <<>>] /\ admitted = [k \in Keys |-> <<>>]

Next ==
    \/ \E r \in Requests :
        \/ \E kind \in Kinds, u \in Users, s \in Secrets \cup {None},
           f \in Fingerprints \cup {None} :
            Arrive(r, kind, u, s, f)
        \/ EnforceRateLimit(r)
    \/ DeviceNext /\ UNCHANGED gateVars
    \/ Tick

Spec == Init /\ [][Next]_vars

-----------------------------------------------------------------------------
(* The records hold what the code stores in them; a store keeps no more times *)
(* of a key than the limit allows.                                            *)
TypeOK ==
    /\ DeviceTypeOK
    /\ now \in 0..MaxTime /\ arrived \in 0..MaxRequests
    /\ observed \in [Fingerprints -> 0..ClusterSize]
    /\ signal \in [Fingerprints -> [count : 0..MaxCount, seen : 0..MaxTime]]
    /\ verdict \in [Fingerprints -> Actions]
    /\ \A k \in Keys : Len(hits[k]) <= Limit \/ store = "redis"

(* Adaptive protection escalates: only a script on a login path is ever       *)
(* blocked, after a warning that is still remembered, and once blocked it     *)
(* stays blocked until it has been silent for the lifetime of the signal.     *)
BlocksEscalate ==
    [][\A f \in Fingerprints : verdict'[f] # verdict[f] =>
        /\ verdict'[f] = "BLOCK" => f \in Scripted /\ Known(f)
        /\ verdict[f] = "BLOCK" => ~Known(f)]_vars

(* The limit is one request short: the one that reaches it is counted and     *)
(* refused, where tests/test_rate_limit.py:11 expects it to be let through.   *)
(* So however requests arrive, in memory no window ever sees as many let      *)
(* through as the limit says.  Under Redis no window sees requests let        *)
(* through in as many different seconds; how many there are in one second     *)
(* nothing bounds, as they share an entry.                                    *)
Seconds(key, from) == {t \in ToSet(admitted[key]) : from < t /\ t <= from + Window}
Within(key, from) ==
    {i \in 1..Len(admitted[key]) : admitted[key][i] \in from..(from + Window)}
LimitNeverReached ==
    \A key \in Keys, from \in 0..now :
        IF store = "redis" THEN Cardinality(Seconds(key, from)) < Limit
        ELSE Cardinality(Within(key, from)) < Limit
=============================================================================
