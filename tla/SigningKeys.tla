---------------------------- MODULE SigningKeys ----------------------------
(***************************************************************************)
(* The pool's public keys as the API verifies tokens with them             *)
(* (routes/auth.py JwksCache, CognitoAuthenticator).  Requests run on      *)
(* threads and share one cache without a lock; the pool rotates its keys   *)
(* at any moment.  Computing takes no time here and a fetch takes at most  *)
(* KeyTimeout.                                                             *)
(***************************************************************************)
EXTENDS Integers

CONSTANTS
    KeyId,          \* key ids the pool publishes at one time or another
    FirstKeys,      \* the ids it publishes at first
    Requests,       \* threads that authenticate a caller
    KeyTtl,         \* JWKS_TTL_SECONDS
    Cooldown,       \* JWKS_REFRESH_COOLDOWN_SECONDS
    KeyTimeout,     \* JWKS_TIMEOUT_SECONDS
    MaxKeyTime, MaxRotations  \* bounds of the exploration

ASSUME KeyAssumption ==
    /\ FirstKeys \subseteq KeyId /\ FirstKeys # {}
    /\ KeyTtl \in Nat \ {0} /\ Cooldown \in 1..KeyTtl /\ KeyTimeout \in Nat
    /\ MaxKeyTime \in Nat /\ MaxRotations \in Nat

VARIABLES
    keyTime,        \* the monotonic clock
    published,      \* the ids of the pool's current key set
    withdrawn,      \* history: when the pool last stopped publishing a key, or Never
    rotations,
    keys,           \* _keys: the ids held
    fetched,        \* _fetched_at, or Never
    request         \* per thread, how far identity() has come

poolKeys == <<published, withdrawn, rotations>>
heldKeys == <<keys, fetched>>
keyVars == <<keyTime, poolKeys, heldKeys, request>>

Never == -1
Roles == {"submitter", "reviewer"}

(* A caller who is refused, or whose request raised, leaves nothing behind. *)
NoRequest == [step |-> "idle", kid |-> "none", at |-> 0, since |-> 0, second |-> FALSE,
              document |-> {}, failed |-> FALSE]

KeyInit ==
    /\ keyTime = 0 /\ rotations = 0
    /\ published = FirstKeys /\ withdrawn = [k \in KeyId |-> Never]
    /\ keys = {} /\ fetched = Never
    /\ request = [r \in Requests |-> NoRequest]

KeyTypeOK ==
    /\ keyTime \in 0..MaxKeyTime /\ rotations \in 0..MaxRotations
    /\ published \in SUBSET KeyId /\ withdrawn \in [KeyId -> -1..MaxKeyTime]
    /\ keys \in SUBSET KeyId /\ fetched \in -1..MaxKeyTime
    /\ request \in [Requests ->
           [step : {"idle", "look", "fetch", "read", "stamp", "take", "done"},
            kid : KeyId \union {"none"}, at : 0..MaxKeyTime, since : 0..MaxKeyTime,
            second : BOOLEAN, document : SUBSET KeyId, failed : BOOLEAN]]

(***************************************************************************)
(* The pool and the clock.                                                 *)
(***************************************************************************)
Rotate ==
    /\ rotations < MaxRotations /\ rotations' = rotations + 1
    /\ \E next \in SUBSET KeyId \ {{}, published} :
        /\ withdrawn' = [k \in KeyId |-> IF k \in published \ next THEN keyTime ELSE withdrawn[k]]
        /\ published' = next
    /\ UNCHANGED <<keyTime, heldKeys, request>>

OnTheWire(r) == request[r].step \in {"fetch", "read"} /\ keyTime - request[r].since < KeyTimeout

PassTime ==
    /\ keyTime < MaxKeyTime /\ keyTime' = keyTime + 1
    /\ \A r \in Requests : request[r].step = "idle" \/ OnTheWire(r)
    /\ UNCHANGED <<poolKeys, heldKeys, request>>

(***************************************************************************)
(* JwksCache.key_for.  The clock is read once, so a reload stamps the time *)
(* the request arrived, and the reload is judged against that time too.    *)
(***************************************************************************)
Goes(r, req) == request' = [request EXCEPT ![r] = req]

Load(req) == [req EXCEPT !.step = "fetch", !.since = keyTime]
Unauthenticated == NoRequest
KeyError == NoRequest
Look(req) == [req EXCEPT !.step = IF req.second THEN "take" ELSE "look"]

Stale(at) == fetched = Never \/ at - fetched >= KeyTtl
MayRefetch(at) == fetched # Never /\ at - fetched >= Cooldown

KeyFor(r) ==
    /\ request[r].step = "idle"
    /\ \E k \in KeyId :
        LET req == [NoRequest EXCEPT !.kid = k, !.at = keyTime]
        IN  Goes(r, IF Stale(keyTime) THEN Load(req) ELSE Look(req))
    /\ UNCHANGED <<keyTime, poolKeys, heldKeys>>

Lookup(r) ==
    /\ request[r].step = "look"
    /\ LET req == request[r]
       IN  Goes(r, CASE req.kid \in keys    -> [req EXCEPT !.step = "take"]
                     [] MayRefetch(req.at) /\ req.kid \notin keys
                                            -> Load([req EXCEPT !.second = TRUE])
                     [] OTHER               -> Unauthenticated)
    /\ UNCHANGED <<keyTime, poolKeys, heldKeys>>

(***************************************************************************)
(* JwksCache._reload: the document is what the pool publishes at some      *)
(* moment of the fetch; _keys and _fetched_at are assigned one by one.     *)
(***************************************************************************)
Serve(r) ==
    /\ request[r].step = "fetch"
    /\ Goes(r, [request[r] EXCEPT !.step = "read", !.document = published])
    /\ UNCHANGED <<keyTime, poolKeys, heldKeys>>

Store(r) ==
    /\ request[r].step = "read" /\ keys' = request[r].document
    /\ Goes(r, [request[r] EXCEPT !.step = "stamp", !.document = {}, !.since = 0])
    /\ UNCHANGED <<keyTime, poolKeys, fetched>>

Stamped(r) ==
    /\ request[r].step = "stamp" /\ fetched' = request[r].at
    /\ Goes(r, Look(request[r]))
    /\ UNCHANGED <<keyTime, poolKeys, keys>>

(* mutant: the cooldown is made to hold while the endpoint is down.        *)
AfterFailureStamped(at) == at

AfterFailure(at) == fetched

ReloadFails(r) ==
    /\ request[r].step \in {"fetch", "read"} /\ fetched' = AfterFailure(request[r].at)
    /\ Goes(r, Look([request[r] EXCEPT !.document = {}, !.since = 0, !.failed = TRUE]))
    /\ UNCHANGED <<keyTime, poolKeys, keys>>

(***************************************************************************)
(* CognitoAuthenticator.identity, once key_for has been asked.  A token    *)
(* that does not verify, or is not this client's access token, is refused, *)
(* and so is one without a role; what is checked of it touches no state.   *)
(***************************************************************************)
RoleOf(groups) == IF "reviewer" \in groups THEN "reviewer"
                  ELSE IF "submitter" \in groups THEN "submitter" ELSE "none"

Identify(req) ==
    { IF accepted /\ RoleOf(groups) # "none" THEN [req EXCEPT !.step = "done"] ELSE Unauthenticated :
        accepted \in BOOLEAN, groups \in SUBSET Roles }

(* Another thread may have replaced _keys since the membership test: the   *)
(* subscript then raises, where the get() after a second reload does not.  *)
Missing(req) == IF req.second THEN Unauthenticated ELSE KeyError

Subscript(r) ==
    /\ request[r].step = "take"
    /\ LET req == request[r]
       IN  \E answer \in IF req.kid \in keys THEN Identify(req) ELSE {Missing(req)} :
                Goes(r, answer)
    /\ UNCHANGED <<keyTime, poolKeys, heldKeys>>

Proceed(r) ==
    /\ request[r].step = "done" /\ Goes(r, NoRequest)
    /\ UNCHANGED <<keyTime, poolKeys, heldKeys>>

KeyNext ==
    \/ Rotate
    \/ PassTime
    \/ \E r \in Requests :
        \/ KeyFor(r) \/ Lookup(r) \/ Subscript(r) \/ Proceed(r)
        \/ Serve(r) \/ Store(r) \/ Stamped(r) \/ ReloadFails(r)

KeySpec == KeyInit /\ [][KeyNext]_keyVars

-----------------------------------------------------------------------------
LastPublished(k) == IF k \in published THEN keyTime ELSE withdrawn[k]

(***************************************************************************)
(* Whatever the threads' order, a caller is identified only under a key    *)
(* the pool published within a TTL and a fetch of the request - unless a   *)
(* reload of this very request failed, when JwksCache answers from what it *)
(* holds, however old.                                                     *)
(***************************************************************************)
KeyIsRecent ==
    \A r \in Requests :
        request[r].step = "done" /\ ~request[r].failed =>
            LastPublished(request[r].kid) > request[r].at - KeyTtl - KeyTimeout
=============================================================================
