------------------------------ MODULE SigningKeys ------------------------------
(***************************************************************************)
(* OIDCValidator's cache of the provider's signing keys (auth/oidc.go).    *)
(* A validation holds the mutex while it fetches; the clock and the        *)
(* provider's rotation move on meanwhile, and other validations wait.      *)
(***************************************************************************)
EXTENDS Naturals, FiniteSets

CONSTANTS
    Keys,           \* key identifiers
    Unsupported,    \* keys of a type or shape the validator does not take
    Validations,    \* token validations; each is used once
    CacheTTL, StaleIfError,
    FetchTimeout,   \* how long the HTTP client waits for one document
    MaxKeyTime      \* bound: the clock

(* What NewOIDCValidator demands of its configuration, and its client.      *)
ASSUME CacheAssumption == CacheTTL \in Nat \ {0} /\ StaleIfError \in Nat /\ FetchTimeout \in Nat

VARIABLES
    keyClock,     \* the clock
    published,    \* keys the provider's document lists
    withdrawn,    \* withdrawn[k]: set of at most one time, when k left the document
    cache,        \* keys, and the times until which they are fresh and usable
    validations,  \* progress of every validation
    holder        \* the validation that holds the mutex: a set of at most one

keyVars == <<keyClock, published, withdrawn, cache, validations, holder>>

KeysInit ==
    /\ keyClock = 0 /\ published \in {{k} : k \in Keys \ Unsupported} /\ holder = {}
    /\ withdrawn = [k \in Keys |-> {}]
    /\ cache = [keys |-> {}, expiresAt |-> 0, staleUntil |-> 0]
    /\ validations = [v \in Validations |-> [phase |-> "new", key |-> "none", at |-> 0, document |-> {}, decided |-> 0]]

(* The time read and the verdict are as far apart as two documents take:    *)
(* that of the issuer, which names the address of the keys, and the keys.   *)
Fetching(v) == validations[v].phase \in {"fetching", "fetched"}
KeyTick ==
    /\ keyClock < MaxKeyTime /\ \A v \in Validations : Fetching(v) => keyClock < validations[v].at + 2 * FetchTimeout
    /\ keyClock' = keyClock + 1
    /\ UNCHANGED <<published, withdrawn, cache, validations, holder>>

(* The provider starts and stops listing a key; a withdrawn one stays out.  *)
Publish(k) ==
    /\ k \notin published /\ withdrawn[k] = {}
    /\ published' = published \union {k} /\ UNCHANGED <<keyClock, withdrawn, cache, validations, holder>>
Withdraw(k) ==
    /\ k \in published /\ published # {k}
    /\ published' = published \ {k} /\ withdrawn' = [withdrawn EXCEPT ![k] = {keyClock}]
    /\ UNCHANGED <<keyClock, cache, validations, holder>>

---------------------------------------------------------------------------
(* What is known of a validation that has its verdict.                      *)
Verdict(v, phase) ==
    validations' = [validations EXCEPT ![v].phase = phase, ![v].at = 0, ![v].document = {},
                                      ![v].decided = IF phase = "accepted" THEN keyClock ELSE 0]

(* A token whose header and claims are in order names key k; the rest of    *)
(* ValidateToken refuses it.                                                *)
ValidateToken(v, k) ==
    /\ validations[v].phase = "new"
    /\ \/ validations' = [validations EXCEPT ![v].phase = "waiting", ![v].key = k]
       \/ Verdict(v, "refused")
    /\ UNCHANGED <<keyClock, published, withdrawn, cache, holder>>

(* The time is read under the mutex.  A key in a fresh cache is used at     *)
(* once, anything else starts a fetch.                                      *)
verificationKey(v) ==
    LET hit == validations[v].key \in cache.keys /\ keyClock < cache.expiresAt
    IN  /\ validations[v].phase = "waiting" /\ holder = {}
        /\ IF hit THEN Verdict(v, "accepted")
           ELSE validations' = [validations EXCEPT ![v].phase = "fetching", ![v].at = keyClock]
        /\ holder' = IF hit THEN {} ELSE {v}
        /\ UNCHANGED <<keyClock, published, withdrawn, cache>>

(* The provider answers with the keys it lists by then.                     *)
fetchJSON(v) ==
    /\ validations[v].phase = "fetching"
    /\ validations' = [validations EXCEPT ![v].phase = "fetched", ![v].document = published]
    /\ UNCHANGED <<keyClock, published, withdrawn, cache, holder>>

(* One key that is not taken spoils the document.  Otherwise the whole set  *)
(* is replaced, dated by the time the fetch began.                          *)
readable(v) == validations[v].document \intersect Unsupported = {}
refreshed(v) ==
    LET expiresAt == validations[v].at + CacheTTL
    IN  [keys |-> validations[v].document, expiresAt |-> expiresAt, staleUntil |-> expiresAt + StaleIfError]
refreshLocked(v) ==
    /\ validations[v].phase = "fetched" /\ readable(v)
    /\ cache' = refreshed(v)
    /\ Verdict(v, IF validations[v].key \in cache'.keys THEN "accepted" ELSE "refused")
    /\ holder' = {}
    /\ UNCHANGED <<keyClock, published, withdrawn>>

(* A fetch that fails, also over the document, leaves the cache: its keys   *)
(* are used until they are stale.                                           *)
usableWhenStale(v) == validations[v].key \in cache.keys
usable(v) == validations[v].key \in cache.keys /\ validations[v].at < cache.staleUntil
refreshFails(v) ==
    /\ Fetching(v)
    /\ Verdict(v, IF usable(v) THEN "accepted" ELSE "refused")
    /\ holder' = {}
    /\ UNCHANGED <<keyClock, published, withdrawn, cache>>

KeyStep ==
    \/ KeyTick
    \/ \E k \in Keys : Publish(k) \/ Withdraw(k)
    \/ \E v \in Validations : verificationKey(v) \/ fetchJSON(v) \/ refreshLocked(v) \/ refreshFails(v) \/ \E k \in Keys : ValidateToken(v, k)
KeySpec == KeysInit /\ [][KeyStep]_keyVars

---------------------------------------------------------------------------
(* From the moment a key leaves the provider's document to the last verdict *)
(* that accepts it no more time passes than the cache's life, the window    *)
(* for errors and two fetches take together, however fetches fail and       *)
(* overlap with the rotation (auth/oidc.go, verificationKey and             *)
(* refreshLocked: the time is read before the fetch, and used after it).    *)
KeysAgeOut ==
    \A v \in Validations : validations[v].phase = "accepted" =>
        \A left \in withdrawn[validations[v].key] :
            validations[v].decided < left + CacheTTL + StaleIfError + 2 * FetchTimeout
================================================================================
