----------------------------- MODULE ServiceProofs -----------------------------
(***************************************************************************)
(* The services: the cache of signing keys and the decisions of the API    *)
(* server's guard, for any keys, validations, principals, tenants, calls   *)
(* and commands of the operator; and the life of the processes: one that   *)
(* was signalled drains before it closes, and production settings that two *)
(* processes have accepted let them talk.                                  *)
(***************************************************************************)
EXTENDS SigningKeys, AccessControl, ServiceProcesses, TLAPS

(* No leaf depends on how busy the machine is: each prover may take longer  *)
(* than its default of a few seconds.                                       *)
USE SMTT(30), ZenonT(30)

-------------------------------------------------------------------------------
(* Signing keys.                                                            *)

Life == CacheTTL + StaleIfError
Twice == 2 * FetchTimeout
ValidationSet ==
    [phase : {"new", "waiting", "fetching", "fetched", "accepted", "refused"}, key : Keys \union {"none"}, at : Nat,
     document : SUBSET Keys, decided : Nat]

(* A validation past its first step names a key, and read its time in the   *)
(* past, not longer ago than two fetches take while it fetches; the keys it *)
(* fetched were listed then; one that was accepted was so within the life   *)
(* of its key and the time of two fetches.                                  *)
ValidationHolds(v, gone, time) ==
    /\ v.at <= time /\ v.decided <= time
    /\ v.phase \in {"waiting", "fetching", "fetched", "accepted"} => v.key \in Keys
    /\ v.phase \in {"fetching", "fetched"} => time <= v.at + Twice
    /\ v.phase = "fetched" => \A k \in v.document : \A left \in gone[k] : v.at <= left
    /\ v.phase = "accepted" => \A left \in gone[v.key] : v.decided < left + Life + Twice
(* The cache outlives the withdrawal of a key it holds by no more than the  *)
(* life, and the present likewise.                                          *)
CacheHolds(c, gone, time) ==
    /\ c.expiresAt <= c.staleUntil /\ c.staleUntil <= time + Life
    /\ \A k \in c.keys : \A left \in gone[k] : c.staleUntil <= left + Life
KeyInv ==
    /\ keyClock \in Nat /\ published \subseteq Keys /\ withdrawn \in [Keys -> SUBSET Nat]
    /\ cache \in [keys : SUBSET Keys, expiresAt : Nat, staleUntil : Nat]
    /\ validations \in [Validations -> ValidationSet]
    /\ \A k \in Keys : \A left \in withdrawn[k] : left <= keyClock
    /\ \A k \in published : withdrawn[k] = {}
    /\ CacheHolds(cache, withdrawn, keyClock)
    /\ \A v \in Validations : ValidationHolds(validations[v], withdrawn, keyClock)

(* One validation moves to x and the cache to c, the provider stands.       *)
LEMMA ValidationMoves ==
  ASSUME KeyInv, UNCHANGED <<keyClock, published, withdrawn>>,
         cache' \in [keys : SUBSET Keys, expiresAt : Nat, staleUntil : Nat], CacheHolds(cache', withdrawn, keyClock),
         NEW v \in Validations, NEW x \in ValidationSet, ValidationHolds(x, withdrawn, keyClock),
         validations' = [validations EXCEPT ![v] = x]
  PROVE  KeyInv'
<1>1. validations' \in [Validations -> ValidationSet]
  BY DEF KeyInv
<1>2. \A w \in Validations : ValidationHolds(validations'[w], withdrawn, keyClock)
  BY DEF KeyInv
<1> QED
  BY <1>1, <1>2 DEF KeyInv

(* The clock stands before a validation that has fetched for too long.      *)
LEMMA ClockKeeps ==
  ASSUME KeyInv, KeyTick
  PROVE  KeyInv'
<1>0. Life \in Nat /\ Twice \in Nat
  BY CacheAssumption DEF Life, Twice
<1>1. /\ keyClock' = keyClock + 1 /\ UNCHANGED <<published, withdrawn, cache, validations>>
      /\ \A v \in Validations : Fetching(v) => keyClock < validations[v].at + Twice
  BY DEF KeyTick, Twice
<1>2. CacheHolds(cache, withdrawn, keyClock')
  BY <1>0, <1>1 DEF KeyInv, CacheHolds
<1>3. ASSUME NEW v \in Validations PROVE ValidationHolds(validations[v], withdrawn, keyClock')
  <2>1. validations[v] \in ValidationSet /\ ValidationHolds(validations[v], withdrawn, keyClock) /\ keyClock \in Nat
    BY DEF KeyInv
  <2>2. /\ validations[v].at <= keyClock' /\ validations[v].decided <= keyClock'
        /\ validations[v].phase \in {"fetching", "fetched"} => keyClock' <= validations[v].at + Twice
    BY <1>0, <1>1, <2>1 DEF ValidationHolds, ValidationSet, Fetching
  <2> QED
    BY Zenon, <2>1, <2>2 DEF ValidationHolds
<1>4. \A k \in Keys : \A left \in withdrawn[k] : left <= keyClock'
  BY <1>1 DEF KeyInv
<1>5. keyClock' \in Nat
  BY <1>1 DEF KeyInv
<1> QED
  BY Zenon, <1>1, <1>2, <1>3, <1>4, <1>5 DEF KeyInv

(* A key is withdrawn now; what is known of it is not older than now.       *)
LEMMA WithdrawKeeps ==
  ASSUME KeyInv, NEW k \in Keys, Withdraw(k)
  PROVE  KeyInv'
<1>0. Life \in Nat /\ Life > 0 /\ Twice \in Nat
  BY CacheAssumption DEF Life, Twice
<1>1. /\ published' = published \ {k} /\ withdrawn' = [withdrawn EXCEPT ![k] = {keyClock}]
      /\ UNCHANGED <<keyClock, cache, validations>> /\ withdrawn[k] = {}
  BY DEF Withdraw, KeyInv
<1>2. /\ withdrawn' \in [Keys -> SUBSET Nat] /\ withdrawn'[k] = {keyClock}
      /\ \A l \in Keys : l # k => withdrawn'[l] = withdrawn[l]
  BY <1>1 DEF KeyInv
<1>3. \A l \in Keys : \A left \in withdrawn'[l] : left <= keyClock
  BY <1>2 DEF KeyInv
<1>4. CacheHolds(cache, withdrawn', keyClock)
  BY <1>0, <1>2 DEF KeyInv, CacheHolds
<1>5. ASSUME NEW v \in Validations PROVE ValidationHolds(validations[v], withdrawn', keyClock)
  <2> DEFINE o == validations[v]
  <2>1. o \in ValidationSet /\ ValidationHolds(o, withdrawn, keyClock) /\ keyClock \in Nat
    BY DEF KeyInv
  <2>2. /\ o.at \in Nat /\ o.decided \in Nat /\ o.document \subseteq Keys
    BY <2>1 DEF ValidationSet
  <2> HIDE DEF o
  <2>3. ASSUME o.phase = "fetched", NEW l \in o.document, NEW left \in withdrawn'[l] PROVE o.at <= left
    BY <1>2, <2>1, <2>2, <2>3 DEF ValidationHolds
  <2>4. ASSUME o.phase = "accepted", NEW left \in withdrawn'[o.key] PROVE o.decided < left + Life + Twice
    <3>1. o.key \in Keys /\ o.decided <= keyClock
      BY Zenon, <2>1, <2>4 DEF ValidationHolds
    <3>2. CASE o.key = k
      BY <1>0, <1>2, <2>1, <2>2, <2>4, <3>1, <3>2
    <3>3. CASE o.key # k
      BY Zenon, <1>2, <2>1, <2>4, <3>1, <3>3 DEF ValidationHolds
    <3> QED
      BY <3>2, <3>3
  <2>5. ValidationHolds(o, withdrawn', keyClock)
    BY Zenon, <2>1, <2>3, <2>4 DEF ValidationHolds
  <2> QED
    BY Zenon, <2>5 DEF o
<1> QED
  BY Zenon, <1>1, <1>2, <1>3, <1>4, <1>5 DEF KeyInv

(* A verdict that accepts is given within the life of its key and the time  *)
(* of two fetches.                                                          *)
LEMMA VerdictKeeps ==
  ASSUME KeyInv, UNCHANGED <<keyClock, published, withdrawn>>,
         cache' \in [keys : SUBSET Keys, expiresAt : Nat, staleUntil : Nat], CacheHolds(cache', withdrawn, keyClock),
         NEW v \in Validations, NEW ph \in {"accepted", "refused"}, Verdict(v, ph),
         ph = "accepted" => /\ validations[v].key \in Keys
                            /\ \A left \in withdrawn[validations[v].key] : keyClock < left + Life + Twice
  PROVE  KeyInv'
<1> DEFINE o == validations[v]
           d == IF ph = "accepted" THEN keyClock ELSE 0
           x == [o EXCEPT !.phase = ph, !.at = 0, !.document = {}, !.decided = d]
<1>1. o \in ValidationSet /\ keyClock \in Nat
  BY DEF KeyInv
<1>2. d \in Nat /\ 0 \in Nat /\ {} \in SUBSET Keys /\ d <= keyClock /\ 0 <= keyClock
  BY <1>1
<1>3. validations' = [validations EXCEPT ![v] = x]
  BY Zenon DEF Verdict, KeyInv
<1>4. ph = "accepted" => d = keyClock
  OBVIOUS
<1> HIDE DEF d
<1>5. x \in ValidationSet /\ x.phase = ph /\ x.key = o.key /\ x.at = 0 /\ x.document = {} /\ x.decided = d
  BY Zenon, <1>1, <1>2 DEF ValidationSet
<1> HIDE DEF x
<1>6. ValidationHolds(x, withdrawn, keyClock)
  BY Zenon, <1>2, <1>4, <1>5 DEF ValidationHolds
<1> QED
  BY Zenon, <1>3, <1>5, <1>6, ValidationMoves

(* A token arrives, or is refused at once.                                  *)
LEMMA TokenKeeps ==
  ASSUME KeyInv, NEW v \in Validations, NEW k \in Keys, ValidateToken(v, k)
  PROVE  KeyInv'
<1>1. /\ UNCHANGED <<keyClock, published, withdrawn, cache>> /\ CacheHolds(cache, withdrawn, keyClock)
      /\ cache \in [keys : SUBSET Keys, expiresAt : Nat, staleUntil : Nat]
  BY Zenon DEF ValidateToken, KeyInv
<1>2. CASE Verdict(v, "refused")
  BY Zenon, <1>1, <1>2, VerdictKeeps
<1>3. CASE validations' = [validations EXCEPT ![v].phase = "waiting", ![v].key = k]
  <2> DEFINE o == validations[v]
             x == [o EXCEPT !.phase = "waiting", !.key = k]
  <2>1. o \in ValidationSet /\ ValidationHolds(o, withdrawn, keyClock)
    BY DEF KeyInv
  <2>2. x \in ValidationSet /\ x.phase = "waiting" /\ x.key = k /\ x.at = o.at /\ x.decided = o.decided
    BY Zenon, <2>1 DEF ValidationSet
  <2>3. validations' = [validations EXCEPT ![v] = x]
    BY Zenon, <1>3 DEF KeyInv
  <2> HIDE DEF x
  <2>4. ValidationHolds(x, withdrawn, keyClock)
    BY Zenon, <2>1, <2>2 DEF ValidationHolds
  <2> QED
    BY Zenon, <1>1, <2>2, <2>3, <2>4, ValidationMoves
<1> QED
  BY Zenon, <1>2, <1>3 DEF ValidateToken

(* A fresh cache is used at once; otherwise a fetch begins now.             *)
LEMMA LookupKeeps ==
  ASSUME KeyInv, NEW v \in Validations, verificationKey(v)
  PROVE  KeyInv'
<1> DEFINE o == validations[v]
           hit == o.key \in cache.keys /\ keyClock < cache.expiresAt
<1>0. Life \in Nat /\ Twice \in Nat
  BY CacheAssumption DEF Life, Twice
<1>1. /\ UNCHANGED <<keyClock, published, withdrawn, cache>> /\ CacheHolds(cache, withdrawn, keyClock)
      /\ cache \in [keys : SUBSET Keys, expiresAt : Nat, staleUntil : Nat] /\ o.phase = "waiting"
      /\ o \in ValidationSet /\ ValidationHolds(o, withdrawn, keyClock) /\ keyClock \in Nat
      /\ withdrawn \in [Keys -> SUBSET Nat]
  BY Zenon DEF verificationKey, KeyInv
<1>2. o.key \in Keys
  BY Zenon, <1>1 DEF ValidationHolds
<1>3. CASE hit
  <2>1. \A left \in withdrawn[o.key] : keyClock < left + Life + Twice
    BY <1>0, <1>1, <1>2, <1>3 DEF CacheHolds
  <2>2. Verdict(v, "accepted")
    BY Zenon, <1>3 DEF verificationKey
  <2> QED
    BY Zenon, <1>1, <1>2, <2>1, <2>2, VerdictKeeps
<1>4. CASE ~hit
  <2> DEFINE x == [o EXCEPT !.phase = "fetching", !.at = keyClock]
  <2>1. x \in ValidationSet /\ x.phase = "fetching" /\ x.key = o.key /\ x.at = keyClock /\ x.decided = o.decided
    BY Zenon, <1>1 DEF ValidationSet
  <2>2. validations' = [validations EXCEPT ![v] = x]
    BY Zenon, <1>4 DEF verificationKey, KeyInv
  <2> HIDE DEF x
  <2>3. keyClock <= keyClock /\ keyClock <= keyClock + Twice
    BY <1>0, <1>1
  <2>4. ValidationHolds(x, withdrawn, keyClock)
    BY Zenon, <1>1, <1>2, <2>1, <2>3 DEF ValidationHolds
  <2> QED
    BY Zenon, <1>1, <2>1, <2>2, <2>4, ValidationMoves
<1> QED
  BY <1>3, <1>4

(* The keys a provider answers with were not withdrawn before.              *)
LEMMA FetchKeeps ==
  ASSUME KeyInv, NEW v \in Validations, fetchJSON(v)
  PROVE  KeyInv'
<1> DEFINE o == validations[v]
           x == [o EXCEPT !.phase = "fetched", !.document = published]
<1>1. /\ UNCHANGED <<keyClock, published, withdrawn, cache>> /\ CacheHolds(cache, withdrawn, keyClock)
      /\ cache \in [keys : SUBSET Keys, expiresAt : Nat, staleUntil : Nat] /\ o.phase = "fetching"
      /\ o \in ValidationSet /\ ValidationHolds(o, withdrawn, keyClock)
      /\ published \subseteq Keys /\ \A k \in published : withdrawn[k] = {}
  BY Zenon DEF fetchJSON, KeyInv
<1>2. /\ x \in ValidationSet /\ x.phase = "fetched" /\ x.key = o.key /\ x.at = o.at /\ x.decided = o.decided
      /\ x.document = published
  BY Zenon, <1>1 DEF ValidationSet
<1>3. validations' = [validations EXCEPT ![v] = x]
  BY Zenon DEF fetchJSON, KeyInv
<1> HIDE DEF x
<1>4. ValidationHolds(x, withdrawn, keyClock)
  BY Zenon, <1>1, <1>2 DEF ValidationHolds
<1> QED
  BY Zenon, <1>1, <1>2, <1>3, <1>4, ValidationMoves

(* A new cache is dated by the time before the fetch, when none of its keys *)
(* had been withdrawn.                                                      *)
LEMMA RefreshKeeps ==
  ASSUME KeyInv, NEW v \in Validations, refreshLocked(v)
  PROVE  KeyInv'
<1> DEFINE o == validations[v]
<1>0. Life \in Nat /\ Life > 0 /\ Twice \in Nat
  BY CacheAssumption DEF Life, Twice
<1>1. /\ UNCHANGED <<keyClock, published, withdrawn>> /\ o.phase = "fetched" /\ cache' = refreshed(v)
      /\ o \in ValidationSet /\ ValidationHolds(o, withdrawn, keyClock) /\ keyClock \in Nat
      /\ Verdict(v, IF o.key \in cache'.keys THEN "accepted" ELSE "refused") /\ withdrawn \in [Keys -> SUBSET Nat]
  BY Zenon DEF refreshLocked, KeyInv
<1>2. /\ o.at \in Nat /\ o.document \subseteq Keys /\ o.key \in Keys /\ o.at <= keyClock /\ keyClock <= o.at + Twice
      /\ \A k \in o.document : \A left \in withdrawn[k] : o.at <= left
  BY Zenon, <1>1 DEF ValidationHolds, ValidationSet
<1>3. cache' = [keys |-> o.document, expiresAt |-> o.at + CacheTTL, staleUntil |-> o.at + CacheTTL + StaleIfError]
  BY Zenon, <1>1 DEF refreshed
<1> HIDE DEF o
<1>4. /\ cache' \in [keys : SUBSET Keys, expiresAt : Nat, staleUntil : Nat] /\ cache'.keys = o.document
      /\ cache'.expiresAt <= cache'.staleUntil /\ cache'.staleUntil = o.at + Life
  BY <1>2, <1>3, CacheAssumption DEF Life
<1>5. CacheHolds(cache', withdrawn, keyClock)
  BY <1>0, <1>1, <1>2, <1>4 DEF CacheHolds
<1>6. o.key \in cache'.keys => \A left \in withdrawn[o.key] : keyClock < left + Life + Twice
  BY <1>0, <1>1, <1>2, <1>4
<1> QED
  BY Zenon, <1>1, <1>2, <1>4, <1>5, <1>6, VerdictKeeps DEF o

(* Keys that are not stale are used when the fetch fails.                   *)
LEMMA FailureKeeps ==
  ASSUME KeyInv, NEW v \in Validations, refreshFails(v)
  PROVE  KeyInv'
<1> DEFINE o == validations[v]
<1>0. Life \in Nat /\ Twice \in Nat
  BY CacheAssumption DEF Life, Twice
<1>1. /\ UNCHANGED <<keyClock, published, withdrawn, cache>> /\ CacheHolds(cache, withdrawn, keyClock)
      /\ cache \in [keys : SUBSET Keys, expiresAt : Nat, staleUntil : Nat] /\ o.phase \in {"fetching", "fetched"}
      /\ o \in ValidationSet /\ ValidationHolds(o, withdrawn, keyClock) /\ keyClock \in Nat
      /\ withdrawn \in [Keys -> SUBSET Nat] /\ Verdict(v, IF usable(v) THEN "accepted" ELSE "refused")
  BY Zenon DEF refreshFails, Fetching, KeyInv
<1>2. o.at \in Nat /\ o.key \in Keys /\ keyClock <= o.at + Twice
  BY Zenon, <1>1 DEF ValidationHolds, ValidationSet
<1>3. usable(v) => o.key \in cache.keys /\ o.at < cache.staleUntil
  BY Zenon DEF usable
<1> HIDE DEF o
<1>4. usable(v) => \A left \in withdrawn[o.key] : keyClock < left + Life + Twice
  BY <1>0, <1>1, <1>2, <1>3 DEF CacheHolds
<1> QED
  BY Zenon, <1>1, <1>2, <1>4, VerdictKeeps DEF o

(* Every step keeps the invariant.                                          *)
LEMMA KeyStepKeeps == KeyInv /\ [KeyStep]_keyVars => KeyInv'
<1> SUFFICES ASSUME KeyInv, [KeyStep]_keyVars PROVE KeyInv'
  OBVIOUS
<1>1. ASSUME NEW k \in Keys, Publish(k) PROVE KeyInv'
  BY <1>1 DEF Publish, KeyInv
<1>2. CASE UNCHANGED keyVars
  BY <1>2 DEF keyVars, KeyInv
<1> QED
  BY <1>1, <1>2, ClockKeeps, WithdrawKeeps, TokenKeeps, LookupKeeps, FetchKeeps, RefreshKeeps, FailureKeeps DEF KeyStep

(* From the moment a key leaves the provider's document to the last verdict *)
(* that accepts it no more time passes than the life of the cache, the      *)
(* window for errors and two fetches take together, however fetches fail    *)
(* and overlap with rotations (verificationKey, refreshLocked).             *)
THEOREM WithdrawnKeysAgeOut == KeySpec => []KeysAgeOut
<1>1. KeysInit => KeyInv
  <2> SUFFICES ASSUME KeysInit PROVE KeyInv
    OBVIOUS
  <2>1. /\ cache = [keys |-> {}, expiresAt |-> 0, staleUntil |-> 0] /\ keyClock = 0 /\ published \subseteq Keys
        /\ withdrawn = [k \in Keys |-> {}]
    BY DEF KeysInit
  <2>2. CacheHolds(cache, withdrawn, keyClock)
    BY <2>1, CacheAssumption DEF CacheHolds, Life
  <2>3. validations \in [Validations -> ValidationSet] /\ \A v \in Validations : ValidationHolds(validations[v], withdrawn, keyClock)
    BY <2>1 DEF KeysInit, ValidationSet, ValidationHolds
  <2> QED
    BY Zenon, <2>1, <2>2, <2>3 DEF KeyInv
<1>2. KeyInv => KeysAgeOut
  <2> SUFFICES ASSUME KeyInv, NEW v \in Validations, validations[v].phase = "accepted",
                      NEW left \in withdrawn[validations[v].key]
               PROVE  validations[v].decided < left + CacheTTL + StaleIfError + 2 * FetchTimeout
    BY DEF KeysAgeOut
  <2>1. validations[v].decided < left + Life + Twice /\ validations[v].key \in Keys
    BY DEF KeyInv, ValidationHolds
  <2>2. left \in Nat /\ validations[v].decided \in Nat
    BY <2>1 DEF KeyInv, ValidationSet
  <2> QED
    BY <2>1, <2>2, CacheAssumption DEF Life, Twice
<1> QED
  BY <1>1, <1>2, KeyStepKeeps, PTL DEF KeySpec

-------------------------------------------------------------------------------
(* Decisions.                                                               *)

TenantRows == [status : {"none", "ACTIVE", "SUSPENDED"}, namespace : Namespaces \union {"none"}, revision : Nat]
MemberRows == [role : validTenantRole \union {"none"}, status : {"none", "ACTIVE", "DISABLED"}]
Audits == [changes : [Tenants -> Nat], platform : Nat, signIns : [Principals -> Nat]]
(* Every change of a tenant is counted, and only a tenant has members.      *)
StoreHolds(ts, ms, log) ==
    /\ ts \in [Tenants -> TenantRows] /\ ms \in [Tenants -> [Principals -> MemberRows]] /\ log \in Audits
    /\ \A t \in Tenants : IF ts[t] = NoTenant THEN log.changes[t] = 0 ELSE ts[t].revision = 1 + log.changes[t]
    /\ \A t \in Tenants : \A p \in Principals :
          ms[t][p] # NoMembership => ts[t] # NoTenant /\ ms[t][p].role \in validTenantRole

(* What a call read of its caller p in tenant t is true as long as the      *)
(* revision it read is the tenant's, but for platform administrators.       *)
ViewTrue(m, t, p, ts, ms) ==
    m.found /\ m.role # "platform_admin" =>
        /\ m.role \in validTenantRole /\ 1 <= m.revision /\ m.revision <= ts[t].revision
        /\ m.revision = ts[t].revision =>
              ms[t][p].role = m.role /\ (m.active => ms[t][p].status = "ACTIVE")
MemberView == [found : BOOLEAN, active : BOOLEAN, role : validTenantRole \union {"none", "platform_admin"},
               namespace : Namespaces \union {"none"}, revision : Nat]
Views == [active : BOOLEAN, admin : BOOLEAN, member : [Tenants -> MemberView]]
Undecided == {"new", "authenticate", "memberships", "platform", "authorize"}
CallSet ==
    [phase : Undecided \union {"handle", "execute", "served", "refused"}, method : (DOMAIN Registry) \union {"none"},
     caller : Principals \union {"none"}, scope : Tenants \union Namespaces \union {"none"},
     declared : {{}} \union {{t} : t \in Tenants}, target : Principals \union {"none"},
     role : validTenantRole \union {"none"}, expected : Nat, view : Views, tenant : Tenants \union {"none"}]
(* The tenant is settled by the interceptor, and is the one the handler     *)
(* looks up when that one is found.                                         *)
CallHolds(call, ts, ms) ==
    /\ call.phase # "new" => /\ call.caller \in Principals /\ call.method \in DOMAIN Registry
                             /\ call.method \in WithTarget => call.target \in Principals
    /\ call.phase \in Undecided => call.tenant = "none"
    /\ \A t \in Tenants : call.view.member[t].found => call.phase # "new" /\ ViewTrue(call.view.member[t], t, call.caller, ts, ms)
    /\ call.phase \in {"handle", "execute"} /\ call.method \in AuthorizedTwice =>
          /\ call.tenant \in Tenants
          /\ call.scope \in Tenants => call.tenant = call.scope \/ ~call.view.member[call.scope].found
    /\ call.phase = "execute" /\ call.method \in AuthorizedTwice => call.scope \in Tenants
AccessInv ==
    /\ StoreHolds(tenants, memberships, audit)
    /\ calls \in [Calls -> CallSet] /\ \A c \in Calls : CallHolds(calls[c], tenants, memberships)

StoreInv == StoreHolds(tenants, memberships, audit)
(* A step of the store falsifies no reading.                                *)
ViewsStay ==
    \A m : \A t \in Tenants : \A p \in Principals :
        m.revision \in Nat /\ ViewTrue(m, t, p, tenants, memberships) => ViewTrue(m, t, p, tenants', memberships')

(* What is read of a missing membership.                                    *)
LEMMA NoRowIsAView == NotFound \in MemberView /\ ~NotFound.found
BY DEF MemberView, NotFound

(* What is read of a platform administrator.                                *)
LEMMA PlatformIsAView ==
  ASSUME StoreInv, NEW t \in Tenants
  PROVE  LET m == Membership(t, "platform_admin", TRUE) IN m \in MemberView /\ m.role = "platform_admin"
<1>1. tenants[t].namespace \in Namespaces \union {"none"} /\ tenants[t].revision \in Nat
  BY Zenon DEF StoreInv, StoreHolds, TenantRows
<1> QED
  BY <1>1 DEF MemberView, Membership

(* A tenant that exists has a revision.                                     *)
LEMMA TenantsHaveRevisions ==
  ASSUME NEW ts, NEW ms, NEW log, StoreHolds(ts, ms, log), NEW t \in Tenants, ts[t] # NoTenant
  PROVE  ts[t].revision >= 1
<1>1. log.changes[t] \in Nat
  BY Zenon DEF StoreHolds, Audits
<1>2. ts[t].revision = 1 + log.changes[t]
  BY Zenon DEF StoreHolds
<1> QED
  BY <1>1, <1>2

(* What is read of a membership is the store's.                             *)
LEMMA MemberIsAView ==
  ASSUME StoreInv, NEW t \in Tenants, NEW p \in Principals, memberships[t][p] # NoMembership
  PROVE  /\ membershipRows(p)[t] \in MemberView
         /\ ViewTrue(membershipRows(p)[t], t, p, tenants, memberships)
<1> DEFINE both == tenants[t].status = "ACTIVE" /\ memberships[t][p].status = "ACTIVE"
           m == membershipRows(p)[t]
           role == memberships[t][p].role
           v == tenants[t].revision
<1>1. m = [found |-> TRUE, active |-> both, role |-> role, namespace |-> tenants[t].namespace, revision |-> v]
  BY Zenon DEF membershipRows, Membership
<1>2. both \in BOOLEAN /\ (both => memberships[t][p].status = "ACTIVE")
  OBVIOUS
<1>3. tenants[t].namespace \in Namespaces \union {"none"} /\ v \in Nat
  BY Zenon DEF StoreInv, StoreHolds, TenantRows
<1>4. tenants[t] # NoTenant /\ role \in validTenantRole
  BY Zenon DEF StoreInv, StoreHolds
<1>5. v >= 1
  BY Zenon, <1>4, TenantsHaveRevisions DEF StoreInv
<1> HIDE DEF m, both, role, v
<1>6. m \in MemberView
  BY <1>1, <1>2, <1>3, <1>4 DEF MemberView
<1>7. m.active = both /\ m.role = role /\ m.revision = v /\ 1 <= v /\ v <= v
  BY <1>1, <1>3, <1>5
<1>8. ViewTrue(m, t, p, tenants, memberships)
  BY Zenon, <1>2, <1>4, <1>7 DEF ViewTrue, role, v
<1> QED
  BY Zenon, <1>6, <1>8 DEF m

(* A step that leaves the policy alone.                                     *)
LEMMA PolicyStands ==
  ASSUME StoreInv, UNCHANGED <<tenants, memberships>>, audit' \in Audits, audit'.changes = audit.changes
  PROVE  StoreInv' /\ ViewsStay
BY DEF StoreInv, StoreHolds, ViewsStay

(* Changed counts make another log.                                         *)
LEMMA AuditRecords ==
  ASSUME NEW log \in Audits, NEW counts \in [Tenants -> Nat]
  PROVE  [log EXCEPT !.changes = counts] \in Audits
BY DEF Audits

(* A change of a membership moves the revision and is counted.              *)
LEMMA MembershipChanges ==
  ASSUME StoreInv, NEW t \in Tenants, NEW p \in Principals, NEW row \in MemberRows, row.role \in validTenantRole,
         tenants[t] # NoTenant, memberships' = [memberships EXCEPT ![t][p] = row], tenants' = bumped(t), audit' = changed(t)
  PROVE  StoreInv' /\ ViewsStay
<1> DEFINE o == tenants[t]
           n == [o EXCEPT !.revision = @ + 1]
<1>1. /\ tenants \in [Tenants -> TenantRows] /\ memberships \in [Tenants -> [Principals -> MemberRows]] /\ audit \in Audits
      /\ o \in TenantRows /\ o.revision \in Nat /\ audit.changes \in [Tenants -> Nat]
      /\ o.revision = 1 + audit.changes[t]
  BY DEF StoreInv, StoreHolds, TenantRows, Audits
<1>2. n \in TenantRows /\ n.revision = o.revision + 1
  <2> DEFINE r == o.revision + 1
  <2>1. r \in Nat /\ n = [o EXCEPT !.revision = r]
    BY <1>1
  <2> HIDE DEF r, n
  <2>2. n \in TenantRows /\ n.revision = r
    BY Zenon, <1>1, <2>1 DEF TenantRows
  <2> QED
    BY <2>2 DEF r
<1>3. n # NoTenant
  BY <1>1, <1>2 DEF NoTenant
<1>4. tenants' = [tenants EXCEPT ![t] = n]
  BY <1>1 DEF bumped
<1> HIDE DEF n
<1>5. /\ tenants' \in [Tenants -> TenantRows] /\ tenants'[t] = n
      /\ \A s \in Tenants : s # t => tenants'[s] = tenants[s]
  BY <1>1, <1>2, <1>4
<1>6. /\ audit' \in Audits /\ audit'.changes[t] = audit.changes[t] + 1
      /\ \A s \in Tenants : s # t => audit'.changes[s] = audit.changes[s]
  <2>1. audit' = [audit EXCEPT !.changes = [audit.changes EXCEPT ![t] = @ + 1]]
    BY <1>1 DEF changed, Audits
  <2>2. [audit.changes EXCEPT ![t] = @ + 1] \in [Tenants -> Nat]
    BY <1>1
  <2>3. audit'.changes = [audit.changes EXCEPT ![t] = @ + 1]
    BY <1>1, <2>1 DEF Audits
  <2>4. audit' \in Audits
    BY Zenon, <1>1, <2>1, <2>2, AuditRecords
  <2>5. audit.changes \in [Tenants -> Nat]
    BY <1>1 DEF Audits
  <2> QED
    BY <2>3, <2>4, <2>5
<1>7. /\ memberships' \in [Tenants -> [Principals -> MemberRows]] /\ memberships'[t][p] = row
      /\ \A s \in Tenants : \A q \in Principals : s # t \/ q # p => memberships'[s][q] = memberships[s][q]
  BY <1>1
<1>8. StoreInv'
  <2>1. \A s \in Tenants : IF tenants'[s] = NoTenant THEN audit'.changes[s] = 0 ELSE tenants'[s].revision = 1 + audit'.changes[s]
    BY <1>1, <1>2, <1>3, <1>5, <1>6 DEF StoreInv, StoreHolds
  <2>2. \A s \in Tenants : \A q \in Principals :
           memberships'[s][q] # NoMembership => tenants'[s] # NoTenant /\ memberships'[s][q].role \in validTenantRole
    BY <1>3, <1>5, <1>7 DEF StoreInv, StoreHolds
  <2> QED
    BY <1>5, <1>6, <1>7, <2>1, <2>2 DEF StoreInv, StoreHolds
<1>9. ViewsStay
  <2> SUFFICES ASSUME NEW m, NEW s \in Tenants, NEW q \in Principals, m.revision \in Nat,
                      ViewTrue(m, s, q, tenants, memberships)
               PROVE  ViewTrue(m, s, q, tenants', memberships')
    BY Zenon DEF ViewsStay
  <2>1. CASE s # t
    BY Zenon, <1>5, <1>7, <2>1 DEF ViewTrue
  <2>2. CASE s = t
    BY <1>1, <1>2, <1>5, <2>2 DEF ViewTrue
  <2> QED
    BY <2>1, <2>2
<1> QED
  BY <1>8, <1>9

(* A bootstrap adds what is missing and changes nothing that was read.      *)
LEMMA BootstrapKeeps ==
  ASSUME StoreInv, NEW t \in Tenants, NEW namespace \in Namespaces, NEW p \in Principals, BootstrapTenant(t, namespace, p)
  PROVE  StoreInv' /\ ViewsStay
<1> DEFINE n == IF tenants[t] = NoTenant THEN [status |-> "ACTIVE", namespace |-> namespace, revision |-> 1] ELSE tenants[t]
           row == IF memberships[t][p] = NoMembership THEN [role |-> "tenant_admin", status |-> "ACTIVE"] ELSE memberships[t][p]
<1>1. /\ tenants \in [Tenants -> TenantRows] /\ memberships \in [Tenants -> [Principals -> MemberRows]] /\ audit \in Audits
      /\ tenants[t] \in TenantRows /\ memberships[t][p] \in MemberRows
  BY DEF StoreInv, StoreHolds
<1>2. n \in TenantRows /\ n # NoTenant /\ (tenants[t] = NoTenant => n.revision = 1) /\ (tenants[t] # NoTenant => n = tenants[t])
  BY <1>1 DEF TenantRows, NoTenant
<1>3. row \in MemberRows /\ row.role \in validTenantRole /\ (memberships[t][p] # NoMembership => row = memberships[t][p])
  BY <1>1 DEF MemberRows, validTenantRole, StoreInv, StoreHolds
<1>4. tenants' = [tenants EXCEPT ![t] = n] /\ memberships' = [memberships EXCEPT ![t][p] = row] /\ UNCHANGED audit
  BY DEF BootstrapTenant
<1> HIDE DEF n, row
<1>5. /\ tenants' \in [Tenants -> TenantRows] /\ tenants'[t] = n
      /\ \A s \in Tenants : s # t => tenants'[s] = tenants[s]
      /\ memberships' \in [Tenants -> [Principals -> MemberRows]] /\ memberships'[t][p] = row
      /\ \A s \in Tenants : \A q \in Principals : s # t \/ q # p => memberships'[s][q] = memberships[s][q]
  BY <1>1, <1>2, <1>3, <1>4
<1>6. StoreInv'
  <2>1. \A s \in Tenants : IF tenants'[s] = NoTenant THEN audit'.changes[s] = 0 ELSE tenants'[s].revision = 1 + audit'.changes[s]
    BY <1>2, <1>4, <1>5 DEF StoreInv, StoreHolds
  <2>2. \A s \in Tenants : \A q \in Principals :
           memberships'[s][q] # NoMembership => tenants'[s] # NoTenant /\ memberships'[s][q].role \in validTenantRole
    <3>1. ASSUME NEW s \in Tenants, tenants[s] # NoTenant PROVE tenants'[s] # NoTenant
      BY Zenon, <1>2, <1>5, <3>1
    <3>2. ASSUME NEW s \in Tenants, NEW q \in Principals, s # t \/ q # p, memberships'[s][q] # NoMembership
          PROVE  tenants'[s] # NoTenant /\ memberships'[s][q].role \in validTenantRole
      BY Zenon, <1>5, <3>1, <3>2 DEF StoreInv, StoreHolds
    <3>3. tenants'[t] # NoTenant /\ memberships'[t][p].role \in validTenantRole
      BY Zenon, <1>2, <1>3, <1>5
    <3> QED
      BY Zenon, <3>2, <3>3
  <2> QED
    BY Zenon, <1>1, <1>4, <1>5, <2>1, <2>2 DEF StoreInv, StoreHolds
<1>7. ViewsStay
  <2> SUFFICES ASSUME NEW m, NEW s \in Tenants, NEW q \in Principals, m.revision \in Nat, m.found, m.role # "platform_admin",
                      ViewTrue(m, s, q, tenants, memberships)
               PROVE  ViewTrue(m, s, q, tenants', memberships')
    BY DEF ViewsStay, ViewTrue
  <2>1. 1 <= m.revision /\ m.revision <= tenants[s].revision /\ m.role \in validTenantRole
    BY DEF ViewTrue
  <2>2. tenants[s] # NoTenant
    BY <2>1 DEF NoTenant
  <2>3. tenants'[s] = tenants[s]
    BY <1>2, <1>5, <2>2
  <2>4. m.revision = tenants[s].revision => memberships[s][q] # NoMembership
    <3>1. NoMembership.role \notin validTenantRole
      BY DEF NoMembership, validTenantRole
    <3> QED
      BY Zenon, <2>1, <3>1 DEF ViewTrue
  <2>5. m.revision = tenants[s].revision => memberships'[s][q] = memberships[s][q]
    BY Zenon, <1>3, <1>5, <2>4
  <2> QED
    BY <2>3, <2>5 DEF ViewTrue
<1> QED
  BY <1>6, <1>7

(* The status of a tenant is no part of a reading.                          *)
LEMMA StatusKeeps ==
  ASSUME StoreInv, NEW t \in Tenants, NEW status \in {"ACTIVE", "SUSPENDED"}, SetTenantStatus(t, status)
  PROVE  StoreInv' /\ ViewsStay
<1> DEFINE n == [tenants[t] EXCEPT !.status = status]
<1>1. tenants \in [Tenants -> TenantRows] /\ tenants[t] \in TenantRows /\ tenants[t] # NoTenant
  BY DEF StoreInv, StoreHolds, SetTenantStatus
<1>2. n \in TenantRows /\ n.revision = tenants[t].revision /\ n.status = status
  BY <1>1 DEF TenantRows
<1>3. n # NoTenant
  BY <1>2 DEF NoTenant
<1>4. tenants' = [tenants EXCEPT ![t] = n] /\ UNCHANGED <<memberships, audit>>
  BY DEF SetTenantStatus
<1> HIDE DEF n
<1>5. tenants' \in [Tenants -> TenantRows] /\ tenants'[t] = n /\ \A s \in Tenants : s # t => tenants'[s] = tenants[s]
  BY <1>1, <1>2, <1>4
<1>6. StoreInv'
  BY Zenon, <1>1, <1>2, <1>3, <1>4, <1>5 DEF StoreInv, StoreHolds
<1>7. ViewsStay
  BY <1>2, <1>4, <1>5 DEF ViewsStay, ViewTrue
<1> QED
  BY <1>6, <1>7

(* The registry lists the two changes of a tenant's roles with its scope.   *)
LEMMA RoleMethods == \A m \in {"GrantTenantRole", "RevokeTenantRole"} : m \in AuthorizedTwice
<1> SUFFICES ASSUME NEW m \in {"GrantTenantRole", "RevokeTenantRole"} PROVE m \in AuthorizedTwice
  OBVIOUS
<1> DEFINE manage == Policy("members.manage", "tenant", {"GrantTenantRole", "RevokeTenantRole"})
<1>1. manage \in Policies
  BY DEF Policies
<1>2. m \in manage.methods /\ manage.scope = "tenant"
  BY DEF Policy
<1>3. \A x \in Policies : m \in x.methods => x.scope = "tenant"
  BY DEF Policies, Policy
<1> HIDE DEF manage
<1>4. m \in UNION {x.methods : x \in Policies}
  BY <1>1, <1>2
<1>5. m \in DOMAIN Registry /\ Registry[m] = CHOOSE x \in Policies : m \in x.methods
  BY <1>4 DEF Registry
<1>6. Registry[m] \in Policies /\ m \in Registry[m].methods
  BY <1>1, <1>2, <1>5
<1> QED
  BY <1>3, <1>5, <1>6 DEF AuthorizedTwice

(* A call no step touches keeps what it knows.                              *)
LEMMA CallStands ==
  ASSUME NEW call \in CallSet, CallHolds(call, tenants, memberships), ViewsStay
  PROVE  CallHolds(call, tenants', memberships')
<1>1. ASSUME NEW t \in Tenants, call.view.member[t].found
      PROVE  call.phase # "new" /\ ViewTrue(call.view.member[t], t, call.caller, tenants', memberships')
  <2>1. call.phase # "new" /\ ViewTrue(call.view.member[t], t, call.caller, tenants, memberships) /\ call.caller \in Principals
    BY <1>1 DEF CallHolds
  <2>2. call.view.member[t].revision \in Nat
    BY DEF CallSet, Views, MemberView
  <2> QED
    BY <2>1, <2>2 DEF ViewsStay
<1> QED
  BY Zenon, <1>1 DEF CallHolds

(* Nor do all the calls lose it when the store changes.                     *)
LEMMA CallsStand ==
  ASSUME AccessInv, StoreInv', ViewsStay, UNCHANGED calls
  PROVE  AccessInv'
BY CallStands DEF AccessInv, StoreInv

(* It is enough to look at the call a step moves.                           *)
LEMMA CallMoves ==
  ASSUME AccessInv, StoreInv', ViewsStay, NEW c \in Calls, NEW new \in CallSet, CallHolds(new, tenants', memberships'),
         calls' = [calls EXCEPT ![c] = new]
  PROVE  AccessInv'
<1>1. calls' \in [Calls -> CallSet] /\ calls'[c] = new /\ \A d \in Calls : d # c => calls'[d] = calls[d]
  BY DEF AccessInv
<1>2. \A d \in Calls : d # c => CallHolds(calls'[d], tenants', memberships')
  BY <1>1, CallStands DEF AccessInv
<1> QED
  BY <1>1, <1>2 DEF AccessInv, StoreInv

(* A call that moves on with what it has.                                   *)
LEMMA PhaseMoves ==
  ASSUME AccessInv, StoreInv', ViewsStay, NEW c \in Calls, NEW phase \in {"memberships", "handle", "execute", "served", "refused"},
         Moves(c, phase), calls[c].phase # "new", phase = "memberships" => calls[c].phase \in Undecided,
         phase \in {"handle", "execute"} /\ calls[c].method \in AuthorizedTwice => calls[c].phase = "handle" /\ calls[c].scope \in Tenants
  PROVE  AccessInv'
<1> DEFINE o == calls[c]
           n == [o EXCEPT !.phase = phase]
<1>1. o \in CallSet /\ CallHolds(o, tenants, memberships)
  BY DEF AccessInv
<1>2. CallHolds(o, tenants', memberships')
  BY <1>1, CallStands
<1>3. /\ n \in CallSet /\ n.phase = phase /\ n.method = o.method /\ n.caller = o.caller /\ n.scope = o.scope
      /\ n.target = o.target /\ n.view = o.view /\ n.tenant = o.tenant
  BY <1>1 DEF CallSet, Undecided
<1>4. calls' = [calls EXCEPT ![c] = n]
  BY DEF Moves
<1> HIDE DEF n
<1>5. CallHolds(n, tenants', memberships')
  BY Zenon, <1>2, <1>3 DEF CallHolds, Undecided
<1> QED
  BY Zenon, <1>3, <1>4, <1>5, CallMoves

(* The interceptor settles on a tenant it finds.                            *)
LEMMA UnaryKeeps ==
  ASSUME AccessInv, NEW c \in Calls, Unary(c)
  PROVE  AccessInv'
<1> DEFINE o == calls[c]
<1>1. o \in CallSet /\ CallHolds(o, tenants, memberships) /\ o.phase = "authorize" /\ StoreInv' /\ ViewsStay /\ o.method \in DOMAIN Registry
  <2>1. UNCHANGED <<tenants, memberships, audit>> /\ o.phase = "authorize"
    BY DEF Unary, storeVars
  <2>2. StoreInv /\ audit \in Audits
    BY Zenon DEF AccessInv, StoreInv, StoreHolds
  <2> QED
    BY Zenon, <2>1, <2>2, PolicyStands DEF AccessInv, CallHolds
<1>2. CASE Registry[o.method].scope = "self"
  <2>1. PICK phase \in {"handle", "refused"} : Moves(c, phase)
    BY <1>2 DEF Unary
  <2>2. o.method \notin AuthorizedTwice
    BY <1>2 DEF AuthorizedTwice
  <2> QED
    BY Zenon, <1>1, <2>1, <2>2, PhaseMoves
<1>3. CASE Moves(c, "refused")
  BY <1>1, <1>3, PhaseMoves
<1>4. ASSUME NEW t \in Admitted(o), calls' = [calls EXCEPT ![c].phase = "handle", ![c].tenant = t]
      PROVE  AccessInv'
  <2> DEFINE n == [o EXCEPT !.phase = "handle", !.tenant = t]
  <2>1. t \in Tenants /\ (o.scope \in Tenants => t = o.scope \/ ~o.view.member[o.scope].found)
    BY Zenon, <1>4 DEF Admitted, MembershipForScope
  <2>2. /\ n \in CallSet /\ n.phase = "handle" /\ n.method = o.method /\ n.caller = o.caller /\ n.scope = o.scope
        /\ n.target = o.target /\ n.view = o.view /\ n.tenant = t
    BY ZenonT(60), <1>1, <2>1 DEF CallSet, Undecided
  <2>3. calls' = [calls EXCEPT ![c] = n]
    BY Zenon, <1>4 DEF AccessInv
  <2>4. CallHolds(o, tenants', memberships')
    BY <1>1, CallStands
  <2> HIDE DEF n
  <2>5. CallHolds(n, tenants', memberships')
    BY Zenon, <1>1, <2>1, <2>2, <2>4 DEF CallHolds, Undecided
  <2> QED
    BY Zenon, <1>1, <2>2, <2>3, <2>5, CallMoves
<1> QED
  BY <1>2, <1>3, <1>4 DEF Unary

(* A step that leaves the whole store alone.                                *)
LEMMA StoreStands ==
  ASSUME AccessInv, UNCHANGED storeVars
  PROVE  StoreInv' /\ ViewsStay
<1>1. StoreInv /\ audit \in Audits /\ UNCHANGED <<tenants, memberships, audit>>
  BY Zenon DEF AccessInv, StoreInv, StoreHolds, storeVars
<1> QED
  BY <1>1, PolicyStands

(* A call arrives knowing nothing.                                          *)
LEMMA ReceiveKeeps ==
  ASSUME AccessInv, NEW c \in Calls, NEW rq \in ApiCalls, Receive(c, rq)
  PROVE  AccessInv'
<1> DEFINE read == IF rq.scope \in Tenants THEN tenants[rq.scope].revision ELSE 0
           n == [Idle EXCEPT !.phase = "authenticate", !.method = rq.method, !.caller = rq.caller, !.scope = rq.scope,
                             !.declared = rq.declared, !.target = rq.target, !.role = rq.role, !.expected = read]
<1>1. StoreInv' /\ ViewsStay /\ calls' = [calls EXCEPT ![c] = n]
  BY StoreStands DEF Receive
<1>2. read \in Nat
  BY Zenon DEF AccessInv, StoreHolds, TenantRows
<1>3. /\ rq.method \in DOMAIN Registry /\ rq.caller \in Principals
      /\ rq.scope \in Tenants \union Namespaces \union {"none"} /\ rq.declared \in {{}} \union {{t} : t \in Tenants}
      /\ rq.target \in Principals \union {"none"} /\ rq.role \in validTenantRole \union {"none"}
      /\ rq.method \in WithTarget => rq.target \in Principals
  BY DEF ApiCalls
<1>4. Nobody \in Views /\ \A t \in Tenants : ~Nobody.member[t].found
  BY DEF Nobody, Views, NotFound, MemberView
<1> HIDE DEF read
<1>5. Idle \in [phase : {"new"}, method : {"none"}, caller : {"none"}, scope : {"none"}, declared : {{}}, target : {"none"},
                role : {"none"}, expected : {0}, view : {Nobody}, tenant : {"none"}]
  BY Zenon DEF Idle
<1>6. /\ n \in CallSet /\ n.phase = "authenticate" /\ n.view = Nobody /\ n.tenant = "none" /\ n.caller = rq.caller
      /\ n.method = rq.method /\ n.target = rq.target /\ n.scope = rq.scope
  BY ZenonT(60), <1>2, <1>3, <1>4, <1>5 DEF CallSet, Undecided
<1> HIDE DEF n
<1>7. CallHolds(n, tenants', memberships')
  BY Zenon, <1>3, <1>4, <1>6 DEF CallHolds, Undecided
<1> QED
  BY Zenon, <1>1, <1>6, <1>7, CallMoves

(* The rows a call reads are the store's.                                   *)
LEMMA ReadMembershipsKeeps ==
  ASSUME AccessInv, NEW c \in Calls, ReadMemberships(c)
  PROVE  AccessInv'
<1> DEFINE o == calls[c]
           rows == membershipRows(o.caller)
           view == [active |-> TRUE, admin |-> FALSE, member |-> rows]
           n == [o EXCEPT !.phase = "platform", !.view = view]
<1>1. /\ o \in CallSet /\ CallHolds(o, tenants, memberships) /\ o.phase = "memberships" /\ StoreInv /\ StoreInv' /\ ViewsStay
      /\ tenants' = tenants /\ memberships' = memberships
  BY StoreStands DEF AccessInv, ReadMemberships, StoreInv, storeVars
<1>2. o.caller \in Principals
  BY Zenon, <1>1 DEF CallHolds
<1>3. ASSUME NEW t \in Tenants
      PROVE  /\ rows[t] \in MemberView
             /\ ViewTrue(rows[t], t, o.caller, tenants, memberships)
  <2>1. /\ tenants[t] \in TenantRows /\ memberships[t][o.caller] \in MemberRows
        /\ memberships[t][o.caller] # NoMembership => tenants[t] # NoTenant /\ memberships[t][o.caller].role \in validTenantRole
        /\ tenants[t] # NoTenant => tenants[t].revision >= 1
    <3>1. tenants[t] # NoTenant => tenants[t].revision >= 1
      BY Zenon, <1>1, TenantsHaveRevisions DEF StoreInv
    <3> QED
      BY Zenon, <1>1, <1>2, <3>1 DEF StoreInv, StoreHolds
  <2>2. CASE memberships[t][o.caller] = NoMembership
    <3>1. rows[t] = NotFound
      BY Zenon, <2>2 DEF membershipRows
    <3> HIDE DEF rows
    <3>2. rows[t] \in MemberView /\ ~rows[t].found
      BY Zenon, <3>1, NoRowIsAView
    <3> QED
      BY Zenon, <3>2 DEF ViewTrue
  <2>3. CASE memberships[t][o.caller] # NoMembership
    BY Zenon, <1>1, <1>2, <2>3, MemberIsAView
  <2> QED
    BY Zenon, <2>2, <2>3
<1>4. DOMAIN rows = Tenants /\ rows = [t \in Tenants |-> rows[t]]
  BY Zenon DEF membershipRows
<1>5. calls' = [calls EXCEPT ![c] = n]
  BY Zenon DEF ReadMemberships, AccessInv
<1> HIDE DEF rows
<1>6. view \in Views /\ view.member = rows
  BY <1>3, <1>4 DEF Views
<1> HIDE DEF view
<1>7. /\ n \in CallSet /\ n.phase = "platform" /\ n.method = o.method /\ n.caller = o.caller /\ n.scope = o.scope
      /\ n.target = o.target /\ n.view = view /\ n.tenant = o.tenant
  BY ZenonT(60), <1>1, <1>6 DEF CallSet, Undecided
<1> HIDE DEF n
<1>8. CallHolds(n, tenants', memberships')
  BY Zenon, <1>1, <1>3, <1>6, <1>7 DEF CallHolds, Undecided
<1> QED
  BY Zenon, <1>1, <1>5, <1>7, <1>8, CallMoves

(* The platform role adds what only an administrator sees.                  *)
LEMMA ReadPlatformRoleKeeps ==
  ASSUME AccessInv, NEW c \in Calls, ReadPlatformRole(c)
  PROVE  AccessInv'
<1> DEFINE o == calls[c]
           rows == loadPlatformRole(o.caller, o.view.member)
           admin == platformRoles[o.caller] = "ACTIVE"
           view == [o.view EXCEPT !.admin = admin, !.member = rows]
           n == [o EXCEPT !.phase = "authorize", !.view = view]
<1>1. /\ o \in CallSet /\ CallHolds(o, tenants, memberships) /\ o.phase = "platform" /\ StoreInv /\ StoreInv' /\ ViewsStay
      /\ tenants' = tenants /\ memberships' = memberships /\ o.view \in Views
  BY StoreStands DEF AccessInv, ReadPlatformRole, StoreInv, storeVars, CallSet
<1>3. ASSUME NEW t \in Tenants
      PROVE  /\ rows[t] \in MemberView
             /\ rows[t].found => ViewTrue(rows[t], t, o.caller, tenants, memberships)
  <2>1. CASE rows[t] = o.view.member[t]
    BY Zenon, <1>1, <2>1 DEF CallHolds, Views
  <2>2. CASE rows[t] = Membership(t, "platform_admin", TRUE)
    <3>3. rows[t] \in MemberView /\ rows[t].role = "platform_admin"
      BY Zenon, <1>1, <2>2, PlatformIsAView
    <3> QED
      BY Zenon, <3>3 DEF ViewTrue
  <2> QED
    BY Zenon, <2>1, <2>2 DEF loadPlatformRole
<1>4. DOMAIN rows = Tenants /\ rows = [t \in Tenants |-> rows[t]] /\ admin \in BOOLEAN
  BY Zenon DEF loadPlatformRole
<1>5. calls' = [calls EXCEPT ![c] = n]
  <2>1. calls' = [calls EXCEPT ![c].phase = "authorize", ![c].view = view]
    BY DEF ReadPlatformRole
  <2> HIDE DEF view
  <2> QED
    BY Zenon, <2>1 DEF AccessInv
<1> HIDE DEF rows, admin
<1>6. view \in Views /\ view.member = rows
  BY Zenon, <1>1, <1>3, <1>4 DEF Views
<1> HIDE DEF view
<1>7. /\ n \in CallSet /\ n.phase = "authorize" /\ n.method = o.method /\ n.caller = o.caller /\ n.scope = o.scope
      /\ n.target = o.target /\ n.view = view /\ n.tenant = o.tenant
  BY ZenonT(60), <1>1, <1>6 DEF CallSet, Undecided
<1> HIDE DEF n
<1>8. CallHolds(n, tenants', memberships')
  BY Zenon, <1>1, <1>3, <1>6, <1>7 DEF CallHolds, Undecided
<1> QED
  BY Zenon, <1>1, <1>5, <1>7, <1>8, CallMoves

(* What the handler does to the store, and how the call ends.               *)
LEMMA ExecuteKeeps ==
  ASSUME AccessInv, NEW c \in Calls, Execute(c)
  PROVE  AccessInv'
<1> DEFINE o == calls[c]
<1>1. o \in CallSet /\ CallHolds(o, tenants, memberships) /\ o.phase = "execute" /\ Moves(c, "served") /\ StoreInv
  BY DEF AccessInv, Execute, StoreInv
<1>2. (o.method \in WithTarget => o.target \in Principals) /\ (o.method \in AuthorizedTwice => o.scope \in Tenants)
  BY Zenon, <1>1 DEF CallHolds
<1>3. audit \in Audits /\ tenants \in [Tenants -> TenantRows] /\ memberships \in [Tenants -> [Principals -> MemberRows]]
  BY Zenon, <1>1 DEF StoreInv, StoreHolds
<1>4. StoreInv' /\ ViewsStay
  <2>1. CASE ExecuteGrant(c)
    <3>1. o.scope \in Tenants /\ o.target \in Principals /\ GrantTenantRole(o.scope, o.target, o.role)
      BY Zenon, <1>2, <2>1, RoleMethods DEF ExecuteGrant, WithTarget
    <3> DEFINE row == [role |-> o.role, status |-> "ACTIVE"]
    <3>2. row \in MemberRows /\ row.role \in validTenantRole
      BY <3>1 DEF GrantTenantRole, MemberRows
    <3>3. /\ tenants[o.scope] # NoTenant /\ memberships' = [memberships EXCEPT ![o.scope][o.target] = row]
          /\ tenants' = bumped(o.scope) /\ audit' = changed(o.scope)
      BY <3>1 DEF GrantTenantRole
    <3> HIDE DEF row
    <3> QED
      BY Zenon, <1>1, <1>2, <3>1, <3>2, <3>3, MembershipChanges
  <2>2. CASE ExecuteRevoke(c)
    <3>1. o.scope \in Tenants /\ o.target \in Principals /\ RevokeTenantRole(o.scope, o.target)
      BY <1>2, <2>2, RoleMethods DEF ExecuteRevoke, WithTarget
    <3> DEFINE old == memberships[o.scope][o.target]
               row == [role |-> IF old = NoMembership THEN "tenant_viewer" ELSE old.role, status |-> "DISABLED"]
    <3>2. old # NoMembership => old.role \in validTenantRole
      BY Zenon, <1>1, <1>2, <3>1 DEF StoreInv, StoreHolds
    <3>3. row \in MemberRows /\ row.role \in validTenantRole
      BY Zenon, <3>2 DEF MemberRows, validTenantRole
    <3>4. /\ tenants[o.scope] # NoTenant /\ memberships' = [memberships EXCEPT ![o.scope][o.target] = row]
          /\ tenants' = bumped(o.scope) /\ audit' = changed(o.scope)
      BY Zenon, <1>2, <1>3, <3>1 DEF RevokeTenantRole
    <3> HIDE DEF row
    <3> QED
      BY Zenon, <1>1, <1>2, <3>1, <3>3, <3>4, MembershipChanges
  <2>3. CASE ExecutePlatform(c)
    <3>1. UNCHANGED <<tenants, memberships>> /\ audit' = [audit EXCEPT !.platform = @ + 1]
      BY <2>3 DEF ExecutePlatform, GrantPlatformRole, RevokePlatformRole, SetPlatformRole, RevokeConsoleSessionsForPrincipal, policyVars
    <3>2. audit' \in Audits /\ audit'.changes = audit.changes
      BY <1>3, <3>1 DEF Audits
    <3> QED
      BY <1>1, <3>1, <3>2, PolicyStands
  <2>4. CASE UNCHANGED storeVars
    BY <2>4, StoreStands
  <2> QED
    BY Zenon, <2>1, <2>2, <2>3, <2>4 DEF Execute, GetCurrentPrincipal
<1> QED
  BY Zenon, <1>1, <1>4, PhaseMoves

(* The steps of a call keep the invariant.                                  *)
LEMMA CallStepKeeps ==
  ASSUME AccessInv, NEW c \in Calls, CallStep(c)
  PROVE  AccessInv'
<1>1. calls[c] \in CallSet /\ CallHolds(calls[c], tenants, memberships) /\ StoreInv /\ audit \in Audits
  BY Zenon DEF AccessInv, StoreInv, StoreHolds
<1>2. ASSUME NEW valid \in BOOLEAN, Authenticate(c, valid) PROVE AccessInv'
  <2>1. UNCHANGED <<tenants, memberships, audit>> /\ calls[c].phase = "authenticate"
    BY <1>2 DEF Authenticate
  <2>2. PICK phase \in {"memberships", "refused"} : Moves(c, phase)
    BY <1>2 DEF Authenticate
  <2>3. StoreInv' /\ ViewsStay
    BY <1>1, <2>1, PolicyStands
  <2> QED
    BY Zenon, <2>1, <2>2, <2>3, PhaseMoves DEF Undecided
<1>3. CASE Handle(c)
  <2>1. StoreInv' /\ ViewsStay /\ calls[c].phase = "handle"
    BY <1>3, StoreStands DEF Handle
  <2>2. CASE HandlerAllows(calls[c])
    <3>1. Moves(c, "execute") /\ (calls[c].method \in AuthorizedTwice => calls[c].scope \in Tenants)
      BY Zenon, <1>3, <2>2 DEF Handle, HandlerAllows, Authorize
    <3> QED
      BY <2>1, <3>1, PhaseMoves
  <2>3. CASE ~HandlerAllows(calls[c])
    <3>1. Moves(c, "refused")
      BY Zenon, <1>3, <2>3 DEF Handle
    <3> QED
      BY Zenon, <2>1, <3>1, PhaseMoves
  <2> QED
    BY <2>2, <2>3
<1>4. CASE Fails(c)
  <2>1. StoreInv' /\ ViewsStay /\ calls[c].phase # "new" /\ Moves(c, "refused")
    BY <1>4, StoreStands DEF Fails, Refused
  <2> QED
    BY <2>1, PhaseMoves
<1> QED
  BY <1>2, <1>3, <1>4, ReadMembershipsKeeps, ReadPlatformRoleKeeps, UnaryKeeps, ExecuteKeeps DEF CallStep

(* So do the commands of the operator.                                      *)
LEMMA OperatorKeeps ==
  ASSUME AccessInv, OperatorStep
  PROVE  AccessInv'
<1>1. StoreInv /\ audit \in Audits
  BY Zenon DEF AccessInv, StoreInv, StoreHolds
<1>2. UNCHANGED calls
  BY Zenon DEF OperatorStep, bootstrapPlatformAdmin, disablePrincipal, revokeSessions, bootstrapTenant, setTenantStatus, Confirms
<1>3. CASE \E p \in Principals : bootstrapPlatformAdmin(p) \/ disablePrincipal(p) \/ revokeSessions(p)
  <2>1. UNCHANGED <<tenants, memberships, audit>>
    BY <1>3 DEF bootstrapPlatformAdmin, disablePrincipal, revokeSessions, BootstrapPlatformAdmin, SetPrincipalStatus,
                RevokeSessionsForPrincipal, policyVars
  <2> QED
    BY <1>1, <1>2, <2>1, PolicyStands, CallsStand
<1>4. CASE \E t \in Tenants, namespace \in Namespaces, p \in Principals : bootstrapTenant(t, namespace, p)
  BY <1>1, <1>2, <1>4, BootstrapKeeps, CallsStand DEF bootstrapTenant
<1>5. CASE \E t \in Tenants, status \in {"ACTIVE", "SUSPENDED"} : setTenantStatus(t, status)
  BY <1>1, <1>2, <1>5, StatusKeeps, CallsStand DEF setTenantStatus
<1> QED
  BY <1>3, <1>4, <1>5 DEF OperatorStep

(* Every step keeps the invariant.                                          *)
LEMMA AccessStepKeeps == AccessInv /\ [AccessNext]_<<storeVars, accessVars>> => AccessInv'
<1> SUFFICES ASSUME AccessInv, [AccessNext]_<<storeVars, accessVars>> PROVE AccessInv'
  OBVIOUS
<1>1. CASE AccessNext
  BY <1>1, CallStepKeeps, ReceiveKeeps, OperatorKeeps DEF AccessNext
<1>2. CASE UNCHANGED <<storeVars, accessVars>>
  BY <1>2, StoreStands, CallsStand DEF accessVars
<1> QED
  BY <1>1, <1>2

(* An empty database and calls that have not arrived satisfy it.            *)
LEMMA AccessStarts == EmptyStore /\ AccessInit => AccessInv
<1> SUFFICES ASSUME EmptyStore, AccessInit PROVE AccessInv
  OBVIOUS
<1>1. NoTenant \in TenantRows /\ NoMembership \in MemberRows /\ NoAudit \in Audits /\ \A t \in Tenants : NoAudit.changes[t] = 0
  BY DEF NoTenant, NoMembership, NoAudit, TenantRows, MemberRows, Audits
<1>2. StoreHolds(tenants, memberships, audit)
  BY Zenon, <1>1 DEF EmptyStore, StoreHolds
<1>3. Nobody \in Views /\ \A t \in Tenants : ~Nobody.member[t].found
  BY DEF Nobody, Views, NotFound, MemberView
<1>4. Idle \in CallSet /\ Idle.phase = "new" /\ Idle.tenant = "none" /\ Idle.view = Nobody
  BY Zenon, <1>3 DEF Idle, CallSet, Undecided
<1>5. CallHolds(Idle, tenants, memberships)
  BY Zenon, <1>3, <1>4 DEF CallHolds
<1> QED
  BY <1>2, <1>4, <1>5 DEF AccessInit, AccessInv

(* A decision at the revision that was read is what the store grants.       *)
LEMMA AuthorizedIsGranted ==
  ASSUME StoreInv, NEW call \in CallSet, CallHolds(call, tenants, memberships), NEW t, NEW permission,
         Authorize(call.view, t, permission), call.view.member[t].role # "platform_admin"
  PROVE  Granted(t, call.caller, permission)
<1> DEFINE m == call.view.member[t]
<1>1. t \in Tenants /\ m.found /\ m.active /\ Has(m, permission) /\ CurrentPolicyRevision(t) = {m.revision}
  BY Zenon DEF Authorize
<1>2. tenants[t].status = "ACTIVE" /\ m.revision = tenants[t].revision
  BY Zenon, <1>1 DEF CurrentPolicyRevision
<1>3. ViewTrue(m, t, call.caller, tenants, memberships)
  BY Zenon, <1>1 DEF CallHolds
<1>4. memberships[t][call.caller].role = m.role /\ memberships[t][call.caller].status = "ACTIVE"
  BY Zenon, <1>1, <1>2, <1>3 DEF ViewTrue
<1> QED
  BY Zenon, <1>1, <1>2, <1>4 DEF Granted, Has

(* Only the interceptor and the handler let a call pass.                    *)
LEMMA PassesByDecision ==
  ASSUME AccessInv, AccessNext, NEW c \in Calls, Passes(c)
  PROVE  Unary(c) \/ Handle(c)
<1>1. calls[c].phase \in {"authorize", "handle"} /\ calls'[c].phase \in {"handle", "execute"} /\ calls'[c] # calls[c]
  BY DEF Passes
<1>2. calls \in [Calls -> CallSet]
  BY DEF AccessInv
<1>3. ~OperatorStep
  BY Zenon, <1>1 DEF OperatorStep, bootstrapPlatformAdmin, disablePrincipal, revokeSessions, bootstrapTenant, setTenantStatus, Confirms
<1>4. ASSUME NEW d \in Calls, NEW new, calls' = [calls EXCEPT ![d] = new]
      PROVE  d = c
  BY <1>1, <1>2, <1>4
<1>5. ASSUME NEW d \in Calls, NEW phase, Moves(d, phase)
      PROVE  d = c /\ calls'[c].phase = phase
  <2>1. calls' = [calls EXCEPT ![d] = [calls[d] EXCEPT !.phase = phase]]
    BY <1>5 DEF Moves
  <2>2. d = c
    BY Zenon, <1>4, <2>1
  <2> QED
    BY <1>2, <2>1, <2>2 DEF CallSet
<1>6. ASSUME NEW d \in Calls, NEW rq, Receive(d, rq) PROVE FALSE
  <2>1. d = c
    BY Zenon, <1>4, <1>6 DEF Receive
  <2> QED
    BY <1>1, <1>6, <2>1 DEF Receive
<1>7. ASSUME NEW d \in Calls, CallStep(d) PROVE Unary(c) \/ Handle(c)
  <2>1. ASSUME NEW valid \in BOOLEAN, Authenticate(d, valid) PROVE FALSE
    <3>1. calls[d].phase = "authenticate" /\ \E phase : Moves(d, phase)
      BY Zenon, <2>1 DEF Authenticate
    <3> QED
      BY <1>1, <1>5, <3>1
  <2>2. CASE ReadMemberships(d)
    <3>1. calls' = [calls EXCEPT ![d] = [calls[d] EXCEPT !.phase = "platform",
                        !.view = [active |-> TRUE, admin |-> FALSE, member |-> membershipRows(calls[d].caller)]]]
      BY Zenon, <1>2, <2>2 DEF ReadMemberships
    <3> QED
      BY Zenon, <1>1, <1>4, <2>2, <3>1 DEF ReadMemberships
  <2>3. CASE ReadPlatformRole(d)
    <3> DEFINE view == [calls[d].view EXCEPT !.admin = platformRoles[calls[d].caller] = "ACTIVE",
                                             !.member = loadPlatformRole(calls[d].caller, @)]
    <3>1. calls' = [calls EXCEPT ![d].phase = "authorize", ![d].view = view]
      BY <2>3 DEF ReadPlatformRole
    <3> HIDE DEF view
    <3>2. calls' = [calls EXCEPT ![d] = [calls[d] EXCEPT !.phase = "authorize", !.view = view]]
      BY Zenon, <1>2, <3>1
    <3> QED
      BY Zenon, <1>1, <1>4, <2>3, <3>2 DEF ReadPlatformRole
  <2>4. CASE Unary(d)
    <3>1. (\E phase : Moves(d, phase)) \/ \E t : calls' = [calls EXCEPT ![d].phase = "handle", ![d].tenant = t]
      BY <2>4 DEF Unary
    <3>2. ASSUME NEW t, calls' = [calls EXCEPT ![d].phase = "handle", ![d].tenant = t] PROVE d = c
      <4>1. calls' = [calls EXCEPT ![d] = [calls[d] EXCEPT !.phase = "handle", !.tenant = t]]
        BY Zenon, <1>2, <3>2
      <4> QED
        BY Zenon, <1>4, <4>1
    <3> QED
      BY <1>5, <2>4, <3>1, <3>2
  <2>5. CASE Handle(d)
    BY Zenon, <1>5, <2>5 DEF Handle
  <2>6. CASE Execute(d)
    BY Zenon, <1>1, <1>5, <2>6 DEF Execute
  <2>7. CASE Fails(d)
    BY <1>1, <1>5, <2>7 DEF Fails, Refused
  <2> QED
    BY <1>7, <2>1, <2>2, <2>3, <2>4, <2>5, <2>6, <2>7 DEF CallStep
<1> QED
  BY <1>3, <1>6, <1>7 DEF AccessNext

(* The calls a step lets through are granted what they ask.                 *)
LEMMA PassesGranted ==
  ASSUME AccessInv, AccessNext, NEW c \in Calls, Passes(c), calls[c].view.member[calls'[c].tenant].role # "platform_admin"
  PROVE  Granted(calls'[c].tenant, calls[c].caller, Registry[calls[c].method].permission)
<1> DEFINE o == calls[c]
           permission == Registry[o.method].permission
<1>1. o \in CallSet /\ CallHolds(o, tenants, memberships) /\ StoreInv /\ calls \in [Calls -> CallSet]
  BY Zenon DEF AccessInv, StoreInv
<1>2. ASSUME NEW phase, Moves(c, phase) PROVE calls'[c].tenant = o.tenant /\ calls'[c].phase = phase
  BY <1>1, <1>2 DEF Moves, CallSet
<1>3. CASE Unary(c)
  <2>1. o.phase = "authorize" /\ o.tenant = "none" /\ calls'[c].tenant # "none"
    BY <1>1, <1>3 DEF Unary, Passes, CallHolds, Undecided
  <2>2. ~\E phase : Moves(c, phase)
    BY Zenon, <1>2, <2>1
  <2>3. PICK t \in Admitted(o) : calls' = [calls EXCEPT ![c].phase = "handle", ![c].tenant = t]
    BY <1>3, <2>2 DEF Unary
  <2>4. calls'[c].tenant = t
    BY <1>1, <2>3 DEF CallSet
  <2>5. Authorize(o.view, t, permission)
    BY <2>3 DEF Admitted
  <2> QED
    BY Zenon, <1>1, <2>4, <2>5, AuthorizedIsGranted
<1>4. CASE Handle(c)
  <2>1. o.phase = "handle" /\ o.method \in AuthorizedTwice /\ calls'[c].phase = "execute"
    BY Zenon, <1>4 DEF Handle, Passes
  <2>2. HandlerAllows(o) /\ calls'[c].tenant = o.tenant
    <3>1. ASSUME ~HandlerAllows(o) PROVE FALSE
      <4>1. Moves(c, "refused")
        BY Zenon, <1>4, <3>1 DEF Handle
      <4>2. calls'[c].phase = "refused"
        BY Zenon, <1>2, <4>1
      <4> QED BY <2>1, <4>2
    <3>2. HandlerAllows(o) /\ Moves(c, "execute")
      BY Zenon, <1>4, <3>1 DEF Handle
    <3> QED BY Zenon, <1>2, <3>2
  <2>3. Authorize(o.view, o.scope, permission)
    BY Zenon, <2>1, <2>2 DEF HandlerAllows
  <2>4. o.tenant = o.scope
    BY Zenon, <1>1, <2>1, <2>3 DEF CallHolds, Authorize
  <2> QED
    BY Zenon, <1>1, <2>2, <2>3, <2>4, AuthorizedIsGranted
<1> QED
  BY Zenon, <1>3, <1>4, PassesByDecision

(* No decision for a tenant is made on a role that was changed or taken     *)
(* away after it was read: of the calls of any number of members on any     *)
(* number of tenants, with the operator beside them, the interceptor and    *)
(* the handlers let pass only what the store grants at that moment          *)
(* (auth/authorizer.go, Authorize; authn/interceptor.go, Unary), and the    *)
(* revisions they compare count every change of a tenant's roles.           *)
THEOREM DecisionsStayCurrent == AccessSpec => DecisionsAreCurrent
<1> DEFINE Body == ChangesAreCounted' /\ \A c \in Calls :
          (Passes(c) /\ calls[c].view.member[calls'[c].tenant].role # "platform_admin")
             => Granted(calls'[c].tenant, calls[c].caller, Registry[calls[c].method].permission)
<1>1. AccessInv /\ [AccessNext]_<<storeVars, accessVars>> => [Body]_<<storeVars, accessVars>>
  <2> SUFFICES ASSUME AccessInv, AccessNext PROVE Body
    BY Zenon
  <2>1. AccessInv'
    BY AccessStepKeeps
  <2>2. ChangesAreCounted'
    BY Zenon, <2>1 DEF AccessInv, StoreHolds, ChangesAreCounted
  <2> QED
    BY Zenon, <2>2, PassesGranted
<1> QED
  BY <1>1, AccessStarts, AccessStepKeeps, PTL DEF AccessSpec, DecisionsAreCurrent

-------------------------------------------------------------------------------
(* The life of the processes.                                               *)

Phases ==
  {"absent", "start", "open", "build", "listen", "serve", "connect", "wait", "drain", "release", "exited"}

Resources == {"jobs", "auth", "catalog", "connections", "compiler", "api", "database"}
ServerStates == {"off", "starting", "serving", "draining", "stopped", "failed"}

ProcessState ==
  [phase : Phases, open : Seq(Resources), draining : Seq(Servers), signalled : BOOLEAN, errors : Nat,
   outcome : {"none", "clean", "timeout", "error"}]

\* The states of a runtime that Close must end.
Connected == {"starting", "running", "failed"}

Assembled == {"build", "listen", "serve", "connect", "wait", "drain"}

\* These servers have stopped and left no request behind.
Quiet(done, s, w) == \A n \in done : s[n] = "stopped" /\ n \notin w

Opening(opens, opened) ==
  Len(opened) < Len(opens) /\ \A i \in 1..Len(opened) : opened[i] = opens[i]

\* What is left to drain, for each order in which servers are drained.
Left(drains, left) ==
  /\ drains = <<"grpc", "http">> => left \in {<<"grpc", "http">>, <<"http">>, <<>>}
  /\ drains = <<"http">> => left \in {<<"http">>, <<>>}
  /\ drains = <<"health">> => left \in {<<"health">>, <<>>}

Done(drains, left) ==
  IF left = <<>> THEN Range(drains)
  ELSE IF drains = <<"grpc", "http">> /\ left = <<"http">> THEN {"grpc"} ELSE {}

(* What is true of one process with program g and an accepted configuration *)
(* ok, when its main goroutine is at x, its servers at s, the requests w in *)
(* progress and the replication runtime at r.                               *)
Orderly(g, ok, x, s, w, r) ==
  /\ x \in ProcessState /\ s \in [Servers -> ServerStates] /\ w \subseteq Servers
  /\ x.phase = "start" => x.open = <<>>
  /\ x.phase = "open" => Opening(g.opens, x.open)
  /\ x.phase \in Assembled => x.open = g.opens
  /\ r \in Connected => x.phase \in {"connect", "wait", "drain", "release"} /\ x.open = g.opens
  /\ x.phase = "drain" => Left(g.drains, x.draining) /\ Quiet(Done(g.drains, x.draining), s, w)
  /\ x.outcome \in {"clean", "timeout"} => x.phase \in {"release", "exited"}
  /\ x.phase = "release" /\ x.outcome = "clean" => Quiet(Range(g.drains), s, w)
  /\ x.phase = "release" /\ x.outcome = "timeout" => Quiet(Range(g.drains) \ {Head(x.draining)}, s, w)
  /\ x.phase \notin {"absent", "start", "exited"} => ok
  /\ x.phase \in {"absent", "start", "open", "build", "listen", "exited"} =>
       w = {} /\ \A n \in Servers : s[n] = "off"
  /\ ~ok => w = {} /\ \A n \in Servers : s[n] = "off"

At1(p) == Orderly(Program(p), loadConfig(p), proc[p], server[p], work[p], runtime[p])

ServiceInv ==
  /\ DOMAIN proc = Processes /\ DOMAIN server = Processes /\ DOMAIN work = Processes
  /\ DOMAIN runtime = Processes
  /\ \A p \in Processes : At1(p)
  /\ \A d \in refused : d.kind = "gateway" \/ ~settings[d.from].production \/ ~settings[d.to].production

-----------------------------------------------------------------------------
(* Facts about the programs.                                               *)

\* The stages follow each other as run goes through them.
LEMMA Stages ==
  /\ After("open") = "build" /\ After("build") = "listen" /\ After("listen") = "serve"
  /\ After("serve") = "connect" /\ After("connect") = "wait"
PROOF
  <1>0. Len(stages) = 6 /\ stages[1] = "open" /\ stages[2] = "build" /\ stages[3] = "listen"
        /\ stages[4] = "serve" /\ stages[5] = "connect" /\ stages[6] = "wait"
    BY DEF stages
  <1>1. (CHOOSE i \in 1..Len(stages) : stages[i] = "open") = 1
    BY <1>0
  <1>2. (CHOOSE i \in 1..Len(stages) : stages[i] = "build") = 2
    BY <1>0
  <1>3. (CHOOSE i \in 1..Len(stages) : stages[i] = "listen") = 3
    BY <1>0
  <1>4. (CHOOSE i \in 1..Len(stages) : stages[i] = "serve") = 4
    BY <1>0
  <1>5. (CHOOSE i \in 1..Len(stages) : stages[i] = "connect") = 5
    BY <1>0
  <1> QED BY <1>0, <1>1, <1>2, <1>3, <1>4, <1>5 DEF After

\* Every program opens something, and drains its servers in one of three orders.
LEMMA ProgramIs ==
  ASSUME NEW p \in Processes
  PROVE  /\ Program(p).opens \in Seq(Resources) /\ Len(Program(p).opens) > 0
         /\ Program(p).drains \in {<<"grpc", "http">>, <<"http">>, <<"health">>}
PROOF
  <1>1. CASE p \in Regions
    <2>1. Program(p) = ApiServer(settings[p])
      BY <1>1, RegionsHavePeers DEF Program
    <2>a. Program(p).opens = <<"jobs", "auth", "catalog", "connections", "compiler">>
      BY <2>1 DEF ApiServer
    <2>2. <<"jobs", "auth", "catalog", "connections", "compiler">> \in Seq(Resources) /\ Len(<<"jobs", "auth", "catalog", "connections", "compiler">>) > 0
      BY DEF Resources
    <2> QED BY <2>1, <2>a, <2>2 DEF ApiServer
  <1>2. CASE p = "console"
    <2>1. Program(p) = Console(settings[p])
      BY <1>2, RegionsHavePeers DEF Program
    <2>a. Program(p).opens = <<"api", "auth">> \/ Program(p).opens = <<"api">>
      BY <2>1 DEF Console
    <2>2. /\ <<"api", "auth">> \in Seq(Resources) /\ Len(<<"api", "auth">>) > 0
          /\ <<"api">> \in Seq(Resources) /\ Len(<<"api">>) > 0
      BY DEF Resources
    <2> QED BY <2>1, <2>a, <2>2 DEF Console
  <1>3. CASE p = "scheduler"
    <2>1. Program(p) = Scheduler(settings[p])
      BY <1>3, RegionsHavePeers DEF Program
    <2>a. Program(p).opens = <<"database">>
      BY <2>1 DEF Scheduler
    <2>2. <<"database">> \in Seq(Resources) /\ Len(<<"database">>) > 0
      BY DEF Resources
    <2> QED BY <2>1, <2>a, <2>2 DEF Scheduler
  <1>4. CASE p = "executor"
    <2>1. Program(p) = Executor(settings[p])
      BY <1>4, RegionsHavePeers DEF Program
    <2>a. Program(p).opens = <<"connections">>
      BY <2>1 DEF Executor
    <2>2. <<"connections">> \in Seq(Resources) /\ Len(<<"connections">>) > 0
      BY DEF Resources
    <2> QED BY <2>1, <2>a, <2>2 DEF Executor
  <1> QED BY <1>1, <1>2, <1>3, <1>4 DEF Processes

\* The three orders in which servers are drained.
LEMMA Orders ==
  /\ <<"grpc", "http">> \in Seq(Servers) /\ <<"http">> \in Seq(Servers) /\ <<"health">> \in Seq(Servers)
  /\ <<"grpc", "http">> # <<>> /\ <<"http">> # <<>> /\ <<"health">> # <<>>
  /\ <<"grpc", "http">> # <<"http">> /\ <<"grpc", "http">> # <<"health">> /\ <<"http">> # <<"health">>
  /\ Tail(<<"grpc", "http">>) = <<"http">> /\ Tail(<<"http">>) = <<>> /\ Tail(<<"health">>) = <<>>
  /\ Head(<<"grpc", "http">>) = "grpc" /\ Head(<<"http">>) = "http" /\ Head(<<"health">>) = "health"
PROOF
  <1>1. <<"grpc", "http">> \in Seq(Servers) /\ <<"http">> \in Seq(Servers) /\ <<"health">> \in Seq(Servers)
    BY DEF Servers
  <1>2. Len(<<"grpc", "http">>) = 2 /\ Len(<<"http">>) = 1 /\ Len(<<"health">>) = 1 /\ Len(<<>>) = 0
    OBVIOUS
  <1>3. <<"http">> # <<"health">>
    OBVIOUS
  <1>4. Tail(<<"grpc", "http">>) = <<"http">> /\ Tail(<<"http">>) = <<>> /\ Tail(<<"health">>) = <<>>
    OBVIOUS
  <1>5. Head(<<"grpc", "http">>) = "grpc" /\ Head(<<"http">>) = "http" /\ Head(<<"health">>) = "health"
    OBVIOUS
  <1> QED BY <1>1, <1>2, <1>3, <1>4, <1>5

\* The elements of the drained sequences.
LEMMA Drained ==
  /\ Range(<<"grpc", "http">>) = {"grpc", "http"} /\ Range(<<"http">>) = {"http"}
  /\ Range(<<"health">>) = {"health"}
PROOF
  <1>1. DOMAIN <<"grpc", "http">> = {1, 2} /\ DOMAIN <<"http">> = {1} /\ DOMAIN <<"health">> = {1}
    OBVIOUS
  <1> QED BY <1>1 DEF Range

\* Nothing is a sequence of servers.
LEMMA NothingLeft == <<>> \in Seq(Servers)
OBVIOUS

\* The next server to drain is not among those drained.
LEMMA NextDrain ==
  ASSUME NEW drains \in {<<"grpc", "http">>, <<"http">>, <<"health">>}, NEW left, Left(drains, left), left # <<>>
  PROVE  /\ Head(left) \in Servers /\ Left(drains, Tail(left)) /\ Head(left) \notin Done(drains, left)
         /\ Done(drains, left) \subseteq Servers /\ Tail(left) \in Seq(Servers)
         /\ Done(drains, Tail(left)) \subseteq Done(drains, left) \cup {Head(left)}
PROOF
  <1>0. /\ left \in {<<"grpc", "http">>, <<"http">>, <<"health">>} /\ (drains = <<"grpc", "http">> => left # <<"health">>)
        /\ (drains = <<"http">> => left = <<"http">>) /\ (drains = <<"health">> => left = <<"health">>)
    BY Zenon, Orders DEF Left
  <1>1. CASE drains = <<"grpc", "http">> /\ left = <<"grpc", "http">>
    <2>1. Done(drains, left) = {} /\ Tail(left) = <<"http">> /\ Head(left) = "grpc"
      BY Zenon, <1>1, Orders, Drained DEF Done
    <2>2. Done(drains, Tail(left)) = {"grpc"} /\ Left(drains, Tail(left)) /\ Tail(left) \in Seq(Servers)
      BY Zenon, <1>1, <2>1, Orders, Drained, NothingLeft DEF Done, Left
    <2>3. "grpc" \in Servers /\ {} \subseteq Servers /\ "grpc" \notin {} /\ {"grpc"} \subseteq {} \cup {"grpc"}
      BY DEF Servers
    <2> QED BY Zenon, <2>1, <2>2, <2>3
  <1>2. CASE drains = <<"grpc", "http">> /\ left = <<"http">>
    <2>1. Done(drains, left) = {"grpc"} /\ Tail(left) = <<>> /\ Head(left) = "http"
      BY Zenon, <1>2, Orders, Drained DEF Done
    <2>2. Done(drains, Tail(left)) = {"grpc", "http"} /\ Left(drains, Tail(left)) /\ Tail(left) \in Seq(Servers)
      BY Zenon, <1>2, <2>1, Orders, Drained, NothingLeft DEF Done, Left
    <2>3. "http" \in Servers /\ {"grpc"} \subseteq Servers /\ "http" \notin {"grpc"} /\ {"grpc", "http"} \subseteq {"grpc"} \cup {"http"}
      BY DEF Servers
    <2> QED BY Zenon, <2>1, <2>2, <2>3
  <1>3. CASE drains = <<"http">> /\ left = <<"http">>
    <2>1. Done(drains, left) = {} /\ Tail(left) = <<>> /\ Head(left) = "http"
      BY Zenon, <1>3, Orders, Drained DEF Done
    <2>2. Done(drains, Tail(left)) = {"http"} /\ Left(drains, Tail(left)) /\ Tail(left) \in Seq(Servers)
      BY Zenon, <1>3, <2>1, Orders, Drained, NothingLeft DEF Done, Left
    <2>3. "http" \in Servers /\ {} \subseteq Servers /\ "http" \notin {} /\ {"http"} \subseteq {} \cup {"http"}
      BY DEF Servers
    <2> QED BY Zenon, <2>1, <2>2, <2>3
  <1>4. CASE drains = <<"health">> /\ left = <<"health">>
    <2>1. Done(drains, left) = {} /\ Tail(left) = <<>> /\ Head(left) = "health"
      BY Zenon, <1>4, Orders, Drained DEF Done
    <2>2. Done(drains, Tail(left)) = {"health"} /\ Left(drains, Tail(left)) /\ Tail(left) \in Seq(Servers)
      BY Zenon, <1>4, <2>1, Orders, Drained, NothingLeft DEF Done, Left
    <2>3. "health" \in Servers /\ {} \subseteq Servers /\ "health" \notin {} /\ {"health"} \subseteq {} \cup {"health"}
      BY DEF Servers
    <2> QED BY Zenon, <2>1, <2>2, <2>3
  <1> QED BY Zenon, <1>0, <1>1, <1>2, <1>3, <1>4, Orders

\* Once gRPC is drained, one server at most is left.
LEMMA OneLeft ==
  ASSUME NEW drains \in {<<"grpc", "http">>, <<"http">>, <<"health">>}, NEW left, Left(drains, left), left # <<>>,
         Head(left) # "grpc"
  PROVE  Range(drains) \ {Head(left)} \subseteq Done(drains, left)
PROOF
  <1>1. Head(<<"grpc", "http">>) = "grpc" /\ Head(<<"http">>) = "http" /\ Head(<<"health">>) = "health"
    OBVIOUS
  <1>2. CASE drains = <<"grpc", "http">>
    <2>1. left = <<"http">>
      BY Zenon, <1>1, <1>2 DEF Left
    <2>2. Done(drains, left) = {"grpc"}
      BY Zenon, <1>2, <2>1, Orders DEF Done
    <2> QED BY Zenon, <1>1, <1>2, <2>1, <2>2, Drained
  <1>3. CASE drains = <<"http">>
    BY Zenon, <1>1, <1>3, Drained DEF Left
  <1>4. CASE drains = <<"health">>
    BY Zenon, <1>1, <1>4, Drained DEF Left
  <1> QED BY Zenon, <1>2, <1>3, <1>4

\* What another server does leaves the drained ones quiet.
LEMMA StillQuiet ==
  ASSUME NEW done, done \subseteq Servers, NEW s, s \notin done, NEW before, NEW after, NEW w,
         Quiet(done, before, w), \A n \in Servers \ {s} : after[n] = before[n]
  PROVE  Quiet(done, after, w)
BY Zenon DEF Quiet

\* Sequences of the same length with the same elements are equal.
LEMMA Opened ==
  ASSUME NEW opens \in Seq(Resources), NEW opened \in Seq(Resources), Opening(opens, opened)
  PROVE  LET next == Append(opened, opens[Len(opened) + 1])
         IN  /\ next \in Seq(Resources)
             /\ Len(opened) + 1 # Len(opens) => Opening(opens, next)
             /\ Len(opened) + 1 = Len(opens) => next = opens
PROOF
  <1> DEFINE next == Append(opened, opens[Len(opened) + 1])
  <1>1. opens[Len(opened) + 1] \in Resources
    BY DEF Opening
  <1>2. next \in Seq(Resources) /\ Len(next) = Len(opened) + 1
    BY <1>1
  <1>3. \A i \in 1..Len(next) : next[i] = opens[i]
    BY <1>1 DEF Opening
  <1>4. Len(opened) + 1 # Len(opens) => Opening(opens, next)
    BY <1>2, <1>3 DEF Opening
  <1>5. Len(opened) + 1 = Len(opens) => next = opens
    BY <1>2, <1>3
  <1> QED BY <1>2, <1>4, <1>5

-----------------------------------------------------------------------------
(* One process moves.                                                      *)

\* Only process p moves: the others and the settings are as they were.
OnlyMoves(p) ==
  /\ settings' = settings
  /\ DOMAIN proc' = Processes /\ DOMAIN server' = Processes /\ DOMAIN work' = Processes
  /\ DOMAIN runtime' = Processes
  /\ \A q \in Processes \ {p} : /\ proc'[q] = proc[q] /\ server'[q] = server[q]
                                /\ work'[q] = work[q] /\ runtime'[q] = runtime[q]

Next1(p) == Orderly(Program(p), loadConfig(p), proc'[p], server'[p], work'[p], runtime'[p])

\* A program, and whether its settings are accepted, depend on the settings alone.
LEMMA SettingsDecide ==
  ASSUME settings' = settings
  PROVE  \A p : Program(p)' = Program(p) /\ loadConfig(p)' = loadConfig(p)
PROOF
  <1> TAKE p
  <1>1. Program(p)' = Program(p)
    BY Zenon DEF Program
  <1>2. loadConfig(p)' = loadConfig(p)
    BY Zenon DEF loadConfig
  <1> QED BY <1>1, <1>2

\* When one process moves and is orderly afterwards, all are.
LEMMA ProcessMoves ==
  ASSUME ServiceInv, NEW p \in Processes, OnlyMoves(p), Next1(p), refused' = refused
  PROVE  ServiceInv'
PROOF
  <1>1. settings' = settings
    BY DEF OnlyMoves
  <1>2. \A q \in Processes : At1(q)'
    <2> TAKE q \in Processes
    <2>0. Program(q)' = Program(q) /\ loadConfig(q)' = loadConfig(q)
      BY <1>1, SettingsDecide
    <2>1. CASE q = p
      BY Zenon, <2>0, <2>1 DEF Next1, At1
    <2>2. CASE q # p
      <3>1. At1(q)
        BY Zenon DEF ServiceInv
      <3> QED BY Zenon, <2>0, <2>2, <3>1 DEF OnlyMoves, At1
    <2> QED BY <2>1, <2>2
  <1>3. \A d \in refused' : d.kind = "gateway" \/ ~(settings')[d.from].production \/ ~(settings')[d.to].production
    BY Zenon, <1>1 DEF ServiceInv
  <1> QED BY Zenon, <1>2, <1>3 DEF OnlyMoves, ServiceInv

\* A process starts in a state.
LEMMA IdleState ==
  Unstarted \in ProcessState /\ Unstarted.phase = "start" /\ Unstarted.open = <<>> /\ Unstarted.outcome = "none"
PROOF
  <1>1. <<>> \in Seq(Resources) /\ <<>> \in Seq(Servers)
    OBVIOUS
  <1> QED BY Zenon, <1>1 DEF Unstarted, ProcessState, Phases

\* A process that is gone is orderly.
LEMMA GoneIsOrderly ==
  ASSUME ServiceInv, NEW p \in Processes, NEW outcome \in {"none", "clean", "timeout", "error"}, Gone(p, outcome),
         settings' = settings, refused' = refused
  PROVE  ServiceInv'
PROOF
  <1>1. OnlyMoves(p)
    BY DEF Gone, OnlyMoves, ServiceInv
  <1>2. /\ proc'[p] = [Unstarted EXCEPT !.phase = "exited", !.outcome = outcome]
        /\ server'[p] = [s \in Servers |-> "off"] /\ work'[p] = {} /\ runtime'[p] = "none"
    BY DEF Gone, ServiceInv
  <1>3. proc'[p] \in ProcessState /\ proc'[p].phase = "exited"
    BY Zenon, <1>2, IdleState DEF ProcessState, Phases
  <1>4. server'[p] \in [Servers -> ServerStates] /\ (\A n \in Servers : server'[p][n] = "off") /\ "none" \notin Connected
    BY <1>2 DEF ServerStates, Connected
  <1>5. Next1(p)
    BY Zenon, <1>2, <1>3, <1>4 DEF Next1, Orderly, Assembled
  <1> QED BY <1>1, <1>5, ProcessMoves

\* A process that leaves run with an error is orderly.
LEMMA LeavesIsOrderly ==
  ASSUME ServiceInv, NEW p \in Processes, Leaves(p), proc[p].phase \in Assembled \cup {"open"},
         settings' = settings, refused' = refused, work' = work,
         DOMAIN runtime' = Processes, \A q \in Processes \ {p} : runtime'[q] = runtime[q],
         runtime'[p] = runtime[p] \/ runtime'[p] = "closed"
  PROVE  ServiceInv'
PROOF
  <1>0. At1(p)
    BY Zenon DEF ServiceInv
  <1>1. OnlyMoves(p)
    BY DEF Leaves, OnlyMoves, ServiceInv
  <1>2. /\ proc'[p] = [proc[p] EXCEPT !.phase = "release", !.outcome = "error"]
        /\ server'[p] = [s \in Servers |-> IF server[p][s] = "off" THEN "off" ELSE "stopped"]
    BY DEF Leaves, ServiceInv
  <1>3. /\ proc'[p] \in ProcessState /\ proc'[p].phase = "release" /\ proc'[p].outcome = "error"
        /\ proc'[p].open = proc[p].open
    BY Zenon, <1>0, <1>2 DEF At1, Orderly, ProcessState, Phases
  <1>4. server'[p] \in [Servers -> ServerStates]
    BY <1>2 DEF ServerStates
  <1>5. loadConfig(p)
    BY Zenon, <1>0 DEF At1, Orderly, Assembled
  <1>6. runtime'[p] \in Connected => proc[p].open = Program(p).opens
    BY Zenon, <1>0 DEF At1, Orderly, Connected
  <1>7. work'[p] \subseteq Servers
    BY Zenon, <1>0 DEF At1, Orderly
  <1>8. Next1(p)
    BY Zenon, <1>3, <1>4, <1>5, <1>6, <1>7 DEF Next1, Orderly, Assembled
  <1> QED BY Zenon, <1>1, <1>8, ProcessMoves

-----------------------------------------------------------------------------
(* The main goroutine.                                                     *)

\* A step to another stage changes the stage alone.
LEMMA GoesTo ==
  ASSUME ServiceInv, NEW p \in Processes, NEW stage \in Phases, Goes(p, stage)
  PROVE  /\ DOMAIN proc' = Processes /\ \A q \in Processes \ {p} : proc'[q] = proc[q]
         /\ proc'[p] \in ProcessState /\ proc'[p].phase = stage /\ proc'[p].open = proc[p].open
         /\ proc'[p].draining = proc[p].draining /\ proc'[p].outcome = proc[p].outcome
PROOF
  <1>1. proc[p] \in ProcessState
    BY Zenon DEF ServiceInv, At1, Orderly
  <1>2. DOMAIN proc = Processes
    BY Zenon DEF ServiceInv
  <1> QED BY <1>1, <1>2 DEF Goes, ProcessState

\* main: settings that are not accepted end the process.
LEMMA MainKeeps ==
  ASSUME ServiceInv, NEW p \in Processes, main(p)
  PROVE  ServiceInv'
PROOF
  <1>0. At1(p) /\ proc[p].phase = "start"
    BY Zenon DEF ServiceInv, main, At
  <1>1. CASE Gone(p, "error") /\ settings' = settings /\ refused' = refused
    BY <1>1, GoneIsOrderly
  <1>2. CASE loadConfig(p) /\ Goes(p, "open") /\ UNCHANGED <<server, work, runtime, settings, refused>>
    <2>1. /\ DOMAIN proc' = Processes /\ \A q \in Processes \ {p} : proc'[q] = proc[q]
          /\ proc'[p] \in ProcessState /\ proc'[p].phase = "open" /\ proc'[p].open = proc[p].open
          /\ proc'[p].outcome = proc[p].outcome
      BY Zenon, <1>2, GoesTo DEF Phases
    <2>2. OnlyMoves(p)
      BY Zenon, <1>2, <2>1 DEF OnlyMoves, ServiceInv
    <2>3. Len(Program(p).opens) > 0 /\ proc[p].open = <<>>
      BY Zenon, <1>0, ProgramIs DEF At1, Orderly
    <2>4. Opening(Program(p).opens, proc[p].open)
      BY <2>3 DEF Opening
    <2>5. Next1(p)
      BY Zenon, <1>0, <1>2, <2>1, <2>4 DEF At1, Next1, Orderly, Assembled
    <2> QED BY <1>2, <2>2, <2>5, ProcessMoves
  <1> QED BY <1>1, <1>2 DEF main

\* open: resources are opened in the order of the program.
LEMMA OpenKeeps ==
  ASSUME ServiceInv, NEW p \in Processes, open(p)
  PROVE  ServiceInv'
PROOF
  <1> DEFINE opens == Program(p).opens
             x == proc[p]
             next == Append(x.open, opens[Len(x.open) + 1])
             last == Len(x.open) + 1 = Len(opens)
  <1>0. At1(p) /\ x.phase = "open" /\ x \in ProcessState /\ DOMAIN proc = Processes
    BY DEF ServiceInv, open, At, At1, Orderly
  <1>1. proc' = [proc EXCEPT ![p].open = next, ![p].phase = IF last THEN "build" ELSE @]
    BY Zenon, Stages DEF open
  <1>2. opens \in Seq(Resources) /\ x.open \in Seq(Resources) /\ Opening(opens, x.open)
    BY Zenon, <1>0, ProgramIs DEF At1, Orderly, ProcessState
  <1>3. next \in Seq(Resources) /\ (~last => Opening(opens, next)) /\ (last => next = opens)
    BY Zenon, <1>2, Opened
  <1>4. UNCHANGED <<settings, server, work, runtime, refused>>
    BY DEF open
  <1> HIDE DEF opens, next, last
  <1>5. /\ DOMAIN proc' = Processes /\ \A q \in Processes \ {p} : proc'[q] = proc[q]
        /\ proc'[p] \in ProcessState /\ proc'[p].phase = (IF last THEN "build" ELSE "open")
        /\ proc'[p].open = next /\ proc'[p].outcome = x.outcome
    BY Zenon, <1>0, <1>1, <1>3 DEF ProcessState, Phases
  <1>6. OnlyMoves(p)
    BY Zenon, <1>4, <1>5 DEF OnlyMoves, ServiceInv
  <1>7. Next1(p)
    BY Zenon, <1>0, <1>3, <1>4, <1>5 DEF At1, Next1, Orderly, Assembled, opens
  <1> QED BY <1>4, <1>6, <1>7, ProcessMoves

\* build: the runtime is built, or a constructor refuses the settings.
LEMMA BuildKeeps ==
  ASSUME ServiceInv, NEW p \in Processes, build(p)
  PROVE  ServiceInv'
PROOF
  <1>0. At1(p) /\ proc[p].phase = "build"
    BY Zenon DEF ServiceInv, build, At
  <1>1. UNCHANGED <<settings, work, refused>>
    BY DEF build
  <1>2. CASE Leaves(p) /\ UNCHANGED runtime
    BY Zenon, <1>0, <1>1, <1>2, LeavesIsOrderly DEF Assembled, ServiceInv
  <1>3. CASE Goes(p, "listen") /\ runtime' = [runtime EXCEPT ![p] = builtRuntime(p)] /\ UNCHANGED server
    <2>1. /\ DOMAIN proc' = Processes /\ \A q \in Processes \ {p} : proc'[q] = proc[q]
          /\ proc'[p] \in ProcessState /\ proc'[p].phase = "listen" /\ proc'[p].open = proc[p].open
          /\ proc'[p].outcome = proc[p].outcome
      BY Zenon, <1>3, GoesTo DEF Phases
    <2>2. OnlyMoves(p)
      BY Zenon, <1>1, <1>3, <2>1 DEF OnlyMoves, ServiceInv
    <2>3. runtime'[p] \notin Connected
      BY Zenon, <1>3 DEF builtRuntime, ServiceInv, Connected
    <2>4. Next1(p)
      BY Zenon, <1>0, <1>1, <1>3, <2>1, <2>3 DEF At1, Next1, Orderly, Assembled
    <2> QED BY <1>1, <2>2, <2>4, ProcessMoves
  <1> QED BY <1>2, <1>3, Stages DEF build

\* listen, and any failure or signal before it.
LEMMA ListenKeeps ==
  ASSUME ServiceInv, NEW p \in Processes, listen(p) \/ setupFails(p)
  PROVE  ServiceInv'
PROOF
  <1>0. At1(p)
    BY DEF ServiceInv
  <1>1. CASE listen(p)
    <2>0. Goes(p, "serve") /\ UNCHANGED <<settings, server, work, runtime, refused>> /\ proc[p].phase = "listen"
      BY <1>1, Stages DEF listen, At
    <2>1. /\ DOMAIN proc' = Processes /\ \A q \in Processes \ {p} : proc'[q] = proc[q]
          /\ proc'[p] \in ProcessState /\ proc'[p].phase = "serve" /\ proc'[p].open = proc[p].open
          /\ proc'[p].outcome = proc[p].outcome
      BY Zenon, <2>0, GoesTo DEF Phases
    <2>2. OnlyMoves(p)
      BY Zenon, <2>0, <2>1 DEF OnlyMoves, ServiceInv
    <2>3. Next1(p)
      BY Zenon, <1>0, <2>0, <2>1 DEF At1, Next1, Orderly, Assembled
    <2> QED BY Zenon, <2>0, <2>2, <2>3, ProcessMoves
  <1>2. CASE setupFails(p)
    BY Zenon, <1>2, LeavesIsOrderly DEF setupFails, Assembled, ServiceInv
  <1> QED BY <1>1, <1>2


\* serve: the servers of the program start.
LEMMA ServeKeeps ==
  ASSUME ServiceInv, NEW p \in Processes, serve(p)
  PROVE  ServiceInv'
PROOF
  <1>0. At1(p) /\ proc[p].phase = "serve"
    BY Zenon DEF ServiceInv, serve, At
  <1>1. UNCHANGED <<settings, work, runtime, refused>> /\ Goes(p, "connect")
    BY Stages DEF serve
  <1>2. /\ DOMAIN proc' = Processes /\ \A q \in Processes \ {p} : proc'[q] = proc[q]
        /\ proc'[p] \in ProcessState /\ proc'[p].phase = "connect" /\ proc'[p].open = proc[p].open
        /\ proc'[p].outcome = proc[p].outcome
    BY Zenon, <1>1, GoesTo DEF Phases
  <1>3. /\ DOMAIN server' = Processes /\ \A q \in Processes \ {p} : server'[q] = server[q]
        /\ server'[p] = [s \in Servers |-> IF s \in Program(p).servers THEN "starting" ELSE "off"]
    BY Zenon DEF serve, ServiceInv
  <1>4. server'[p] \in [Servers -> ServerStates]
    BY Zenon, <1>3 DEF ServerStates
  <1>5. OnlyMoves(p)
    BY Zenon, <1>1, <1>2, <1>3 DEF OnlyMoves, ServiceInv
  <1>6. Next1(p)
    BY Zenon, <1>0, <1>1, <1>2, <1>4 DEF At1, Next1, Orderly, Assembled
  <1> QED BY <1>1, <1>5, <1>6, ProcessMoves

\* startReplication: the peer answers, or the process leaves.
LEMMA ConnectKeeps ==
  ASSUME ServiceInv, NEW p \in Processes, startReplication(p)
  PROVE  ServiceInv'
PROOF
  <1>0. At1(p) /\ proc[p].phase = "connect" /\ DOMAIN runtime = Processes
    BY Zenon DEF ServiceInv, startReplication, At
  <1>1. UNCHANGED <<settings, work, refused>>
    BY Zenon DEF startReplication
  <1>2. CASE Leaves(p) /\ runtime' = [runtime EXCEPT ![p] = "closed"]
    BY <1>0, <1>1, <1>2, LeavesIsOrderly DEF Assembled
  <1>3. CASE Goes(p, "wait") /\ UNCHANGED server
             /\ (UNCHANGED runtime \/ runtime' = [runtime EXCEPT ![p] = "running"])
    <2>1. /\ DOMAIN proc' = Processes /\ \A q \in Processes \ {p} : proc'[q] = proc[q]
          /\ proc'[p] \in ProcessState /\ proc'[p].phase = "wait" /\ proc'[p].open = proc[p].open
          /\ proc'[p].outcome = proc[p].outcome
      BY Zenon, <1>3, GoesTo DEF Phases
    <2>2. OnlyMoves(p)
      BY Zenon, <1>0, <1>1, <1>3, <2>1 DEF OnlyMoves, ServiceInv
    <2>3. Next1(p)
      BY Zenon, <1>0, <1>1, <1>3, <2>1 DEF At1, Next1, Orderly, Assembled
    <2> QED BY <1>1, <2>2, <2>3, ProcessMoves
  <1>4. CASE runtime' = [runtime EXCEPT ![p] = "starting"] /\ UNCHANGED <<proc, server>>
    <2>1. OnlyMoves(p)
      BY Zenon, <1>0, <1>1, <1>4 DEF OnlyMoves, ServiceInv
    <2>2. Next1(p)
      BY Zenon, <1>0, <1>1, <1>4 DEF At1, Next1, Orderly, Assembled
    <2> QED BY <1>1, <2>1, <2>2, ProcessMoves
  <1> QED BY Zenon, <1>2, <1>3, <1>4, Stages DEF startReplication

\* await: a signal begins the drain, the failure of a server ends the run.
LEMMA AwaitKeeps ==
  ASSUME ServiceInv, NEW p \in Processes, await(p)
  PROVE  ServiceInv'
PROOF
  <1>0. At1(p) /\ proc[p].phase = "wait" /\ DOMAIN proc = Processes
    BY DEF ServiceInv, await, At
  <1>1. UNCHANGED <<settings, work, runtime, refused>>
    BY DEF await
  <1>2. CASE Leaves(p)
    BY Zenon, <1>0, <1>1, <1>2, LeavesIsOrderly DEF Assembled, ServiceInv
  <1>3. CASE proc' = [proc EXCEPT ![p].phase = "drain", ![p].draining = Program(p).drains] /\ UNCHANGED server
    <2>0. /\ Program(p).drains \in {<<"grpc", "http">>, <<"http">>, <<"health">>}
          /\ Program(p).drains \in Seq(Servers)
      BY Zenon, ProgramIs, Orders
    <2>1. /\ DOMAIN proc' = Processes /\ \A q \in Processes \ {p} : proc'[q] = proc[q]
          /\ proc'[p] \in ProcessState /\ proc'[p].phase = "drain" /\ proc'[p].open = proc[p].open
          /\ proc'[p].outcome = proc[p].outcome /\ proc'[p].draining = Program(p).drains
      BY Zenon, <1>0, <1>3, <2>0 DEF At1, Orderly, ProcessState, Phases
    <2>2. OnlyMoves(p)
      BY <1>1, <1>3, <2>1 DEF OnlyMoves, ServiceInv
    <2>3. Left(Program(p).drains, Program(p).drains) /\ Done(Program(p).drains, Program(p).drains) = {}
      BY Zenon, <2>0, Orders DEF Left, Done
    <2>4. Next1(p)
      BY <1>0, <1>1, <1>3, <2>1, <2>3 DEF At1, Next1, Orderly, Assembled, Quiet
    <2> QED BY <1>1, <2>2, <2>4, ProcessMoves
  <1> QED BY <1>2, <1>3 DEF await


\* drain: a server is stopped once its requests are answered, and stays so.
LEMMA DrainKeeps ==
  ASSUME ServiceInv, NEW p \in Processes, drain(p)
  PROVE  ServiceInv'
PROOF
  <1> DEFINE x == proc[p]
             drains == Program(p).drains
             s == Head(x.draining)
  <1>0. /\ At1(p) /\ x.phase = "drain" /\ x \in ProcessState /\ x.draining # <<>>
        /\ DOMAIN proc = Processes /\ DOMAIN server = Processes /\ server[p] \in [Servers -> ServerStates]
    BY Zenon DEF ServiceInv, drain, At, At1, Orderly
  <1>1. UNCHANGED <<settings, work, runtime, refused>>
    BY Zenon DEF drain
  <1>2. drains \in {<<"grpc", "http">>, <<"http">>, <<"health">>} /\ Left(drains, x.draining)
        /\ Quiet(Done(drains, x.draining), server[p], work[p])
    BY Zenon, <1>0, ProgramIs DEF At1, Orderly
  <1>3. /\ s \in Servers /\ Left(drains, Tail(x.draining)) /\ s \notin Done(drains, x.draining)
        /\ Done(drains, Tail(x.draining)) \subseteq Done(drains, x.draining) \cup {s}
        /\ Tail(x.draining) \in Seq(Servers) /\ Done(drains, x.draining) \subseteq Servers
    BY Zenon, <1>0, <1>2, NextDrain
  <1> HIDE DEF drains, s
  <1>4. CASE server' = [server EXCEPT ![p][s] = "draining"] /\ UNCHANGED proc
    <2>1. /\ DOMAIN server' = Processes /\ \A q \in Processes \ {p} : server'[q] = server[q]
          /\ server'[p] \in [Servers -> ServerStates]
          /\ \A n \in Servers \ {s} : server'[p][n] = server[p][n]
      BY Zenon, <1>0, <1>4 DEF ServerStates
    <2>2. OnlyMoves(p)
      BY <1>1, <1>4, <2>1 DEF OnlyMoves, ServiceInv
    <2>3. Quiet(Done(drains, x.draining), server'[p], work'[p])
      <3>1. work'[p] = work[p]
        BY Zenon, <1>1
      <3> QED BY Zenon, <1>2, <1>3, <2>1, <3>1, StillQuiet
    <2>4. Next1(p)
      BY Zenon, <1>0, <1>1, <1>2, <1>4, <2>1, <2>3 DEF At1, Next1, Orderly, Assembled, drains
    <2> QED BY <1>1, <2>2, <2>4, ProcessMoves
  <1>5. CASE /\ s \notin work[p] /\ server' = [server EXCEPT ![p][s] = "stopped"]
             /\ proc' = [proc EXCEPT ![p].draining = Tail(@)]
    <2>1. /\ DOMAIN server' = Processes /\ \A q \in Processes \ {p} : server'[q] = server[q]
          /\ server'[p] \in [Servers -> ServerStates] /\ server'[p][s] = "stopped"
          /\ \A n \in Servers \ {s} : server'[p][n] = server[p][n]
      BY <1>0, <1>3, <1>5 DEF ServerStates
    <2>2. /\ DOMAIN proc' = Processes /\ \A q \in Processes \ {p} : proc'[q] = proc[q]
          /\ proc'[p] \in ProcessState /\ proc'[p].phase = "drain" /\ proc'[p].open = x.open
          /\ proc'[p].outcome = x.outcome /\ proc'[p].draining = Tail(x.draining)
      BY Zenon, <1>0, <1>3, <1>5 DEF ProcessState
    <2>3. OnlyMoves(p)
      BY Zenon, <1>1, <2>1, <2>2 DEF OnlyMoves, ServiceInv
    <2>4. Quiet(Done(drains, Tail(x.draining)), server'[p], work'[p])
      BY <1>1, <1>2, <1>3, <1>5, <2>1 DEF Quiet, Servers
    <2>5. Next1(p)
      BY Zenon, <1>0, <1>1, <1>3, <2>1, <2>2, <2>4 DEF At1, Next1, Orderly, Assembled, drains
    <2> QED BY <1>1, <2>3, <2>5, ProcessMoves
  <1>6. CASE /\ s # "grpc" /\ proc' = [proc EXCEPT ![p].phase = "release", ![p].outcome = "timeout"]
             /\ UNCHANGED server
    <2>1. /\ DOMAIN proc' = Processes /\ \A q \in Processes \ {p} : proc'[q] = proc[q]
          /\ proc'[p] \in ProcessState /\ proc'[p].phase = "release" /\ proc'[p].open = x.open
          /\ proc'[p].outcome = "timeout" /\ proc'[p].draining = x.draining
      BY Zenon, <1>0, <1>6 DEF ProcessState, Phases
    <2>2. OnlyMoves(p)
      BY <1>1, <1>6, <2>1 DEF OnlyMoves, ServiceInv
    <2>3. Quiet(Range(drains) \ {s}, server'[p], work'[p])
      <3>1. Range(drains) \ {s} \subseteq Done(drains, x.draining)
        BY Zenon, <1>0, <1>2, <1>6, OneLeft DEF s
      <3>2. work'[p] = work[p] /\ server'[p] = server[p]
        BY Zenon, <1>1, <1>6
      <3> QED BY Zenon, <1>2, <3>1, <3>2 DEF Quiet
    <2>4. x.open = Program(p).opens /\ loadConfig(p) /\ work[p] \subseteq Servers
      BY Zenon, <1>0 DEF At1, Orderly, Assembled
    <2>5. Next1(p)
      BY Zenon, <1>0, <1>1, <1>6, <2>1, <2>3, <2>4 DEF Next1, Orderly, Assembled, drains, s
    <2> QED BY <1>1, <2>2, <2>5, ProcessMoves
  <1> QED BY Zenon, <1>4, <1>5, <1>6 DEF drain, s


\* drained: everything that is drained is quiet.
LEMMA DrainedKeeps ==
  ASSUME ServiceInv, NEW p \in Processes, drained(p)
  PROVE  ServiceInv'
PROOF
  <1>0. /\ At1(p) /\ proc[p].phase = "drain" /\ proc[p].draining = <<>> /\ DOMAIN proc = Processes
        /\ proc[p] \in ProcessState
    BY DEF ServiceInv, drained, At, At1, Orderly
  <1>1. UNCHANGED <<settings, server, work, runtime, refused>>
    BY DEF drained
  <1>2. proc' = [proc EXCEPT ![p].phase = "release", ![p].outcome = "clean"]
    BY DEF drained
  <1>3. /\ DOMAIN proc' = Processes /\ \A q \in Processes \ {p} : proc'[q] = proc[q]
        /\ proc'[p] \in ProcessState /\ proc'[p].phase = "release" /\ proc'[p].open = proc[p].open
        /\ proc'[p].outcome = "clean"
    BY Zenon, <1>0, <1>2 DEF ProcessState, Phases
  <1>4. Quiet(Range(Program(p).drains), server[p], work[p])
    BY Zenon, <1>0 DEF At1, Orderly, Done
  <1>5. OnlyMoves(p)
    BY Zenon, <1>1, <1>3 DEF OnlyMoves, ServiceInv
  <1>6. Next1(p)
    BY Zenon, <1>0, <1>1, <1>3, <1>4 DEF At1, Next1, Orderly, Assembled
  <1> QED BY <1>1, <1>5, <1>6, ProcessMoves

\* release: the runtime is closed first, then what was opened, the last one first.
LEMMA ReleaseKeeps ==
  ASSUME ServiceInv, NEW p \in Processes, release(p)
  PROVE  ServiceInv'
PROOF
  <1>0. /\ At1(p) /\ proc[p].phase = "release" /\ DOMAIN proc = Processes /\ DOMAIN runtime = Processes
        /\ proc[p] \in ProcessState
    BY DEF ServiceInv, release, At, At1, Orderly
  <1>1. UNCHANGED <<settings, refused>>
    BY DEF release
  <1>2. CASE runtime' = [runtime EXCEPT ![p] = "closed"] /\ UNCHANGED <<proc, server, work>>
    <2>1. OnlyMoves(p) /\ runtime'[p] = "closed"
      BY Zenon, <1>0, <1>1, <1>2 DEF OnlyMoves, ServiceInv
    <2>2. Next1(p)
      BY Zenon, <1>0, <1>2, <2>1 DEF At1, Next1, Orderly, Assembled, Connected
    <2> QED BY <1>1, <2>1, <2>2, ProcessMoves
  <1>3. CASE /\ runtime[p] \notin Connected /\ proc[p].open # <<>>
             /\ proc' = [proc EXCEPT ![p].open = SubSeq(@, 1, Len(@) - 1)] /\ UNCHANGED <<server, work, runtime>>
    <2>1. SubSeq(proc[p].open, 1, Len(proc[p].open) - 1) \in Seq(Resources)
      BY <1>0, <1>3 DEF ProcessState
    <2>2. /\ DOMAIN proc' = Processes /\ \A q \in Processes \ {p} : proc'[q] = proc[q]
          /\ proc'[p] \in ProcessState /\ proc'[p].phase = "release" /\ proc'[p].outcome = proc[p].outcome
          /\ proc'[p].draining = proc[p].draining
      BY Zenon, <1>0, <1>3, <2>1 DEF ProcessState
    <2>3. OnlyMoves(p)
      BY <1>1, <1>3, <2>2 DEF OnlyMoves, ServiceInv
    <2>4. Next1(p)
      BY <1>0, <1>3, <2>2 DEF At1, Next1, Orderly, Assembled
    <2> QED BY <1>1, <2>3, <2>4, ProcessMoves
  <1>4. CASE Gone(p, proc[p].outcome)
    BY Zenon, <1>0, <1>1, <1>4, GoneIsOrderly DEF ProcessState
  <1> QED BY <1>2, <1>3, <1>4 DEF release, Replicating, Connected

-----------------------------------------------------------------------------
(* The other goroutines and the world.                                     *)

\* A server starts, fails or ends its loop; none that was stopped serves again.
LEMMA ServerKeeps ==
  ASSUME ServiceInv, NEW p \in Processes, NEW s \in Servers,
         serverStarts(p, s) \/ serverFails(p, s) \/ (loopEnds(p) /\ s = "loop")
  PROVE  ServiceInv'
PROOF
  <1>0. /\ At1(p) /\ DOMAIN proc = Processes /\ DOMAIN server = Processes
        /\ proc[p] \in ProcessState /\ server[p] \in [Servers -> ServerStates]
    BY Zenon DEF ServiceInv, At1, Orderly
  <1>1. UNCHANGED <<settings, work, runtime, refused>> /\ server[p][s] \in {"starting", "serving"}
    BY DEF serverStarts, serverFails, loopEnds
  <1>2. PICK state \in ServerStates : server' = [server EXCEPT ![p][s] = state]
    BY DEF serverStarts, serverFails, loopEnds, ServerStates
  <1>3. /\ DOMAIN proc' = Processes /\ \A q \in Processes \ {p} : proc'[q] = proc[q]
        /\ proc'[p] \in ProcessState /\ proc'[p].phase = proc[p].phase /\ proc'[p].open = proc[p].open
        /\ proc'[p].outcome = proc[p].outcome /\ proc'[p].draining = proc[p].draining
    <2>1. CASE proc' = proc
      BY Zenon, <1>0, <2>1
    <2>2. CASE proc' = [proc EXCEPT ![p].errors = @ + 1]
      <3>1. proc[p].errors + 1 \in Nat
        <4>1. proc[p].errors \in Nat
          BY Zenon, <1>0 DEF ProcessState
        <4> QED BY <4>1
      <3> QED BY Zenon, <1>0, <2>2, <3>1 DEF ProcessState
    <2> QED BY <2>1, <2>2 DEF serverStarts, serverFails, loopEnds
  <1>4. /\ DOMAIN server' = Processes /\ \A q \in Processes \ {p} : server'[q] = server[q]
        /\ server'[p] \in [Servers -> ServerStates]
        /\ \A n \in Servers \ {s} : server'[p][n] = server[p][n]
    BY <1>0, <1>2
  <1>5. OnlyMoves(p)
    BY Zenon, <1>1, <1>3, <1>4 DEF OnlyMoves, ServiceInv
  <1>6. \A done : Quiet(done, server[p], work[p]) /\ done \subseteq Servers => Quiet(done, server'[p], work'[p])
    BY Zenon, <1>1, <1>4 DEF Quiet
  <1>7. Done(Program(p).drains, proc[p].draining) \subseteq Servers /\ Range(Program(p).drains) \subseteq Servers
    BY Zenon, ProgramIs, Drained DEF Done, Servers
  <1>8. proc[p].phase \notin {"absent", "start", "open", "build", "listen", "exited"} /\ loadConfig(p)
    BY Zenon, <1>0, <1>1 DEF At1, Orderly
  <1>9. Next1(p)
    BY Zenon, <1>0, <1>1, <1>3, <1>4, <1>6, <1>7, <1>8 DEF At1, Next1, Orderly, Assembled
  <1> QED BY Zenon, <1>1, <1>5, <1>9, ProcessMoves

\* A request begins at a server that serves, and ends anywhere.
LEMMA WorkKeeps ==
  ASSUME ServiceInv, NEW p \in Processes, NEW s \in Servers,
         UNCHANGED <<settings, proc, server, runtime, refused>>,
         \/ server[p][s] = "serving" /\ work' = [work EXCEPT ![p] = @ \cup {s}]
         \/ work' = [work EXCEPT ![p] = @ \ {s}]
  PROVE  ServiceInv'
PROOF
  <1>0. /\ At1(p) /\ DOMAIN work = Processes /\ work[p] \subseteq Servers
        /\ server[p] \in [Servers -> ServerStates]
    BY Zenon DEF ServiceInv, At1, Orderly
  <1>1. /\ DOMAIN work' = Processes /\ \A q \in Processes \ {p} : work'[q] = work[q]
        /\ work'[p] \subseteq Servers
        /\ \A n \in work'[p] \ work[p] : server[p][n] = "serving"
    <2>1. CASE server[p][s] = "serving" /\ work' = [work EXCEPT ![p] = @ \cup {s}]
      BY Zenon, <1>0, <2>1
    <2>2. CASE work' = [work EXCEPT ![p] = @ \ {s}]
      BY Zenon, <1>0, <2>2
    <2> QED BY Zenon, <2>1, <2>2
  <1>2. OnlyMoves(p)
    BY Zenon, <1>1 DEF OnlyMoves, ServiceInv
  <1>3. \A done : Quiet(done, server[p], work[p]) => Quiet(done, server'[p], work'[p])
    BY Zenon, <1>1 DEF Quiet
  <1>4. (\A n \in Servers : server[p][n] = "off") /\ work[p] = {} => work'[p] = {}
    BY Zenon, <1>1
  <1>5. Next1(p)
    BY Zenon, <1>0, <1>1, <1>3, <1>4 DEF At1, Next1, Orderly
  <1> QED BY Zenon, <1>2, <1>5, ProcessMoves

\* The replicator gives up while the runtime is connected.
LEMMA ReplicatorKeeps ==
  ASSUME ServiceInv, NEW p \in Processes, runReplicator(p)
  PROVE  ServiceInv'
PROOF
  <1>0. At1(p) /\ DOMAIN runtime = Processes
    BY Zenon DEF ServiceInv
  <1>1. /\ UNCHANGED <<settings, proc, server, work, refused>> /\ runtime[p] \in Connected
        /\ runtime' = [runtime EXCEPT ![p] = "failed"]
    BY DEF runReplicator, Connected
  <1>2. OnlyMoves(p)
    BY Zenon, <1>0, <1>1 DEF OnlyMoves, ServiceInv
  <1>3. Next1(p)
    BY Zenon, <1>0, <1>1 DEF At1, Next1, Orderly
  <1> QED BY Zenon, <1>1, <1>2, <1>3, ProcessMoves

\* Signals and restarts.
LEMMA WorldKeeps ==
  ASSUME ServiceInv, NEW p \in Processes, Signal(p) \/ Crash(p) \/ Kill(p) \/ Restart(p)
  PROVE  ServiceInv'
PROOF
  <1>0. At1(p) /\ DOMAIN proc = Processes /\ proc[p] \in ProcessState
    BY Zenon DEF ServiceInv, At1, Orderly
  <1>1. CASE Signal(p)
    <2>1. UNCHANGED <<settings, server, work, runtime, refused>>
      BY <1>1 DEF Signal
    <2>2. /\ DOMAIN proc' = Processes /\ \A q \in Processes \ {p} : proc'[q] = proc[q]
          /\ proc'[p] \in ProcessState /\ proc'[p].phase = proc[p].phase /\ proc'[p].open = proc[p].open
          /\ proc'[p].outcome = proc[p].outcome /\ proc'[p].draining = proc[p].draining
      BY Zenon, <1>0, <1>1 DEF Signal, ProcessState
    <2>3. OnlyMoves(p)
      BY Zenon, <2>1, <2>2 DEF OnlyMoves, ServiceInv
    <2>4. Next1(p)
      BY Zenon, <1>0, <2>1, <2>2 DEF At1, Next1, Orderly
    <2> QED BY <2>1, <2>3, <2>4, ProcessMoves
  <1>2. CASE Crash(p) \/ Kill(p)
    BY Zenon, <1>2, GoneIsOrderly DEF Crash, Kill
  <1>3. CASE Restart(p)
    <2>1. UNCHANGED <<settings, server, work, runtime, refused>> /\ proc[p].phase = "exited"
      BY <1>3 DEF Restart, At
    <2>2. DOMAIN proc' = Processes /\ (\A q \in Processes \ {p} : proc'[q] = proc[q]) /\ proc'[p] = Unstarted
      BY <1>0, <1>3 DEF Restart
    <2>3. OnlyMoves(p)
      BY Zenon, <2>1, <2>2 DEF OnlyMoves, ServiceInv
    <2>4. Next1(p)
      BY Zenon, <1>0, <2>1, <2>2, IdleState DEF At1, Next1, Orderly, Assembled
    <2> QED BY Zenon, <2>1, <2>3, <2>4, ProcessMoves
  <1> QED BY <1>1, <1>2, <1>3

-----------------------------------------------------------------------------
(* Requests.                                                               *)

\* What the Console dials with, once its production settings are accepted, suits an
\* API server with accepted production settings.
LEMMA ConsoleIsAccepted ==
  ASSUME NEW r \in Regions, loadConfig(r), loadConfig("console"), settings[r].production,
         settings["console"].production
  PROVE  Accepts(apiDialOptions(settings["console"]), r)
PROOF
  <1>1. apiLoadConfig(settings[r])
    BY RegionsHavePeers DEF loadConfig
  <1>2. consoleLoadConfig(settings["console"])
    BY RegionsHavePeers DEF loadConfig
  <1>3. "certificate" \in settings[r].given
    BY Zenon, <1>1 DEF apiLoadConfig, listenerSettings, Given
  <1>4. "apiCA" \in settings["console"].given /\ Given(settings["console"], {"apiCA", "clientCert"})
    BY Zenon, <1>2 DEF consoleLoadConfig, Given
  <1> QED BY Zenon, <1>3, <1>4 DEF Accepts, apiDialOptions, ServerTLSConfig

\* What a region dials its peer with suits the peer.
LEMMA PeerIsAccepted ==
  ASSUME NEW r \in Regions, NEW q \in Regions, loadConfig(r), loadConfig(q), settings[r].production,
         settings[q].production
  PROVE  Accepts(peerDialOptions(settings[r]), q)
PROOF
  <1>1. apiLoadConfig(settings[r]) /\ apiLoadConfig(settings[q])
    BY RegionsHavePeers DEF loadConfig
  <1>2. "certificate" \in settings[r].given /\ "certificate" \in settings[q].given
    BY Zenon, <1>1 DEF apiLoadConfig, listenerSettings, Given
  <1> QED BY Zenon, <1>2 DEF Accepts, peerDialOptions, ServerTLSConfig

\* A request that is sent on is accepted, or refused for settings that are not production's.
LEMMA ForwardKeeps ==
  ASSUME ServiceInv, NEW r \in Regions, ConsoleForwards(r) \/ GatewayForwards(r)
  PROVE  ServiceInv'
PROOF
  <1>0. r \in Processes /\ "console" \in Processes /\ "grpc" \in Servers
    BY DEF Processes, Servers
  <1>1. PICK kind \in {"console", "gateway"}, p \in Processes,
               offer \in {apiDialOptions(settings["console"]), gatewayDialOptions(settings[r])} :
          /\ kind = "console" => p = "console" /\ offer = apiDialOptions(settings["console"])
          /\ forward(kind, p, offer, r)
    BY <1>0 DEF ConsoleForwards, GatewayForwards
  <1>2. UNCHANGED <<settings, proc, server, runtime>> /\ "http" \in work[p] /\ server[r]["grpc"] = "serving"
    BY Zenon, <1>1 DEF forward
  <1>3. CASE Accepts(offer, r)
    <2>1. work' = [work EXCEPT ![r] = @ \cup {"grpc"}] /\ refused' = refused
      BY Zenon, <1>1, <1>3 DEF forward
    <2> QED BY Zenon, <1>0, <1>2, <2>1, WorkKeeps
  <1>4. CASE ~Accepts(offer, r)
    <2>1. work' = work /\ refused' = refused \cup {[kind |-> kind, from |-> p, to |-> r]}
      BY Zenon, <1>1, <1>4 DEF forward
    <2>2. loadConfig(p) /\ loadConfig(r)
      BY Zenon, <1>0, <1>2 DEF ServiceInv, At1, Orderly
    <2>3. kind = "gateway" \/ ~settings[p].production \/ ~settings[r].production
      BY Zenon, <1>1, <1>4, <2>2, ConsoleIsAccepted
    <2>4. \A d \in refused' : d.kind = "gateway" \/ ~(settings')[d.from].production \/ ~(settings')[d.to].production
      <3> SUFFICES ASSUME NEW d \in refused'
                   PROVE  d.kind = "gateway" \/ ~(settings')[d.from].production \/ ~(settings')[d.to].production
        BY Zenon
      <3>1. CASE d \in refused
        BY Zenon, <1>2, <3>1 DEF ServiceInv
      <3>2. CASE d = [kind |-> kind, from |-> p, to |-> r]
        <4>1. d.kind = kind /\ d.from = p /\ d.to = r
          BY Zenon, <3>2
        <4> QED BY Zenon, <1>2, <2>3, <4>1
      <3> QED BY Zenon, <2>1, <3>1, <3>2
    <2>5. \A q \in Processes : At1(q)'
      BY Zenon, <1>2, <2>1, SettingsDecide DEF ServiceInv, At1
    <2> QED BY Zenon, <1>2, <2>1, <2>4, <2>5 DEF ServiceInv
  <1> QED BY <1>3, <1>4

-----------------------------------------------------------------------------
(* The specification.                                                      *)

\* Processes that have not started are orderly.
LEMMA ServiceStarts == ServiceInit => ServiceInv
PROOF
  <1> SUFFICES ASSUME ServiceInit PROVE ServiceInv
    OBVIOUS
  <1>1. /\ server = [p \in Processes |-> [s \in Servers |-> "off"]] /\ work = [p \in Processes |-> {}]
        /\ runtime = [p \in Processes |-> "none"] /\ refused = {}
    BY DEF ServiceInit
  <1>2. PICK deployed \in SUBSET Processes :
          proc = [p \in Processes |-> IF p \in deployed THEN Unstarted ELSE [Unstarted EXCEPT !.phase = "absent"]]
    BY Zenon DEF ServiceInit
  <1>3. \A p \in Processes : At1(p)
    <2> TAKE p \in Processes
    <2>1. proc[p] \in ProcessState /\ proc[p].phase \in {"absent", "start"} /\ proc[p].open = <<>>
          /\ proc[p].outcome = "none"
      <3>1. [Unstarted EXCEPT !.phase = "absent"] \in ProcessState
        BY IdleState DEF ProcessState, Phases
      <3>2. CASE p \in deployed
        BY <1>2, <3>2, IdleState
      <3>3. CASE p \notin deployed
        BY <1>2, <3>1, <3>3, IdleState DEF ProcessState
      <3> QED BY Zenon, <3>2, <3>3
    <2>2. server[p] = [s \in Servers |-> "off"] /\ work[p] = {} /\ runtime[p] = "none"
      BY <1>1
    <2>3. server[p] \in [Servers -> ServerStates] /\ "none" \notin Connected
      BY <2>2 DEF ServerStates, Connected
    <2> QED BY Zenon, <2>1, <2>2, <2>3 DEF At1, Orderly, Assembled
  <1> QED BY <1>1, <1>2, <1>3 DEF ServiceInv

\* Every step keeps the processes orderly.
LEMMA ServiceKeeps == ServiceInv /\ [ServiceNext]_vars => ServiceInv'
PROOF
  <1> SUFFICES ASSUME ServiceInv, [ServiceNext]_vars PROVE ServiceInv'
    OBVIOUS
  <1>1. ASSUME NEW p \in Processes, ProcessStep(p) PROVE ServiceInv'
    <2>0. "loop" \in Servers
      BY DEF Servers
    <2>1. CASE Run(p)
      BY <2>1, MainKeeps, OpenKeeps, BuildKeeps, ListenKeeps, ServeKeeps, ConnectKeeps, AwaitKeeps, DrainKeeps,
         DrainedKeeps, ReleaseKeeps DEF Run
    <2>2. CASE Signal(p) \/ Crash(p) \/ Kill(p) \/ Restart(p)
      BY <2>2, WorldKeeps
    <2>3. CASE loopEnds(p) \/ \E s \in Servers : serverStarts(p, s) \/ serverFails(p, s)
      BY <2>0, <2>3, ServerKeeps
    <2>4. CASE runReplicator(p)
      BY <2>4, ReplicatorKeeps
    <2> QED BY Zenon, <1>1, <2>1, <2>2, <2>3, <2>4 DEF ProcessStep
  <1>2. ASSUME NEW p \in Processes, NEW s \in Servers, request(p, s) \/ answer(p, s) PROVE ServiceInv'
    BY Zenon, <1>2, WorkKeeps DEF request, answer
  <1>3. CASE UNCHANGED vars
    <2>1. UNCHANGED <<settings, proc, server, work, runtime, refused>>
      BY <1>3 DEF vars
    <2>2. \A q \in Processes : At1(q)'
      BY Zenon, <2>1, SettingsDecide DEF ServiceInv, At1
    <2> QED BY Zenon, <2>1, <2>2 DEF ServiceInv
  <1> QED BY <1>1, <1>2, <1>3, ForwardKeeps DEF ServiceNext, RequestStep

\* Every process is orderly at every moment.
LEMMA ServicesAreOrderly == ServiceSpec => []ServiceInv
PROOF
  BY ServiceStarts, ServiceKeeps, PTL DEF ServiceSpec

(* A run that waits for a signal and gets it closes nothing before every    *)
(* server it drains is quiet and the replication runtime is closed; after a *)
(* time-out of Shutdown only the server it waited for may have a request in *)
(* progress: for any number of regions, any settings, and any interleaving  *)
(* of servers, requests, failures, crashes and restarts.                    *)
THEOREM ShutdownDrainsFirst == ServiceSpec => []DrainedBeforeClosed
PROOF
  <1>1. ServiceInv => DrainedBeforeClosed
    <2> SUFFICES ASSUME ServiceInv, NEW p \in Processes, At(p, "release"), proc[p].outcome \in {"clean", "timeout"},
                        proc[p].open # Program(p).opens
                 PROVE  /\ ~Replicating(p)
                        /\ \A s \in Range(Program(p).drains) \cap work[p] :
                             proc[p].outcome = "timeout" /\ s = Head(proc[p].draining)
      BY Zenon DEF DrainedBeforeClosed
    <2>1. At1(p)
      BY Zenon DEF ServiceInv
    <2>2. ~Replicating(p)
      BY Zenon, <2>1 DEF At1, Orderly, Replicating, Connected
    <2> QED BY Zenon, <2>1, <2>2 DEF At1, At, Orderly, Quiet
  <1> QED BY <1>1, ServicesAreOrderly, PTL

(* Processes that accepted their production settings can talk: the Console  *)
(* to every API server and every region to its peer, for any number of      *)
(* regions and any settings.                                                *)
THEOREM ProductionSettingsMatch == ServiceSpec => []DialsAreAccepted
PROOF
  <1>1. ServiceInv => DialsAreAccepted
    <2> SUFFICES ASSUME ServiceInv, NEW r \in Regions, At(r, "connect"), loadConfig(Peer(r)),
                        settings[r].production, settings[Peer(r)].production
                 PROVE  Accepts(peerDialOptions(settings[r]), Peer(r))
      BY Zenon DEF DialsAreAccepted, ServiceInv
    <2>1. At1(r) /\ r \in Processes
      BY Zenon DEF ServiceInv, Processes
    <2>2. loadConfig(r)
      BY Zenon, <2>1 DEF At1, At, Orderly
    <2>3. Peer(r) \in Regions
      BY RegionsHavePeers DEF Peer
    <2> QED BY <2>2, <2>3, PeerIsAccepted
  <1> QED BY <1>1, ServicesAreOrderly, PTL

===============================================================================
