-------------------------------- MODULE MCAccess --------------------------------
(***************************************************************************)
(* Three tenants and three identities: calls of the API server beside the    *)
(* operator, the Console in front of it, Console sessions, listings and    *)
(* the cache of signing keys.  A behaviour has a focus, the part that      *)
(* moves; the rest keeps its initial state.                                *)
(***************************************************************************)
EXTENDS ConsoleRequests, ConsoleSessions, AccessListings, SigningKeys

CONSTANTS ann, bob, eve, t1, t2, t3, n1, n2, n3

VARIABLE focus

---------------------------------------------------------------------------
(* Calls: ann administers t1, bob operates it, eve is unknown so far.       *)
Request(method, caller, scope, declared, target, role) ==
    [method |-> method, caller |-> caller, scope |-> scope, declared |-> declared, target |-> target, role |-> role]
ApiRequests ==
    {Request("GrantTenantRole", ann, t1, {}, bob, "tenant_viewer"), Request("GrantTenantRole", ann, t1, {}, bob, "tenant_admin"),
     Request("GrantTenantRole", bob, t1, {}, ann, "tenant_viewer"),
     Request("RevokeTenantRole", ann, t1, {}, bob, "none"), Request("RevokeTenantRole", bob, t1, {}, ann, "none"),
     Request("CreateJob", bob, n1, {t1}, "none", "none"), Request("CreateJob", bob, n1, {t2}, "none", "none"),
     Request("GetCurrentPrincipal", ann, "none", {}, "none", "none"), Request("GrantPlatformRole", ann, "none", {}, bob, "none"),
     Request("RevokePlatformRole", ann, "none", {}, ann, "none"), Request("RevokeConsoleSession", ann, "none", {}, bob, "none"),
     Request("GetConnection", eve, t1, {}, "none", "none")}

Order == <<ann, bob, eve>>
TenantsInOrder == <<t1, t2, t3>>
Row(role) == [role |-> role, status |-> "ACTIVE"]
Founded(there) ==
    [t \in Tenants |-> IF t \in there THEN [status |-> "ACTIVE", namespace |-> IF t = t1 THEN n1 ELSE n2, revision |-> 1] ELSE NoTenant]
Nowhere == [p \in Principals |-> NoMembership]
StaffOf(t) == IF t = t1 THEN [Nowhere EXCEPT ![ann] = Row("tenant_admin"), ![bob] = Row("tenant_operator")] ELSE Nowhere

(* The session of ann as a sign-in leaves it, with and without a refresh    *)
(* token.                                                                   *)
SignedIn ==
    {[principal |-> ann, tokens |-> [id |-> 1, expires |-> TokenTTL, refresh |-> 1], revision |-> 1, idle |-> IdleTTL, absolute |-> AbsoluteTTL],
     [principal |-> ann, tokens |-> [id |-> 1, expires |-> TokenTTL, refresh |-> 0], revision |-> 1, idle |-> Earliest(IdleTTL, TokenTTL),
      absolute |-> Earliest(AbsoluteTTL, TokenTTL)]}

---------------------------------------------------------------------------
allVars == <<focus, storeVars, accessVars, consoleVars, sessionVars, listingVars, keyVars>>

Init ==
    /\ focus \in {"api", "console", "login", "sessions", "members", "tenants", "audit", "pages", "keys"}
    /\ AccessInit
    /\ IF focus = "sessions"
       THEN \E row \in SignedIn :
               /\ now = 0 /\ issued = 1 /\ minted = {"s1"} /\ served = {[session |-> "s1", revision |-> 1, tokens |-> row.tokens]}
               /\ logins = [l \in Logins |-> [phase |-> "consumed", expires |-> LoginTTL]]
               /\ requests = [[r \in Requests |-> Fresh] EXCEPT ![1] =
                                 [Fresh EXCEPT !.kind = "callback", !.phase = "served", !.login = "l1", !.principal = ann, !.session = "s1",
                                               !.record = row, !.next = row.tokens]]
               /\ sessions = [s \in Sessions |-> IF s = "s1" THEN {row} ELSE {}]
               /\ audit = [NoAudit EXCEPT !.signIns[ann] = 1]
       ELSE SessionsInit /\ audit = NoAudit /\ sessions = [s \in Sessions |-> {}]
    /\ KeysInit /\ published = {1}
    /\ ConsoleInit /\ console.namespace # {n3} /\ (focus = "console" \/ console = [namespace |-> {}, legacy |-> FALSE])
    /\ ListingsInit /\ (focus = "audit" \/ events = {}) /\ (focus = "pages" \/ stored = {})
    /\ principals = (ann :> "ACTIVE" @@ bob :> "ACTIVE" @@ eve :> "none")
    /\ tenants = Founded(IF focus = "api" THEN {t1} ELSE {t1, t2})
    /\ memberships = [t \in Tenants |-> IF t = t2 /\ focus \in {"console", "members", "tenants"} THEN [Nowhere EXCEPT ![ann] = Row("tenant_viewer")]
                                        ELSE StaffOf(t)]
    /\ platformRoles = [p \in Principals |-> IF p = ann /\ focus \in {"api", "members", "tenants"} THEN "ACTIVE" ELSE "none"]

CallsStep ==
    /\ focus = "api" \/ focus = "console"
    /\ \E c \in Calls : CallStep(c)
    /\ UNCHANGED <<focus, consoleVars, sessionVars, listingVars, keyVars>>
ApiStep ==
    /\ focus = "api" /\ UNCHANGED <<focus, consoleVars, sessionVars, listingVars, keyVars>>
    /\ \/ \E c \in {1, 2}, request \in ApiRequests : (calls[1].phase = "new" => c = 1) /\ Receive(c, request)
       \/ OperatorStep /\ tenants'[t3] = NoTenant /\ tenants'[t2].namespace # n3

(* Policy changes of others while the Console is at work ...                *)
PolicyChange ==
    \/ Room(t1) /\ (GrantTenantRole(t1, ann, "tenant_operator") \/ RevokeTenantRole(t1, ann))
    \/ Room(t2) /\ RevokeTenantRole(t2, ann)
    \/ BootstrapTenant(t1, n1, eve)
(* ... and while a platform administrator lists: members and tenants come,  *)
(* tenants go and come back.                                                *)
ListedChange ==
    \/ Room(t1) /\ \E p \in {ann, eve} : GrantTenantRole(t1, p, "tenant_admin") \/ RevokeTenantRole(t1, p)
    \/ Room(t2) /\ RevokeTenantRole(t2, ann)
    \/ BootstrapTenant(t1, n1, eve) \/ BootstrapTenant(t3, n3, bob)
    \/ \E status \in {"ACTIVE", "SUSPENDED"} : SetTenantStatus(t3, status)
    \/ RevokePlatformRole(ann) /\ audit.platform = 0
    \/ SetPrincipalStatus(ann, "DISABLED")

(* Every handler once, with nothing wrong or one thing; two in every        *)
(* deployment, for every tenant.                                            *)
SomeFlaws == {{}} \union {{f} : f \in {"origin", "csrf", "content type", "body", "version", "spec", "purpose", "name", "namespace", "binding",
                                      "pagination", "state", "operation", "outcome"}}
ConsoleStep ==
    /\ focus = "console" /\ UNCHANGED <<focus, sessionVars, listingVars, keyVars>>
    /\ \/ \E p \in {ann, bob}, requested \in {{}, {t1}, {t2}} :
             createJob(1, p, Scope(Seen(p), requested), {}) \/ listConnections(1, p, Scope(Seen(p), requested), {})
       \/ console.namespace = {} /\ \E flaws \in SomeFlaws : Handles(1, ann, Scope(Seen(ann), {t1}), flaws)
       \/ BrowserStep(1) /\ \A c, d \in Calls : d < c /\ calls'[c].phase # "new" => calls'[d].phase # "new"
       \/ PolicyChange /\ UNCHANGED <<accessVars, consoleVars>>

SessionStep ==
    /\ focus = "sessions" \/ focus = "login"
    /\ UNCHANGED <<focus, accessVars, consoleVars, listingVars, keyVars>>
    /\ \/ Tick \/ \E l \in Logins : BeginLogin(l)
       \/ \E r \in Requests : (focus = "login" => r < 3) /\ RequestStep(r)
       \/ (SetPrincipalStatus(ann, "DISABLED") \/ RevokeSessionsForPrincipal(ann)) /\ UNCHANGED sessionVars

ListStep ==
    /\ UNCHANGED <<focus, accessVars, consoleVars, sessionVars, keyVars>>
    /\ \/ focus = "members" /\ MembersStep
       \/ focus = "tenants" /\ TenantsStep
       \/ focus \in {"members", "tenants"} /\ ListedChange /\ UNCHANGED listingVars
       \/ focus = "audit" /\ AuditStep
       \/ focus = "pages" /\ JobListStep

CacheStep == focus = "keys" /\ KeyStep /\ UNCHANGED <<focus, storeVars, accessVars, consoleVars, sessionVars, listingVars>>

Next == CallsStep \/ ApiStep \/ ConsoleStep \/ SessionStep \/ ListStep \/ CacheStep
Spec == Init /\ [][Next]_allVars
=================================================================================
