----------------------------- MODULE AccessControl -----------------------------
(***************************************************************************)
(* The API server's guard (api-server/internal/authn, auth.                *)
(* ContextAuthorizer) and AccessService behind it, with astra-auth-admin   *)
(* beside them.  A call reads its principal in three statements, is        *)
(* authorized by the interceptor, authorized again by most handlers and    *)
(* then executed; other calls and the operator act between any two steps.  *)
(* A token's signature is the subject of SigningKeys; here a token is one  *)
(* the validator accepts, or is refused.                                   *)
(***************************************************************************)
EXTENDS AccessStore

CONSTANTS
    Calls,         \* calls the API server handles; each is used once
    MaxRevision,   \* bound: policy revision of a tenant
    MaxOperations  \* bound: commands of the operator

VARIABLES
    calls,     \* progress of every call
    operator   \* astra-auth-admin: the command confirmed last, and how many were run

accessVars == <<calls, operator>>

---------------------------------------------------------------------------
(* The permission and the scope of every method.                            *)
Policy(permission, scope, methods) == [permission |-> permission, scope |-> scope, methods |-> methods]
Policies ==
    {Policy("jobs.create", "namespace", {"CreateJob", "ValidateJobSpec(CREATE)"}),
     Policy("jobs.update", "namespace", {"UpdateJob", "ValidateJobSpec(UPDATE)"}),
     Policy("jobs.start", "namespace", {"StartJob", "ValidateJobSpec(START)"}),
     Policy("jobs.stop", "namespace", {"StopJob"}), Policy("jobs.delete", "namespace", {"DeleteJob"}),
     Policy("jobs.read", "namespace", {"GetJob", "ListJobs", "GetJobStatus"}),
     Policy("connectors.read", "tenant", {"ListConnectorDescriptors", "GetConnectorDescriptor"}),
     Policy("connections.create", "tenant", {"CreateConnection"}), Policy("connections.update", "tenant", {"UpdateConnection"}),
     Policy("connections.rotate", "tenant", {"RotateConnection"}), Policy("connections.delete", "tenant", {"DeleteConnection"}),
     Policy("connections.disable", "tenant", {"EnableConnection", "DisableConnection"}),
     Policy("connections.test", "tenant", {"TestConnection", "GetConnectionTest"}),
     Policy("connections.read", "tenant", {"GetConnection", "ListConnections"}),
     Policy("audit.read", "tenant", {"ListAuditEvents"}), Policy("members.read", "tenant", {"ListMembers"}),
     Policy("members.manage", "tenant", {"GrantTenantRole", "RevokeTenantRole"}), Policy("members.read", "self", {"ListRoles"}),
     Policy("platform.roles.manage", "self", {"GrantPlatformRole", "RevokePlatformRole", "RevokeConsoleSession"}),
     Policy("diagnostics.read", "self", {"GetCurrentPrincipal", "ListTenants", "GetRegionTopology", "PushCheckpoint",
                                         "ReportReplicationStatus", "PromoteRegion", "GetPromotionStatus", "RecoverForPromotion"})}
Registry == [m \in UNION {p.methods : p \in Policies} |-> CHOOSE p \in Policies : m \in p.methods]

(* Methods whose handler authorizes the call a second time; the Job methods *)
(* rely on the interceptor.                                                 *)
AuthorizedTwice == {m \in DOMAIN Registry : Registry[m].scope = "tenant"}
PlatformOnly == {"GrantPlatformRole", "RevokePlatformRole", "RevokeConsoleSession"}

---------------------------------------------------------------------------
Idle == [phase |-> "new", method |-> "none", caller |-> "none", scope |-> "none", declared |-> {}, target |-> "none",
         role |-> "none", expected |-> 0, view |-> Nobody, tenant |-> "none"]

AccessInit == calls = [c \in Calls |-> Idle] /\ operator = [done |-> "none", about |-> "none", count |-> 0]

(* The tenant of that identifier, or else the one of that namespace.        *)
MembershipForScope(view, scope) ==
    LET found == {t \in Tenants : view.member[t].found}
    IN  IF scope \in found THEN {scope} ELSE {t \in found : view.member[t].namespace = scope}

Moves(c, phase) == calls' = [calls EXCEPT ![c].phase = phase]
Refused(c) == Moves(c, "refused") /\ UNCHANGED storeVars

(* A request arrives with its bearer token, the tenant it declares in its   *)
(* metadata if any, and, for a change of a role, the revision the client    *)
(* read before.                                                             *)
Receive(c, request) ==
    /\ calls[c].phase = "new"
    /\ calls' = [calls EXCEPT ![c] =
                    [Idle EXCEPT !.phase = "authenticate", !.method = request.method, !.caller = request.caller, !.scope = request.scope,
                                 !.declared = request.declared, !.target = request.target, !.role = request.role,
                                 !.expected = IF request.scope \in Tenants THEN tenants[request.scope].revision ELSE 0]]
    /\ UNCHANGED <<storeVars, operator>>

(* The validator's verdict, the insert of a new principal and the read of   *)
(* its status.                                                              *)
Authenticate(c, valid) ==
    /\ calls[c].phase = "authenticate"
    /\ principals' = IF valid THEN materialize(calls[c].caller) ELSE principals
    /\ Moves(c, IF valid /\ principals'[calls[c].caller] = "ACTIVE" THEN "memberships" ELSE "refused")
    /\ UNCHANGED <<tenants, memberships, platformRoles, sessions, audit, operator>>

ReadMemberships(c) ==
    /\ calls[c].phase = "memberships"
    /\ calls' = [calls EXCEPT ![c].phase = "platform",
                              ![c].view = [active |-> TRUE, admin |-> FALSE, member |-> membershipRows(calls[c].caller)]]
    /\ UNCHANGED <<storeVars, operator>>

ReadPlatformRole(c) ==
    /\ calls[c].phase = "platform"
    /\ calls' = [calls EXCEPT ![c].phase = "authorize",
                              ![c].view = [calls[c].view EXCEPT !.admin = platformRoles[calls[c].caller] = "ACTIVE",
                                                                !.member = loadPlatformRole(calls[c].caller, @)]]
    /\ UNCHANGED <<storeVars, operator>>

---------------------------------------------------------------------------
Has(membership, permission) == membership.role \in DOMAIN PermissionsForRole /\ permission \in PermissionsForRole[membership.role]

(* A decision rests on the memberships read before; the revision read now   *)
(* must still be the one they were read at.                                 *)
AuthorizeUnfenced(view, t, permission) ==
    /\ t \in Tenants /\ view.active /\ view.member[t].found /\ view.member[t].active
    /\ Has(view.member[t], permission)
    /\ CurrentPolicyRevision(t) # {}
Authorize(view, t, permission) ==
    /\ t \in Tenants /\ view.active /\ view.member[t].found /\ view.member[t].active
    /\ Has(view.member[t], permission)
    /\ CurrentPolicyRevision(t) = {view.member[t].revision}

principalHasPermission(view, permission) ==
    view.admin \/ \E t \in Tenants : view.member[t].active /\ Has(view.member[t], permission)

(* An absent declaration is accepted, one that names another tenant is not. *)
reconcileTenantMetadata(declared, t) == declared = {} \/ declared = {t}

(* The tenant the interceptor settles on, if it lets the call through.      *)
Admitted(call) ==
    {t \in MembershipForScope(call.view, call.scope) :
        reconcileTenantMetadata(call.declared, t) /\ Authorize(call.view, t, Registry[call.method].permission)}

Unary(c) ==
    LET call == calls[c]
        policy == Registry[call.method]
    IN  /\ call.phase = "authorize"
        /\ IF policy.scope = "self"
           THEN Moves(c, IF principalHasPermission(call.view, policy.permission) THEN "handle" ELSE "refused")
           ELSE \/ \E t \in Admitted(call) : calls' = [calls EXCEPT ![c].phase = "handle", ![c].tenant = t]
                \/ Admitted(call) = {} /\ Moves(c, "refused")
        /\ UNCHANGED <<storeVars, operator>>

(* What the handler checks before it acts.                                  *)
HandlerAllows(call) ==
    /\ call.method \in AuthorizedTwice => Authorize(call.view, call.scope, Registry[call.method].permission)
    /\ call.method \in PlatformOnly => call.view.admin
Handle(c) ==
    /\ calls[c].phase = "handle"
    /\ Moves(c, IF HandlerAllows(calls[c]) THEN "execute" ELSE "refused")
    /\ UNCHANGED <<storeVars, operator>>

---------------------------------------------------------------------------
(* The handler acts.  A transaction that fails leaves no trace.             *)
Room(t) == tenants[t].revision < MaxRevision
ExecuteGrant(c) == calls[c].method = "GrantTenantRole" /\ Room(calls[c].scope) /\ GrantTenantRole(calls[c].scope, calls[c].target, calls[c].role)
ExecuteRevoke(c) == calls[c].method = "RevokeTenantRole" /\ Room(calls[c].scope) /\ RevokeTenantRole(calls[c].scope, calls[c].target)
ExecutePlatform(c) ==
    \/ calls[c].method = "GrantPlatformRole" /\ GrantPlatformRole(calls[c].target)
    \/ calls[c].method = "RevokePlatformRole" /\ RevokePlatformRole(calls[c].target)
    \/ calls[c].method = "RevokeConsoleSession" /\ RevokeConsoleSessionsForPrincipal(calls[c].target)
(* The principal is read once more and must still be active.                *)
GetCurrentPrincipal(c) == calls[c].method = "GetCurrentPrincipal" /\ principals[calls[c].caller] = "ACTIVE" /\ UNCHANGED storeVars
ActsItself == PlatformOnly \union {"GrantTenantRole", "RevokeTenantRole", "GetCurrentPrincipal"}
Execute(c) ==
    /\ calls[c].phase = "execute"
    /\ Moves(c, "served")
    /\ \/ ExecuteGrant(c) \/ ExecuteRevoke(c) \/ ExecutePlatform(c) \/ GetCurrentPrincipal(c)
       \/ calls[c].method \notin ActsItself /\ UNCHANGED storeVars
    /\ UNCHANGED operator
Fails(c) == calls[c].phase \in {"memberships", "platform", "authorize", "handle", "execute"} /\ Refused(c) /\ UNCHANGED operator

---------------------------------------------------------------------------
(* The operator's commands, each confirmed on its output.                   *)
Confirms(command, about) ==
    /\ operator.count < MaxOperations
    /\ operator' = [done |-> command, about |-> about, count |-> operator.count + 1]
    /\ UNCHANGED calls
bootstrapTenant(t, namespace, p) == BootstrapTenant(t, namespace, p) /\ Confirms("bootstrap-tenant", p)
bootstrapPlatformAdmin(p) == BootstrapPlatformAdmin(p) /\ Confirms("bootstrap-platform-admin", p)
disablePrincipal(p) == SetPrincipalStatus(p, "DISABLED") /\ Confirms("disable-principal", p)
setTenantStatus(t, status) == SetTenantStatus(t, status) /\ Confirms("set-tenant-status", t)
revokeSessions(p) == RevokeSessionsForPrincipal(p) /\ Confirms("revoke-session", p)

CallStep(c) ==
    \/ \E valid \in BOOLEAN : Authenticate(c, valid)
    \/ ReadMemberships(c) \/ ReadPlatformRole(c) \/ Unary(c) \/ Handle(c) \/ Execute(c) \/ Fails(c)
OperatorStep ==
    \/ \E p \in Principals : bootstrapPlatformAdmin(p) \/ disablePrincipal(p) \/ revokeSessions(p)
    \/ \E t \in Tenants, namespace \in Namespaces, p \in Principals : bootstrapTenant(t, namespace, p)
    \/ \E t \in Tenants, status \in {"ACTIVE", "SUSPENDED"} : setTenantStatus(t, status)

(* Calls of any method by anyone, and the operator, from an empty database. *)
WithTarget == PlatformOnly \union {"GrantTenantRole", "RevokeTenantRole"}
ApiCalls ==
    {request \in [method : DOMAIN Registry, caller : Principals, scope : Tenants \union Namespaces \union {"none"},
                  declared : {{}} \union {{t} : t \in Tenants}, target : Principals \union {"none"}, role : validTenantRole \union {"none"}] :
        request.method \in WithTarget => request.target \in Principals}
AccessNext == (\E c \in Calls : CallStep(c) \/ \E request \in ApiCalls : Receive(c, request)) \/ OperatorStep
AccessSpec == EmptyStore /\ AccessInit /\ [][AccessNext]_<<storeVars, accessVars>>

---------------------------------------------------------------------------
(* What the store grants at this moment.                                    *)
Granted(t, p, permission) ==
    /\ tenants[t].status = "ACTIVE" /\ memberships[t][p].status = "ACTIVE"
    /\ Has(memberships[t][p], permission)

(* The policy revision of a tenant counts the changes of its memberships    *)
(* that the audit trail shows: no change without its event and none         *)
(* without its revision, whatever fails in between                          *)
(* (auth/postgres/repository.go, GrantTenantRole and RevokeTenantRole).     *)
ChangesAreCounted == \A t \in Tenants : tenants[t] # NoTenant => tenants[t].revision = 1 + audit.changes[t]

Passes(c) ==
    \/ calls[c].phase = "authorize" /\ calls'[c].phase = "handle" /\ calls'[c].tenant # "none"
    \/ calls[c].phase = "handle" /\ calls'[c].phase = "execute" /\ calls[c].method \in AuthorizedTwice

(* A decision for a tenant is never made on a role that was changed or      *)
(* taken away after the request read it: whenever the interceptor or a      *)
(* handler lets a member's call pass, the store grants the permission at    *)
(* that very moment (auth/authorizer.go, the comparison of revisions).      *)
(* A platform administrator's access is exempt: no revision moves with it.  *)
(* It rests on revisions that count every change (see ChangesAreCounted).   *)
DecisionsAreCurrent ==
    [][ChangesAreCounted' /\ \A c \in Calls :
          (Passes(c) /\ calls[c].view.member[calls'[c].tenant].role # "platform_admin")
             => Granted(calls'[c].tenant, calls[c].caller, Registry[calls[c].method].permission)]_<<storeVars, accessVars>>

(* A change of a role is made at the revision its client read, as           *)
(* access.proto says of expected_authz_revision.                            *)
GrantsAreFenced ==
    [][\A c \in Calls :
          (calls[c].phase = "execute" /\ calls'[c].phase = "served" /\ calls[c].method \in {"GrantTenantRole", "RevokeTenantRole"})
             => tenants[calls[c].scope].revision = calls[c].expected]_<<storeVars, accessVars>>

(* After a confirmed bootstrap-tenant the administrator it names may use    *)
(* the system, as the runbook for revoked sessions says.                    *)
BootstrapReenables == operator.done = "bootstrap-tenant" => principals[operator.about] = "ACTIVE"
================================================================================
