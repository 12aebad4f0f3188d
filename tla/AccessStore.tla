------------------------------ MODULE AccessStore ------------------------------
(***************************************************************************)
(* The tables of control-plane/auth/postgres: principals, tenants with     *)
(* their policy revision, tenant memberships, platform roles and Console   *)
(* sessions, and how many security audit events of the kinds the           *)
(* properties count were written.  Each operation is one transaction; one  *)
(* that fails changes nothing and is a stuttering step.  The operations of *)
(* astra-auth-admin are the actions at the end.                            *)
(***************************************************************************)
EXTENDS Naturals, FiniteSets

CONSTANTS
    Principals,   \* external identities (issuer, subject); each has at most one principal row
    Tenants,      \* tenant UUIDs
    Namespaces    \* namespace slugs

VARIABLES
    principals,     \* status of each identity's principal row
    tenants,        \* status, namespace and authz_revision of each tenant
    memberships,    \* memberships[t][p]: role and status of the row
    platformRoles,  \* status of the platform_admin row of each principal
    sessions,       \* Console session rows: for each session identifier a set of at most one row
    audit           \* number of events: changes per tenant, platform changes, sign-ins per principal

storeVars == <<principals, tenants, memberships, platformRoles, sessions, audit>>
policyVars == <<principals, tenants, memberships, platformRoles>>

---------------------------------------------------------------------------
(* Roles and what they permit.                                              *)
allConnectionPermissions ==
    {"connectors.read", "connections.read", "connections.create", "connections.update", "connections.use",
     "connections.test", "connections.rotate", "connections.disable", "connections.delete"}
allTenantPermissions ==
    {"jobs.read", "jobs.create", "jobs.update", "jobs.start", "jobs.stop", "jobs.delete",
     "members.read", "members.manage", "audit.read"} \union allConnectionPermissions
PermissionsForRole ==
    [tenant_viewer   |-> {"jobs.read", "connectors.read"},
     tenant_operator |-> {"jobs.read", "jobs.create", "jobs.update", "jobs.start", "jobs.stop", "connectors.read",
                          "connections.read", "connections.use", "connections.test"},
     tenant_auditor  |-> {"jobs.read", "members.read", "audit.read", "connectors.read"},
     tenant_admin    |-> allTenantPermissions,
     platform_admin  |-> allTenantPermissions \union {"tenants.create", "platform.roles.manage", "diagnostics.read"}]

validTenantRole == {"tenant_viewer", "tenant_operator", "tenant_auditor", "tenant_admin"}
NoTenant == [status |-> "none", namespace |-> "none", revision |-> 0]
NoMembership == [role |-> "none", status |-> "none"]
NoAudit == [changes |-> [t \in Tenants |-> 0], platform |-> 0, signIns |-> [p \in Principals |-> 0]]
EmptyStore ==
    /\ principals = [p \in Principals |-> "none"] /\ platformRoles = [p \in Principals |-> "none"] /\ audit = NoAudit
    /\ tenants = [t \in Tenants |-> NoTenant] /\ memberships = [t \in Tenants |-> [p \in Principals |-> NoMembership]]

---------------------------------------------------------------------------
(* What a request learns about its principal: three statements that no      *)
(* transaction joins.                                                       *)

(* A tenant as one membership presents it.                                  *)
Membership(t, role, active) ==
    [found |-> TRUE, active |-> active, role |-> role, namespace |-> tenants[t].namespace, revision |-> tenants[t].revision]
NotFound == [found |-> FALSE, active |-> FALSE, role |-> "none", namespace |-> "none", revision |-> 0]
Nobody == [active |-> FALSE, admin |-> FALSE, member |-> [t \in Tenants |-> NotFound]]

(* The insert of a principal that is new; one that exists keeps its status. *)
materialize(p) == [principals EXCEPT ![p] = IF @ = "none" THEN "ACTIVE" ELSE @]

(* The membership rows of p joined with their tenants.                      *)
membershipRows(p) ==
    [t \in Tenants |->
        IF memberships[t][p] = NoMembership THEN NotFound
        ELSE Membership(t, memberships[t][p].role, tenants[t].status = "ACTIVE" /\ memberships[t][p].status = "ACTIVE")]

(* Every active tenant a platform administrator has no row in.              *)
loadPlatformRole(p, member) ==
    [t \in Tenants |->
        IF platformRoles[p] = "ACTIVE" /\ ~member[t].found /\ tenants[t].status = "ACTIVE"
        THEN Membership(t, "platform_admin", TRUE) ELSE member[t]]

(* The memberships of p as they are at one moment.                          *)
Seen(p) == loadPlatformRole(p, membershipRows(p))

(* authz_revision of an active tenant; none otherwise.                      *)
CurrentPolicyRevision(t) == IF tenants[t].status = "ACTIVE" THEN {tenants[t].revision} ELSE {}

(* The tenant as a listing shows it; tenants are never deleted.             *)
ReadTenant(t) == {tenants[t]} \ {NoTenant}

LoadTenantMembers(t) == {p \in Principals : memberships[t][p] # NoMembership}

---------------------------------------------------------------------------
(* The transactions of AccessService.  Each writes its audit event itself.  *)
bumpedWhileActive(t) == [tenants EXCEPT ![t].revision = IF tenants[t].status = "ACTIVE" THEN @ + 1 ELSE @]
bumped(t) == [tenants EXCEPT ![t].revision = @ + 1]
changed(t) == [audit EXCEPT !.changes[t] = @ + 1]

GrantTenantRole(t, p, role) ==
    /\ role \in validTenantRole /\ tenants[t] # NoTenant /\ principals[p] # "none"
    /\ memberships' = [memberships EXCEPT ![t][p] = [role |-> role, status |-> "ACTIVE"]]
    /\ tenants' = bumped(t) /\ audit' = changed(t)
    /\ UNCHANGED <<principals, platformRoles, sessions>>

(* A membership that never existed is stored as a disabled viewer.          *)
RevokeTenantRole(t, p) ==
    /\ tenants[t] # NoTenant /\ principals[p] # "none"
    /\ memberships' = [memberships EXCEPT ![t][p] =
                          [role |-> IF @ = NoMembership THEN "tenant_viewer" ELSE @.role, status |-> "DISABLED"]]
    /\ tenants' = bumped(t) /\ audit' = changed(t)
    /\ UNCHANGED <<principals, platformRoles, sessions>>

SetPlatformRole(p, status) ==
    /\ principals[p] # "none"
    /\ platformRoles' = [platformRoles EXCEPT ![p] = status]
    /\ audit' = [audit EXCEPT !.platform = @ + 1]
    /\ UNCHANGED <<principals, tenants, memberships, sessions>>
GrantPlatformRole(p) == SetPlatformRole(p, "ACTIVE")
RevokePlatformRole(p) == SetPlatformRole(p, "DISABLED")

withoutSessionsOf(p) == [s \in DOMAIN sessions |-> {row \in sessions[s] : row.principal # p}]
RevokeConsoleSessionsForPrincipal(p) ==
    /\ sessions' = withoutSessionsOf(p)
    /\ audit' = [audit EXCEPT !.platform = @ + 1]
    /\ UNCHANGED policyVars

---------------------------------------------------------------------------
(* astra-auth-admin.  None of its operations writes an audit event or moves *)
(* a revision.                                                              *)

(* Nothing of what exists already is changed: not the status of the         *)
(* principal, not the tenant, not the membership.                           *)
BootstrapTenant(t, namespace, p) ==
    /\ tenants[t] = NoTenant => \A other \in Tenants : tenants[other].namespace # namespace
    /\ principals' = materialize(p)
    /\ tenants' = [tenants EXCEPT ![t] = IF @ = NoTenant
                                         THEN [status |-> "ACTIVE", namespace |-> namespace, revision |-> 1] ELSE @]
    /\ memberships' = [memberships EXCEPT ![t][p] = IF @ = NoMembership
                                                    THEN [role |-> "tenant_admin", status |-> "ACTIVE"] ELSE @]
    /\ UNCHANGED <<platformRoles, sessions, audit>>

BootstrapPlatformAdmin(p) ==
    /\ principals[p] # "none"
    /\ platformRoles' = [platformRoles EXCEPT ![p] = "ACTIVE"]
    /\ UNCHANGED <<principals, tenants, memberships, sessions, audit>>

(* Only disable-principal calls it, with DISABLED.                          *)
SetPrincipalStatus(p, status) ==
    /\ principals[p] # "none"
    /\ principals' = [principals EXCEPT ![p] = status]
    /\ UNCHANGED <<tenants, memberships, platformRoles, sessions, audit>>

SetTenantStatus(t, status) ==
    /\ tenants[t] # NoTenant
    /\ tenants' = [tenants EXCEPT ![t].status = status]
    /\ UNCHANGED <<principals, memberships, platformRoles, sessions, audit>>

RevokeSessionsForPrincipal(p) == sessions' = withoutSessionsOf(p) /\ UNCHANGED <<policyVars, audit>>
================================================================================
