---------------------------- MODULE ConsoleRequests ----------------------------
(***************************************************************************)
(* The Console's handlers (console/internal/server) in front of the API    *)
(* server: a request selects a tenant from the memberships the Console     *)
(* reads, is sent on for that tenant in one call or several, each of which *)
(* the API server authorizes on a reading of its own, and, for changes of  *)
(* a Job, is then mirrored into the cluster.  What may be wrong with a     *)
(* request is a set of flaws; each handler looks for its own.              *)
(***************************************************************************)
EXTENDS AccessControl, Sequences

CONSTANT Browsers   \* requests of browsers; each is used once

VARIABLES
    console,    \* the deployment: namespace it is confined to, a set of at most one, and the legacy mode
    browser,    \* progress of every request: the calls it has made and the methods still to call
    resources   \* resources[namespace]: requests whose change was mirrored into it

consoleVars == <<console, browser, resources>>

NewRequest == [phase |-> "new", principal |-> "none", selected |-> "none", namespace |-> "none", plan |-> <<>>, made |-> <<>>]
ConsoleInit ==
    /\ console \in [namespace : {{}} \union {{n} : n \in Namespaces}, legacy : BOOLEAN]
    /\ console.legacy => console.namespace # {}
    /\ browser = [b \in Browsers |-> NewRequest]
    /\ resources = [n \in Namespaces |-> {}]

---------------------------------------------------------------------------
(* Tenants the request may be for: the one it names, or the only one there  *)
(* is; none when it must choose or may not have it.                         *)
Selectable(member) == {t \in Tenants : member[t].active /\ \A n \in console.namespace : member[t].namespace = n}
Scope(member, requested) ==
    IF console.legacy THEN {t \in Tenants : member[t].found /\ console.namespace = {member[t].namespace}}
    ELSE IF requested # {} THEN requested \intersect Selectable(member)
    ELSE IF Cardinality(Selectable(member)) = 1 THEN Selectable(member) ELSE {}

Refuses(b) == browser' = [browser EXCEPT ![b].phase = "refused"]

(* A handler up to its first call: session, scope, and what it checks.      *)
Handler(b, p, scope, fine, plan) ==
    /\ browser[b].phase = "new"
    /\ \/ \E t \in scope :
            /\ principals[p] = "ACTIVE" /\ fine
            /\ browser' = [browser EXCEPT ![b] = [phase |-> "send", principal |-> p, selected |-> t, namespace |-> tenants[t].namespace,
                                                  plan |-> plan, made |-> <<>>]]
       \/ (principals[p] # "ACTIVE" \/ ~fine \/ scope = {}) /\ Refuses(b)
    /\ UNCHANGED <<storeVars, accessVars, console, resources>>

requireMutation(flaws) == flaws \intersect {"origin", "csrf", "content type"} = {}
parsePagination(flaws) == "pagination" \notin flaws
resourceName(flaws) == "name" \notin flaws
parseJSONBody(flaws) == "body" \notin flaws
decodeJobSpec(flaws) == "spec" \notin flaws
buildSecretBinding(flaws) == "binding" \notin flaws

listJobs(b, p, scope, flaws) == Handler(b, p, scope, "namespace" \notin flaws /\ parsePagination(flaws), <<"ListJobs">>)
getJob(b, p, scope, flaws) == Handler(b, p, scope, resourceName(flaws), <<"GetJob">>)
getJobStatus(b, p, scope, flaws) == Handler(b, p, scope, resourceName(flaws), <<"GetJobStatus">>)
listConnectors(b, p, scope, flaws) == Handler(b, p, scope, parsePagination(flaws), <<"ListConnectorDescriptors">>)
getConnector(b, p, scope, flaws) == Handler(b, p, scope, resourceName(flaws), <<"GetConnectorDescriptor">>)
listConnections(b, p, scope, flaws) == Handler(b, p, scope, parsePagination(flaws) /\ "state" \notin flaws, <<"ListConnections">>)
getConnection(b, p, scope, flaws) == Handler(b, p, scope, resourceName(flaws), <<"GetConnection">>)
getConnectionTest(b, p, scope, flaws) == Handler(b, p, scope, "operation" \notin flaws, <<"GetConnectionTest">>)
auditFilters(flaws) == flaws \intersect {"pagination", "page token", "event type", "outcome", "time", "filter with token"} = {}
listAuditEvents(b, p, scope, flaws) ==
    Handler(b, p, {t \in scope : Has(Seen(p)[t], "audit.read")}, auditFilters(flaws), <<"ListAuditEvents">>)

mutation(flaws) == requireMutation(flaws) /\ parseJSONBody(flaws)
versioned(flaws) == mutation(flaws) /\ "version" \notin flaws
createJob(b, p, scope, flaws) == Handler(b, p, scope, mutation(flaws) /\ resourceName(flaws) /\ decodeJobSpec(flaws), <<"CreateJob">>)
updateJob(b, p, scope, flaws) == Handler(b, p, scope, versioned(flaws) /\ decodeJobSpec(flaws), <<"UpdateJob">>)
deleteJob(b, p, scope, flaws) == Handler(b, p, scope, versioned(flaws), <<"DeleteJob">>)
mutateJobDesiredState(b, p, scope, flaws) ==
    \E method \in {"StartJob", "StopJob"} : Handler(b, p, scope, versioned(flaws), <<method>>)
validateJob(b, p, scope, flaws) ==
    \E method \in {"ValidateJobSpec(CREATE)", "ValidateJobSpec(UPDATE)", "ValidateJobSpec(START)"} :
        Handler(b, p, scope, mutation(flaws) /\ decodeJobSpec(flaws) /\ "purpose" \notin flaws, <<method>>)

(* Settings are looked up in the connector's descriptor, if there are any;  *)
(* a binding found wrong after that ends the request.                       *)
connectionSettings == {<<>>, <<"GetConnectorDescriptor">>}
createConnection(b, p, scope, flaws) ==
    \E lookup \in connectionSettings :
        Handler(b, p, scope, mutation(flaws) /\ resourceName(flaws),
                lookup \o <<IF buildSecretBinding(flaws) THEN "CreateConnection" ELSE "rejected">>)
updateConnection(b, p, scope, flaws) ==
    \E lookup \in connectionSettings :
        Handler(b, p, scope, versioned(flaws) /\ resourceName(flaws), <<"GetConnection">> \o lookup \o <<"UpdateConnection">>)
mutateConnectionAction(b, p, scope, flaws) ==
    \E method \in {"RotateConnection", "EnableConnection", "DisableConnection"} :
        Handler(b, p, scope, versioned(flaws) /\ resourceName(flaws) /\ (method = "RotateConnection" => buildSecretBinding(flaws)), <<method>>)
deleteConnection(b, p, scope, flaws) == Handler(b, p, scope, versioned(flaws), <<"DeleteConnection">>)
testConnection(b, p, scope, flaws) == Handler(b, p, scope, versioned(flaws), <<"TestConnection">>)

Handles(b, p, scope, flaws) ==
    \/ listJobs(b, p, scope, flaws) \/ getJob(b, p, scope, flaws) \/ getJobStatus(b, p, scope, flaws)
    \/ listConnectors(b, p, scope, flaws) \/ getConnector(b, p, scope, flaws)
    \/ listConnections(b, p, scope, flaws) \/ getConnection(b, p, scope, flaws) \/ getConnectionTest(b, p, scope, flaws)
    \/ listAuditEvents(b, p, scope, flaws)
    \/ createJob(b, p, scope, flaws) \/ updateJob(b, p, scope, flaws) \/ deleteJob(b, p, scope, flaws)
    \/ mutateJobDesiredState(b, p, scope, flaws) \/ validateJob(b, p, scope, flaws)
    \/ createConnection(b, p, scope, flaws) \/ updateConnection(b, p, scope, flaws) \/ mutateConnectionAction(b, p, scope, flaws)
    \/ deleteConnection(b, p, scope, flaws) \/ testConnection(b, p, scope, flaws)

---------------------------------------------------------------------------
(* Jobs are addressed by namespace, and their changes declare the tenant;   *)
(* everything else is addressed by the tenant.                              *)
JobMethods == {m \in DOMAIN Registry : Registry[m].scope = "namespace"}
Mirrored == {"CreateJob", "UpdateJob", "DeleteJob"}
BackendRequestToOwnNamespace(q) ==
    LET method == Head(q.plan)
        own == IF console.namespace = {} THEN Namespaces ELSE console.namespace
    IN  [method |-> method, caller |-> q.principal, target |-> "none", role |-> "none", declared |-> {},
         scope |-> IF method \in JobMethods THEN CHOOSE n \in own : TRUE ELSE q.selected]
BackendRequest(q) ==
    LET method == Head(q.plan)
    IN  [method |-> method, caller |-> q.principal, target |-> "none", role |-> "none",
         declared |-> IF method \in JobMethods \ {"GetJob", "ListJobs", "GetJobStatus"} THEN {q.selected} ELSE {},
         scope |-> IF method \in JobMethods THEN q.namespace ELSE q.selected]
Send(b, c) ==
    /\ browser[b].phase = "send" /\ Head(browser[b].plan) # "rejected"
    /\ Receive(c, BackendRequest(browser[b]))
    /\ browser' = [browser EXCEPT ![b].phase = "sent", ![b].made = Append(@, c), ![b].plan = Tail(@)]
    /\ UNCHANGED <<console, resources>>

Answer(b) ==
    LET c == browser[b].made[Len(browser[b].made)]
    IN  /\ browser[b].phase = "sent" /\ calls[c].phase \in {"served", "refused"}
        /\ browser' = [browser EXCEPT ![b].phase = IF calls[c].phase = "refused" THEN "refused"
                                                   ELSE IF browser[b].plan # <<>> THEN "send"
                                                   ELSE IF calls[c].method \in Mirrored THEN "mirror" ELSE "replied"]
        /\ UNCHANGED <<storeVars, accessVars, console, resources>>
(* A time-out while the call goes on, or settings the descriptor forbids.   *)
GivesUp(b) == browser[b].phase \in {"send", "sent"} /\ Refuses(b) /\ UNCHANGED <<storeVars, accessVars, console, resources>>

(* The resource is written as a best effort, in the same namespace.         *)
WriteCR(b) ==
    /\ browser[b].phase = "mirror"
    /\ \E written \in BOOLEAN : resources' = IF written THEN [resources EXCEPT ![browser[b].namespace] = @ \union {b}] ELSE resources
    /\ browser' = [browser EXCEPT ![b].phase = "replied"]
    /\ UNCHANGED <<storeVars, accessVars, console>>

BrowserStep(b) == (\E c \in Calls : Send(b, c)) \/ Answer(b) \/ GivesUp(b) \/ WriteCR(b)

---------------------------------------------------------------------------
ServedIn(b, t) == \A i \in DOMAIN browser[b].made : calls[browser[b].made[i]].phase = "served" /\ calls[browser[b].made[i]].tenant = t

(* What the Console reports and mirrors is what the API server did: every   *)
(* call of a request answered for a tenant was served in that tenant, and a *)
(* resource is written only into the namespace of a tenant whose Job was    *)
(* changed, although the two read the memberships at different times and    *)
(* find the tenant by different keys (server.go, scope and                  *)
(* backendContextWithTenant; authn/interceptor.go, Unary).                  *)
ServedWhereSelected ==
    /\ \A b \in Browsers : browser[b].phase = "replied" => browser[b].made # <<>> /\ ServedIn(b, browser[b].selected)
    /\ \A n \in Namespaces : \A b \in resources[n] : \E t \in Tenants : tenants[t].namespace = n /\ ServedIn(b, t)
================================================================================
