------------------------------ MODULE JobControl ------------------------------
(***************************************************************************)
(* The Job API of the control plane.  A mutating call looks for the answer *)
(* of an earlier one, validates the spec against the active catalogue and  *)
(* the Connections the spec names, each read at its own moment, and then   *)
(* applies the mutation in one serializable transaction that fences what   *)
(* was validated.  A validation found stale is made once more.             *)
(*                                                                         *)
(* A spec has a connector for each role, with the name of a Connection (0  *)
(* for none) and the keys of its options.                                  *)
(***************************************************************************)
EXTENDS ConnectionService, JobLifecycle

CONSTANTS
    Deliveries,             \* the delivery guarantees
    DefaultBatch,           \* records in a batch when the request names none
    RuntimeEnabled          \* Connection-backed starts are rolled out

VARIABLES
    jobs,                   \* rows of astrasync_control_jobs
    jobTombstones,
    jobIdempotency,         \* completed idempotency rows
    jobAudit,               \* audit events of committed mutations
    jobCalls                \* by client: its mutation in progress, or {}

jobVars == <<jobs, jobTombstones, jobIdempotency, jobAudit, jobCalls>>

Roles == {"source", "sink"}
RoleNumber == [source |-> 1, sink |-> 2]

Row(name) == {j \in jobs : j.name = name}
JobRow(name, uid, spec) ==
    [name |-> name, uid |-> uid, spec |-> spec, version |-> NewJob.version,
     desired |-> NewJob.desired, state |-> NewJob.state, epoch |-> NewJob.epoch]

SpecValid(spec) ==
    spec.delivery \in Deliveries /\ spec.batch > 0 /\ \A r \in Roles : spec[r].connector # 0

(* The domain spec of a request, when it is one.                            *)
fromProtoSpec(requested) ==
    {s \in {[requested EXCEPT !.batch = IF @ = 0 THEN DefaultBatch ELSE @]} : SpecValid(s)}

(* A mistake the properties must notice: a running Job takes a new spec.    *)
ReplaceSpecActive(j, spec) == {n \in {[j EXCEPT !.spec = spec]} : SpecValid(spec)}

ReplaceSpec(j, spec) == {n \in {[j EXCEPT !.spec = spec]} : SpecValid(spec) /\ ~JobActive(j.state)}

---------------------------------------------------------------------------
(* Validation.                                                              *)

(* The definition of an option: an exact one, or the first prefix's.        *)
descriptorOption(d, key) ==
    LET matching == SelectSeq(d.prefixes, LAMBDA p : HasPrefix(key, p))
    IN  IF Exact(d, key) # {} THEN Exact(d, key)
        ELSE {Head(s) : s \in {matching} \ {<<>>}}

OptionAllowed(d, role, key) ==
    \E o \in descriptorOption(d, key) :
        /\ o.owner = "job" /\ o.sensitivity = "public"
        /\ RoleNumber[role] \in Range(o.roles)

ConnectionUsable(d, role, s) ==
    LET stored == connections[s.ref]
    IN  /\ stored # NoConnection /\ stored.state = "ACTIVE" /\ stored.connector = s.connector
        /\ stored.current.schema \in d.accepted
        /\ RoleNumber[role] \in Range(d.roles)

(* The bindings of a role, none or one; no answer when there is an issue.   *)
effectiveConnector(i, role, s) ==
    LET bound(d) == IF s.ref = 0 THEN {}
                    ELSE {[role |-> role, name |-> s.ref, uid |-> connections[s.ref].uid,
                           connector |-> s.connector, generation |-> connections[s.ref].current.number,
                           descriptor |-> d.revision, schema |-> connections[s.ref].current.schema]}
    IN  {bound(d) : d \in {x \in Range(i.descriptors) :
                             /\ x.name = s.connector
                             /\ \A key \in s.options : OptionAllowed(x, role, key)
                             /\ s.ref # 0 => ConnectionUsable(x, role, s)}}

(* The spec to validate: the caller's, or for a start the stored one.       *)
specForPurpose(q) ==
    CASE q.kind = "CREATE" -> q.spec
      [] q.kind = "UPDATE" -> {s \in q.spec : \E j \in Row(q.name) : j.version = q.expected}
      [] q.kind = "START" -> {j.spec : j \in {x \in Row(q.name) : x.version = q.expected}}

NeedsConnections(spec) == \E r \in Roles : spec[r].ref # 0

ReadCatalog(client) ==
    \E c \in jobCalls[client] :
        /\ c.pc = "validate"
        /\ \E i \in Current :
             jobCalls' = [jobCalls EXCEPT ![client] =
                            {[c EXCEPT !.pc = "load", !.inventory = {i}, !.bindings = {}]}]

LoadSpec(client) ==
    \E c \in jobCalls[client] :
        /\ c.pc = "load"
        /\ \E requested \in specForPurpose(c.q) : \E s \in fromProtoSpec(requested) :
             /\ NeedsConnections(s) =>
                  (c.q.kind = "START" => RuntimeEnabled) /\ "USE" \in Granted[c.q.actor]
             /\ jobCalls' = [jobCalls EXCEPT ![client] = {[c EXCEPT !.pc = "source", !.spec = {s}]}]

(* After the sink the compiler accepts the whole, at the inventory read;    *)
(* a call it refuses, or that finds an issue, returns.                      *)
BindRole(client) ==
    \E c \in jobCalls[client] : \E i \in c.inventory, s \in c.spec :
        /\ c.pc \in Roles
        /\ \E bound \in effectiveConnector(i, c.pc, s[c.pc]) :
             jobCalls' = [jobCalls EXCEPT ![client] =
                            {[c EXCEPT !.pc = IF c.pc = "source" THEN "sink" ELSE "apply",
                                       !.bindings = @ \cup bound]}]

---------------------------------------------------------------------------
(* The transaction.                                                         *)

verifyFenceSpec(spec, bindings) ==
    \A r \in Roles :
        LET bound == {b \in bindings : b.role = r}
        IN  IF spec[r].ref = 0 THEN bound = {}
            ELSE \E b \in bound : b.name = spec[r].ref /\ b.connector = spec[r].connector

(* A mistake the properties must notice: the row is locked, not compared.   *)
lockValidatedConnectionsExist(bindings) ==
    \A b \in bindings : \E n \in Names : connections[n] # NoConnection /\ connections[n].uid = b.uid

lockValidatedConnections(bindings) ==
    \A b \in bindings : \E n \in Names :
        LET c == connections[n]
        IN  /\ c # NoConnection /\ c.uid = b.uid /\ c.name = b.name /\ c.connector = b.connector
            /\ c.state = "ACTIVE" /\ c.current.number = b.generation /\ c.current.schema = b.schema

Stable(uid, bindings) ==
    {[job |-> uid, role |-> b.role, uid |-> b.uid, connector |-> b.connector] : b \in bindings}

replaceStableBindings(uid, bindings) ==
    {b \in jobBindings : b.job # uid} \cup Stable(uid, bindings)

verifyStableBindings(uid, bindings) == {b \in jobBindings : b.job = uid} = Stable(uid, bindings)

(* What an epoch connects with, captured when it is started.                *)
Captured(j, bindings, compiler) ==
    {[job |-> j.uid, epoch |-> j.epoch, role |-> b.role, uid |-> b.uid, generation |-> b.generation,
      descriptor |-> b.descriptor, compiler |-> compiler] : b \in bindings}

Scope(q) == [actor |-> q.actor, method |-> q.kind, key |-> q.key]
readMutationIdempotency(q) == {row \in jobIdempotency : row.scope = Scope(q)}

(* An earlier call with the same key and request, whose Job is still there, *)
(* or was deleted by it.                                                    *)
ReplayMutation(q) ==
    {row \in readMutationIdempotency(q) :
        /\ row.digest = [q EXCEPT !.key = 0]
        /\ q.kind # "DELETE" =>
             \E j \in jobs : j.uid = row.uid /\ j.name = row.name /\ j.version >= row.version}

(* The audit event and the idempotency row that commit with the mutation.   *)
Completed(c, outcome, j) ==
    /\ jobIdempotency' = jobIdempotency \cup
            {[scope |-> Scope(c.q), digest |-> [c.q EXCEPT !.key = 0], uid |-> j.uid, name |-> j.name,
              version |-> j.version]}
    /\ jobAudit' = jobAudit \cup
            {[scope |-> Scope(c.q), outcome |-> outcome, uid |-> j.uid, epoch |-> j.epoch]}

Wrote(old, new) == jobs' = (jobs \ old) \cup new

createJobMutation(c) ==
    \E s \in c.spec :
        LET j == JobRow(c.q.name, c.uid, s)
        IN  /\ Row(c.q.name) = {}
            /\ Wrote({}, {j}) /\ Completed(c, "CHANGED", j)
            /\ jobBindings' = replaceStableBindings(j.uid, c.bindings)
            /\ UNCHANGED <<executionBindings, jobTombstones>>

updateJobMutation(c) ==
    \E s \in c.spec, j \in Row(c.q.name) : \E replaced \in ReplaceSpec(j, s) :
        /\ j.version = c.q.expected
        /\ Wrote({j}, {Updated(replaced)}) /\ Completed(c, "CHANGED", Updated(replaced))
        /\ jobBindings' = replaceStableBindings(j.uid, c.bindings)
        /\ UNCHANGED <<executionBindings, jobTombstones>>

NoChange(c, j) ==
    Completed(c, "NO_CHANGE", j) /\ UNCHANGED <<jobs, jobBindings, executionBindings, jobTombstones>>

startJobMutation(c) ==
    \E j \in Row(c.q.name) :
        \/ StartSatisfied(j) /\ NoChange(c, j)
        \/ LET started == Updated(Started(j))
           IN  /\ StartAccepted(j) /\ j.version = c.q.expected
               /\ Wrote({j}, {started}) /\ Completed(c, "CHANGED", started)
               /\ \E i \in c.inventory :
                    executionBindings' = executionBindings \cup Captured(started, c.bindings, i.compiler)
               /\ UNCHANGED <<jobBindings, jobTombstones>>

stopJobMutation(c) ==
    \E j \in Row(c.q.name) :
        \/ StopSatisfied(j) /\ NoChange(c, j)
        \/ /\ StopAccepted(j) /\ j.version = c.q.expected
           /\ Wrote({j}, {Updated(Stopped(j))}) /\ Completed(c, "CHANGED", Updated(Stopped(j)))
           /\ UNCHANGED <<jobBindings, executionBindings, jobTombstones>>

(* The bindings of its epochs refer to the Job (ON DELETE RESTRICT).        *)
DeleteRestrictedJob(j) == \E b \in executionBindings : b.job = j.uid

deleteJobMutation(c) ==
    \E j \in Row(c.q.name) :
        /\ j.version = c.q.expected /\ ~JobActive(j.state) /\ ~DeleteRestrictedJob(j)
        /\ Wrote({j}, {}) /\ Completed(c, "CHANGED", j)
        /\ jobBindings' = {b \in jobBindings : b.job # j.uid}
        /\ jobTombstones' = jobTombstones \cup {j.uid}
        /\ UNCHANGED executionBindings

(* ErrValidationStale: what was validated is no longer so.  It is looked at *)
(* after the version and the lifecycle.                                     *)
ValidationStale(c) ==
    LET Fenced(spec) == verifyFenceSpec(spec, c.bindings) /\ lockValidatedConnections(c.bindings)
    IN  CASE c.q.kind = "CREATE" -> \E s \in c.spec : ~Fenced(s)
          [] c.q.kind = "UPDATE" -> \E s \in c.spec, j \in Row(c.q.name) :
                                        j.version = c.q.expected /\ ~Fenced(s)
          [] c.q.kind = "START" -> \E j \in Row(c.q.name) :
                                        /\ StartAccepted(j) /\ j.version = c.q.expected
                                        /\ ~(Fenced(j.spec) /\ verifyStableBindings(j.uid, c.bindings))
          [] OTHER -> FALSE

applyJobMutation(c) ==
    \/ c.q.kind = "CREATE" /\ createJobMutation(c)
    \/ c.q.kind = "UPDATE" /\ updateJobMutation(c)
    \/ c.q.kind = "START" /\ startJobMutation(c)
    \/ c.q.kind = "STOP" /\ stopJobMutation(c)
    \/ c.q.kind = "DELETE" /\ deleteJobMutation(c)

---------------------------------------------------------------------------
(* A call.                                                                  *)

FreshJobUid ==
    LET used == {j.uid : j \in jobs} \cup jobTombstones \cup {row.uid : row \in jobIdempotency}
                    \cup {c.uid : c \in UNION {jobCalls[k] : k \in Clients}}
    IN  CHOOSE n \in 1 .. (Cardinality(used) + 1) : n \notin used

Validated == {"CREATE", "UPDATE", "START"}

RequestValid(q) ==
    /\ q.kind # "CREATE" => q.expected > 0
    /\ q.kind \in {"CREATE", "UPDATE"} => \E s \in q.spec : fromProtoSpec(s) # {}

(* The mutation is answered, or goes on; a key that was used for another    *)
(* request is refused.  The last two fields are the Console's, which writes *)
(* the SyncJob of the Job after the answer (see SyncJobController).         *)
JobCall(client, q) ==
    /\ jobCalls[client] = {}
    /\ RequestValid(q) /\ "JOB_" \o q.kind \in Granted[q.actor]
    /\ readMutationIdempotency(q) # {} => ReplayMutation(q) # {}
    /\ jobCalls' = [jobCalls EXCEPT ![client] =
            {[pc |-> IF ReplayMutation(q) # {} THEN "done"
                     ELSE IF q.kind \in Validated THEN "validate" ELSE "apply",
              q |-> q, uid |-> FreshJobUid, attempt |-> 0, inventory |-> {}, spec |-> {},
              bindings |-> {}, read |-> {}, tries |-> 0]}]
    /\ UNCHANGED <<connectionVars, jobs, jobTombstones, jobIdempotency, jobAudit>>

ValidateForMutation(client) ==
    /\ ReadCatalog(client) \/ LoadSpec(client) \/ BindRole(client)
    /\ UNCHANGED <<connectionVars, jobs, jobTombstones, jobIdempotency, jobAudit>>

(* The shape the store asks of a mutation: what kind has a version, a spec  *)
(* and a validation to compare with.                                        *)
MutationValid(c) ==
    /\ (c.q.kind = "CREATE") = (c.q.expected = 0)
    /\ (c.q.kind \in {"CREATE", "UPDATE"}) = (c.q.spec # {})
    /\ (c.q.kind \in Validated) = (c.inventory # {})

ApplyMutation(client) ==
    \E c \in jobCalls[client] :
        /\ c.pc = "apply" /\ MutationValid(c) /\ readMutationIdempotency(c.q) = {}
        /\ ~ValidationStale(c) /\ applyJobMutation(c)
        /\ jobCalls' = [jobCalls EXCEPT ![client] = {[c EXCEPT !.pc = "done"]}]
        /\ UNCHANGED <<connections, generations, idempotency, tombstones, listRevision, tests,
                       cleanupObligations, connectionAudit, now>>

(* The transaction changes nothing: an earlier call's answer is found, or   *)
(* the validation is stale and is made once more.                           *)
applyValidatedJobMutation(client) ==
    \E c \in jobCalls[client] :
        /\ c.pc = "apply"
        /\ \/ /\ ReplayMutation(c.q) # {}
              /\ jobCalls' = [jobCalls EXCEPT ![client] = {[c EXCEPT !.pc = "done"]}]
           \/ /\ readMutationIdempotency(c.q) = {} /\ ValidationStale(c) /\ c.attempt = 0
              /\ jobCalls' = [jobCalls EXCEPT ![client] =
                    {[c EXCEPT !.pc = "validate", !.attempt = 1, !.inventory = {}, !.spec = {}, !.bindings = {}]}]
        /\ UNCHANGED <<connectionVars, jobs, jobTombstones, jobIdempotency, jobAudit>>

(* An answer, a refusal or a failure, wherever the call is.                 *)
JobReturn(client) ==
    /\ jobCalls[client] # {}
    /\ jobCalls' = [jobCalls EXCEPT ![client] = {}]
    /\ UNCHANGED <<connectionVars, jobs, jobTombstones, jobIdempotency, jobAudit>>

(* The scheduler observes the execution (see JobScheduling).                *)
Observe(name, state) ==
    /\ \E j \in Row(name) :
        AdvanceAccepted(j, j.epoch, state) /\ Wrote({j}, {Updated(Advanced(j, state))})
    /\ UNCHANGED <<connectionVars, jobTombstones, jobIdempotency, jobAudit, jobCalls>>

JobInit ==
    /\ jobTombstones = {} /\ jobIdempotency = {} /\ jobAudit = {}
    /\ jobCalls = [c \in Clients |-> {}]

JobClientStep(client, requests) ==
    \/ \E q \in requests : JobCall(client, q)
    \/ ValidateForMutation(client) \/ ApplyMutation(client) \/ applyValidatedJobMutation(client)
    \/ JobReturn(client)

---------------------------------------------------------------------------
(* Properties.                                                              *)

Began(uid, epoch) ==
    /\ \E j \in jobs' : j.uid = uid /\ j.epoch = epoch /\ j.state = "INITIALIZING"
    /\ ~ \E j \in jobs : j.uid = uid /\ j.epoch = epoch

(* While an epoch has not ended, the roles its Job's spec connects and the  *)
(* roles that were bound for it are the same: no order of validated updates *)
(* and starts leads to an execution the dispatcher must refuse.             *)
RunningSpecIsBound ==
    \A j \in jobs :
        JobActive(j.state) =>
            {b.role : b \in {x \in executionBindings : x.job = j.uid /\ x.epoch = j.epoch}}
                = {r \in Roles : j.spec[r].ref # 0}

(* An epoch is bound when it is started and never again: the bindings that  *)
(* are added belong to an epoch that begins in the same step, and each      *)
(* names the Connection its role refers to, which is ACTIVE at that moment, *)
(* at the generation it has at that moment, whatever was rotated, disabled  *)
(* or renamed since the spec was validated (startJobMutation).  And no role *)
(* is missing or stale while it runs (see RunningSpecIsBound).              *)
CapturedAtStart ==
    [][/\ RunningSpecIsBound'
       /\ executionBindings \subseteq executionBindings'
       /\ \A b \in executionBindings' \ executionBindings :
            /\ Began(b.job, b.epoch)
            /\ \A j \in jobs' : j.uid = b.job =>
                 LET c == connections[j.spec[b.role].ref]
                 IN  /\ <<c.uid, c.state, c.connector>> = <<b.uid, "ACTIVE", j.spec[b.role].connector>>
                     /\ c.current.number = b.generation]_<<jobVars, connectionVars>>

===============================================================================
