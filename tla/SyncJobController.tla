--------------------------- MODULE SyncJobController ---------------------------
(***************************************************************************)
(* SyncJob resources, the controller that converges the stored Jobs with   *)
(* them, and the Console, which writes the resource of a Job after it has  *)
(* changed the Job through the API.                                        *)
(*                                                                         *)
(* The controller reads resources from a cache that lags behind; its       *)
(* writes carry the resource version it read and are refused when that has *)
(* changed.  The leader lease keeps one controller running at a time; it   *)
(* can stop between any two steps, and its successor starts afresh.        *)
(***************************************************************************)
EXTENDS JobControl

CONSTANTS
    JobNames,
    GuaranteeNames,         \* by guarantee: its name in the API's JSON
    RetryDelays,            \* of the Console's writes: how often one is tried again
    Attempts,               \* of converge
    MaxEpoch,               \* bound on the epochs of a Job
    MaxEdits,               \* bound on what users do to resources
    MaxStops                \* bound on controller stops

ASSUME ControllerAssumption == IsFiniteSet(Clients)

(* The API's JSON has the names of the protocol's enumeration               *)
(* (DELIVERY_GUARANTEE_AT_LEAST_ONCE), the CRD has its own (at-least-once). *)
ASSUME GuaranteeNamesAssumption == \A d \in Deliveries : GuaranteeNames[d] \notin Deliveries

VARIABLES
    resource,               \* by name: the SyncJob stored in Kubernetes, or {}
    cache,                  \* by name: the copy the controller reads
    reconciler,             \* what the controller is doing
    created,                \* resources, so far
    edits, stops            \* so far

controllerVars == <<resource, cache, reconciler, created, edits, stops>>

Idle == [pc |-> "idle", name |-> 0, resource |-> {}, stored |-> {}, next |-> {}, attempt |-> 0]

(* UIDs of resources are below zero, the ones the API generates above.      *)
ResourceUid(n) == -(n + 1)

---------------------------------------------------------------------------
(* The Kubernetes API.                                                      *)

(* A mistake the properties must notice: the schema names no guarantees.    *)
AdmittedAny(r) == r.spec.delivery # ""

(* The CRD's schema: it names the guarantees, and STOPPED is the default.   *)
Admitted(r) == r.spec.delivery \in Deliveries

Defaulted(state) == IF state = "" THEN "STOPPED" ELSE state

(* A resource without finalizers goes at once.                              *)
Deleted(r) == IF r.finalizer THEN {[r EXCEPT !.deleting = TRUE, !.version = @ + 1]} ELSE {}

(* An update carries the version it is based on; the last finalizer of a    *)
(* resource being deleted takes it away.                                    *)
UpToDate(name, r) == \E stored \in resource[name] : stored.uid = r.uid /\ stored.version = r.version

Put(name, r) ==
    /\ UpToDate(name, r)
    /\ resource' = [resource EXCEPT ![name] =
            IF r.deleting /\ ~r.finalizer THEN {} ELSE {[r EXCEPT !.version = @ + 1]}]

NewResource(uid, spec, state) ==
    [uid |-> uid, spec |-> spec, state |-> Defaulted(state), finalizer |-> FALSE, deleting |-> FALSE,
     status |-> {}, version |-> 1]

Counted(name) ==
    created' = IF resource[name] = {} /\ resource'[name] # {} THEN created + 1 ELSE created

(* Users create, change and delete resources.                               *)
EditResource(name, spec, state) ==
    /\ edits < MaxEdits /\ edits' = edits + 1
    /\ \A r \in resource[name] : ~r.deleting /\ <<r.spec, r.state>> # <<spec, Defaulted(state)>>
    /\ resource' = [resource EXCEPT ![name] =
            IF @ = {} THEN {NewResource(ResourceUid(created), spec, state)}
            ELSE {[r EXCEPT !.spec = spec, !.state = Defaulted(state), !.version = @ + 1] : r \in @}]
    /\ Counted(name)
    /\ UNCHANGED <<connectionVars, jobVars, cache, reconciler, stops>>

DeleteResource(name) ==
    /\ edits < MaxEdits /\ edits' = edits + 1
    /\ resource[name] # {} /\ \A r \in resource[name] : ~r.deleting
    /\ resource' = [resource EXCEPT ![name] = UNION {Deleted(r) : r \in @}]
    /\ UNCHANGED <<connectionVars, jobVars, cache, reconciler, created, stops>>

Watch(name) ==
    /\ cache[name] # resource[name]
    /\ cache' = [cache EXCEPT ![name] = resource[name]]
    /\ UNCHANGED <<connectionVars, jobVars, resource, reconciler, created, edits, stops>>

---------------------------------------------------------------------------
(* The Console.  After the API has answered a Create, an Update or a        *)
(* Delete, it writes the resource: a POST, a GET and a PUT, or a DELETE.    *)

(* The spec goes through the API's JSON, the state is left empty.           *)
jobSpecToCR(uid, spec) == NewResource(uid, [spec EXCEPT !.delivery = GuaranteeNames[@]], "")

(* The bodies the schema lets through: the POST's, and the PUT's, which has *)
(* the version that was read and no finalizers.                             *)
Posted(c) == {w \in {jobSpecToCR(ResourceUid(created), s) : s \in c.q.spec} : Admitted(w)}
Replacing(x, spec) ==
    [jobSpecToCR(x.uid, spec) EXCEPT !.deleting = x.deleting, !.status = x.status, !.version = x.version]
PutBack(c) == UNION {{w \in {Replacing(x, s) : s \in c.q.spec} : Admitted(w)} : x \in c.read}

(* What a request makes of the resource of its name, r.                     *)
WrittenCR(c, r) ==
    CASE c.q.kind = "CREATE" -> IF r = {} THEN Posted(c) ELSE r
      [] c.q.kind = "UPDATE" /\ c.pc = "put" ->
            IF \E w \in PutBack(c) : UpToDate(c.q.name, w)
            THEN {[w EXCEPT !.version = @ + 1] : w \in {x \in PutBack(c) : ~x.deleting}}
            ELSE r
      [] c.q.kind = "DELETE" -> UNION {IF x.deleting THEN {x} ELSE Deleted(x) : x \in r}
      [] OTHER -> r

(* A write that failed is tried again, an update from its GET; then it is   *)
(* given up.                                                                *)
executeWithRetry(c) ==
    {x \in {[c EXCEPT !.pc = "done", !.read = {}, !.tries = @ + 1]} : c.tries < RetryDelays}

(* The answer: success, a refusal of the schema and a resource that is not  *)
(* there to update end the write, a conflict does not.                      *)
AnsweredCR(c, r) ==
    CASE c.q.kind = "CREATE" -> {x \in executeWithRetry(c) : r # {} /\ Posted(c) # {}}
      [] c.q.kind = "UPDATE" /\ c.pc = "put" ->
            {x \in executeWithRetry(c) : \E w \in PutBack(c) : ~UpToDate(c.q.name, w)}
      [] c.q.kind = "UPDATE" /\ c.pc = "done" -> {[c EXCEPT !.pc = "put", !.read = {x}] : x \in r}
      [] OTHER -> {}

(* One request of the write.  The request or its answer may be lost.        *)
WriteCR(client) ==
    \E c \in jobCalls[client] :
        LET r == resource[c.q.name]
        IN  /\ c.pc \in {"done", "put"} /\ c.q.kind \in {"CREATE", "UPDATE", "DELETE"}
            /\ \/ /\ resource' = [resource EXCEPT ![c.q.name] = WrittenCR(c, r)]
                  /\ jobCalls' \in {[jobCalls EXCEPT ![client] = x] : x \in {AnsweredCR(c, r), executeWithRetry(c)}}
               \/ UNCHANGED resource /\ jobCalls' = [jobCalls EXCEPT ![client] = executeWithRetry(c)]
            /\ Counted(c.q.name)
            /\ UNCHANGED <<connectionVars, jobs, jobTombstones, jobIdempotency, jobAudit,
                           cache, reconciler, edits, stops>>

---------------------------------------------------------------------------
(* The controller.                                                          *)

Stays == UNCHANGED <<connectionVars, jobTombstones, jobIdempotency, jobAudit, jobCalls, cache, created, edits, stops>>
Reads == UNCHANGED <<jobs, resource>> /\ Stays

(* An error or a conflict ends the pass; the key is queued again.           *)
Requeue == reconciler' = Idle

AddFinalizer(name) ==
    /\ reconciler = Idle
    /\ \E r \in cache[name] : ~r.deleting /\ ~r.finalizer /\ Put(name, [r EXCEPT !.finalizer = TRUE])
    /\ UNCHANGED <<reconciler, jobs>> /\ Stays

ReconcileResource(name) ==
    /\ reconciler = Idle
    /\ \E r \in cache[name] :
        /\ r.deleting \/ (r.finalizer /\ SpecValid(r.spec))
        /\ reconciler' = [Idle EXCEPT !.pc = IF r.deleting THEN "deletion" ELSE "get",
                                      !.name = name, !.resource = {r}]
    /\ Reads

(* Another attempt of converge, or a conflict after the last one.           *)
Again == reconciler' = IF reconciler.attempt + 1 < Attempts
                       THEN [reconciler EXCEPT !.pc = "get", !.attempt = @ + 1, !.stored = {}, !.next = {}]
                       ELSE Idle

(* A mistake the properties must notice: a running Job keeps its spec.      *)
TargetKeepsRunning(j, r) ==
    IF (j.spec # r.spec /\ JobActive(j.state)) \/ j.desired = r.state THEN {j}
    ELSE IF r.state = "RUNNING" THEN {y \in {Started(j)} : StartAccepted(j)}
    ELSE {y \in {Stopped(j)} : StopAccepted(j)}

(* What converge makes of the stored Job j: the Job to write, j itself when *)
(* there is nothing to do, none when the transition is an error.            *)
Target(j, r) ==
    LET moved(x) ==
            IF x.desired = r.state THEN {x}
            ELSE IF r.state = "RUNNING"
                 THEN IF StartSatisfied(x) THEN {x} ELSE {y \in {Started(x)} : StartAccepted(x)}
                 ELSE {y \in {Stopped(x)} : StopAccepted(x)}
    IN  IF j.spec = r.spec THEN moved(j)
        ELSE IF JobActive(j.state) THEN IF StopSatisfied(j) THEN {j} ELSE {Stopped(j)}
        ELSE UNION {moved(x) : x \in ReplaceSpec(j, r.spec)}

(* The pass goes on with the stored Job j: write, project, or fail.         *)
With(j) ==
    LET r == CHOOSE x \in reconciler.resource : TRUE
        target == {t \in Target(j, r) : t.epoch <= MaxEpoch}
    IN  reconciler' = IF target = {} THEN Idle
                      ELSE [reconciler EXCEPT !.pc = IF target = {j} THEN "project" ELSE "update",
                                              !.stored = {j}, !.next = target]

GetJob ==
    /\ reconciler.pc = "get"
    /\ IF Row(reconciler.name) = {}
       THEN reconciler' = [reconciler EXCEPT !.pc = "create"]
       ELSE \E j \in Row(reconciler.name) : With(j)
    /\ Reads

(* The Job has the UID of its resource, no tenant and no bindings.          *)
(* Repository.Create: the key and the UID are unique.                       *)
CreateAccepted(j) == Row(j.name) = {} /\ \A k \in jobs : k.uid # j.uid

CreateJob ==
    /\ reconciler.pc = "create"
    /\ \E r \in reconciler.resource :
         LET j == JobRow(reconciler.name, r.uid, r.spec)
         IN  IF CreateAccepted(j)
             THEN Wrote({}, {j}) /\ With(j)
             ELSE Again /\ UNCHANGED jobs
    /\ UNCHANGED resource /\ Stays

(* Repository.Update, which compares the UID too.                           *)
Accepted(j) == \E k \in Row(j.name) : k.uid = j.uid /\ UpdateAccepted(k, j)

UpdateJob ==
    /\ reconciler.pc = "update"
    /\ \E j \in reconciler.next :
        \/ /\ Accepted(j)
           /\ Wrote(Row(j.name), {Updated(j)})
           /\ reconciler' = [reconciler EXCEPT !.pc = "project", !.stored = {Updated(j)}, !.next = {}]
        \/ Row(j.name) # {} /\ ~Accepted(j) /\ Again /\ UNCHANGED jobs
        \/ Row(j.name) = {} /\ Requeue /\ UNCHANGED jobs
    /\ UNCHANGED resource /\ Stays

(* A mistake the properties must notice: the finalizer does not wait for    *)
(* the execution to end.                                                    *)
reconcileDeletionAtOnce ==
    /\ reconciler.pc = "deletion"
    /\ reconciler' = IF Row(reconciler.name) = {} \/ \E j \in Row(reconciler.name) : StopSatisfied(j)
                     THEN [reconciler EXCEPT !.pc = "finalizer"]
                     ELSE [reconciler EXCEPT !.pc = "stop", !.stored = Row(reconciler.name)]
    /\ Reads

reconcileDeletion ==
    /\ reconciler.pc = "deletion"
    /\ \/ /\ Row(reconciler.name) = {}
          /\ reconciler' = [reconciler EXCEPT !.pc = "finalizer"]
       \/ \E j \in Row(reconciler.name) :
            reconciler' = [reconciler EXCEPT !.stored = {j},
                !.pc = IF ~JobActive(j.state) THEN "delete" ELSE IF StopSatisfied(j) THEN "project" ELSE "stop"]
    /\ Reads

StopJob ==
    /\ reconciler.pc = "stop"
    /\ \E j \in reconciler.stored :
         IF Accepted(Stopped(j))
         THEN /\ Wrote(Row(j.name), {Updated(Stopped(j))})
              /\ reconciler' = [reconciler EXCEPT !.pc = "project", !.stored = {Stopped(j)}]
         ELSE Requeue /\ UNCHANGED jobs
    /\ UNCHANGED resource /\ Stays

(* Repository.Delete compares the version only; the bindings of the Job go  *)
(* with it, the ones of its epochs refuse it.                               *)
DeleteJob ==
    /\ reconciler.pc = "delete"
    /\ \E j \in reconciler.stored :
        \/ /\ Row(j.name) = {}
           /\ reconciler' = [reconciler EXCEPT !.pc = "finalizer"] /\ UNCHANGED <<jobs, jobBindings>>
        \/ \E k \in Row(j.name) :
             IF k.version = j.version /\ ~DeleteRestrictedJob(k)
             THEN /\ Wrote({k}, {}) /\ jobBindings' = {b \in jobBindings : b.job # k.uid}
                  /\ reconciler' = [reconciler EXCEPT !.pc = "finalizer"]
             ELSE Requeue /\ UNCHANGED <<jobs, jobBindings>>
    /\ UNCHANGED <<connections, generations, idempotency, tombstones, listRevision, tests,
                   executionBindings, cleanupObligations, connectionAudit, now, jobTombstones,
                   jobIdempotency, jobAudit, jobCalls, resource, cache, created, edits, stops>>

removeFinalizer ==
    /\ reconciler.pc = "finalizer"
    /\ \E r \in reconciler.resource :
        IF r.finalizer /\ UpToDate(reconciler.name, r)
        THEN Put(reconciler.name, [r EXCEPT !.finalizer = FALSE])
        ELSE UNCHANGED resource
    /\ Requeue
    /\ UNCHANGED jobs /\ Stays

statusFromJob(j) == [desired |-> j.desired, state |-> j.state, epoch |-> j.epoch]

projectStatus ==
    /\ reconciler.pc = "project"
    /\ \E r \in reconciler.resource, j \in reconciler.stored :
        IF r.status # {statusFromJob(j)} /\ UpToDate(reconciler.name, r)
        THEN Put(reconciler.name, [r EXCEPT !.status = {statusFromJob(j)}])
        ELSE UNCHANGED resource
    /\ Requeue
    /\ UNCHANGED jobs /\ Stays

(* The leader stops, or loses its lease; the next one reads afresh.         *)
StopController ==
    /\ reconciler # Idle /\ stops < MaxStops
    /\ stops' = stops + 1 /\ reconciler' = Idle /\ cache' = resource
    /\ UNCHANGED <<connectionVars, jobVars, resource, created, edits>>

ControllerStep ==
    \/ \E n \in JobNames : AddFinalizer(n) \/ ReconcileResource(n)
    \/ GetJob \/ CreateJob \/ UpdateJob \/ reconcileDeletion \/ StopJob \/ DeleteJob
    \/ removeFinalizer \/ projectStatus

ControllerInit ==
    /\ resource = [n \in JobNames |-> {}] /\ cache = resource /\ reconciler = Idle
    /\ created = 0 /\ edits = 0 /\ stops = 0

(* The controller, the Kubernetes API, the Console, and users who ask for   *)
(* one of the given specs and states.                                       *)
ResourceStep(asked) ==
    \/ ControllerStep \/ StopController
    \/ \E n \in JobNames : Watch(n) \/ DeleteResource(n)
    \/ \E n \in JobNames, a \in asked : EditResource(n, a.spec, a.state)
    \/ \E c \in Clients : WriteCR(c)

(* The clients of the Job API, each with its requests.  A request names a   *)
(* Job and has one spec or none, which names a guarantee.                   *)
WellFormed(requests) ==
    \A c \in Clients : \A q \in requests[c] :
        q.name \in JobNames /\ \A s, t \in q.spec : s = t /\ "delivery" \in DOMAIN s

JobApiStep(requests) ==
    (\E c \in Clients : JobClientStep(c, requests[c])) /\ UNCHANGED controllerVars

(* The controller beside the Job API and the scheduler.  Connections and    *)
(* catalogues change as they like.                                          *)
ControllerNext(requests, asked) ==
    \/ ResourceStep(asked)
    \/ JobApiStep(requests)
    \/ \E n \in JobNames, state \in JobStates : Observe(n, state) /\ UNCHANGED controllerVars

ControllerSpec(requests, asked) ==
    /\ jobs = {} /\ JobInit /\ ControllerInit
    /\ [][ControllerNext(requests, asked)]_<<jobVars, controllerVars>>

---------------------------------------------------------------------------
(* Properties.                                                              *)

(* The finalizer holds: a Job that was made from a resource has its         *)
(* resource as long as it exists, so deleting the resource cannot leave an  *)
(* execution running that nothing refers to (reconcileDeletion).            *)
FinalizerHolds ==
    \A j \in jobs : j.uid < 0 => \E r \in resource[j.name] : r.uid = j.uid

(* A resource that is not being deleted has a Job with its spec and its     *)
(* desired state, and shows the Job's status.  MaxEpoch ends the starting.  *)
Converged(n) ==
    \A r \in resource[n] :
        /\ ~r.deleting
        /\ \E j \in Row(n) :
             \/ j.epoch = MaxEpoch /\ r.state = "RUNNING"
             \/ j.spec = r.spec /\ j.desired = r.state /\ r.status = {statusFromJob(j)}

(* Every epoch of a resource's Job was asked for, by an edit of the         *)
(* resource or by a Start: a desired state is applied once (converge).      *)
EpochsAreAskedFor ==
    \A j \in jobs : j.uid < 0 =>
        j.epoch <= edits + Cardinality({a \in jobAudit : a.scope.method = "START" /\ a.outcome = "CHANGED"})

===============================================================================
