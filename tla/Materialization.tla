---------------------------- MODULE Materialization ----------------------------
(***************************************************************************)
(* What an execution connects with: the Scheduler turns the bindings that  *)
(* were captured at the start of an epoch into one immutable credential    *)
(* Secret, records receipts, launches the data plane, and removes the      *)
(* Secret when the execution has ended.                                    *)
(*                                                                         *)
(* Replicas share the dispatch rows (DispatchStore).  Claim, the read of   *)
(* the Job and the first keepAlive are one step here, and so are the       *)
(* writes that end an execution; JobScheduling takes them apart.           *)
(***************************************************************************)
EXTENDS JobControl, DispatchStore

CONSTANTS
    Schedulers,
    MaxProviderEdits,       \* bound on changes of the provider's Secrets
    MaxFaults               \* bound on interrupted passes and on leases that run out

VARIABLES
    secrets,                \* by execution: its credential Secret, or {}
    receipts,               \* astrasync_connection_materialization_receipts
    provider,               \* by name: the tenant's Secret, its version and state
    coordinator, workers,   \* by execution: its Kubernetes objects
    passes,                 \* by replica: the pass it is in
    serial,                 \* UIDs given to credential Secrets
    providerEdits, faults   \* so far

planeVars == <<coordinator, workers>>
credentialVars == <<secrets, receipts, cleanupObligations, serial>>
environmentVars == <<provider, providerEdits, faults>>
materializationVars == <<passes, rows, planeVars, environmentVars, secrets, receipts, serial>>

JobOf(i) == i[1]
EpochOf(i) == i[2]
BindingsOf(i) == {b \in executionBindings : b.job = JobOf(i) /\ b.epoch = EpochOf(i)}
Job(i) == {j \in jobs : j.uid = JobOf(i) /\ j.epoch = EpochOf(i)}

(* `first`: this pass has claimed the execution; `ending`: the state the    *)
(* Job is moved to ("" for none) and the phase the row ends in; `active`    *)
(* and `known`: the rows the sweep goes by.                                 *)
Resting == [pc |-> "idle", i |-> {}, first |-> FALSE, ending |-> <<"", "">>, bindings |-> {}, secret |-> {},
            data |-> {}, active |-> {}, known |-> {}]

Steps(s, pass) == passes' = [passes EXCEPT ![s] = pass]
To(s, pc) == Steps(s, [passes[s] EXCEPT !.pc = pc])
(* After its executions a replica lists the rows and sweeps.                *)
EndsPass(s) == Steps(s, [Resting EXCEPT !.pc = "list"])

Others == UNCHANGED <<connections, generations, idempotency, tombstones, listRevision, tests, jobBindings,
                      executionBindings, connectionAudit, now, jobTombstones, jobIdempotency, jobAudit, jobCalls>>
Credentials == UNCHANGED <<rows, jobs, planeVars, environmentVars>> /\ Others
Execution == UNCHANGED <<credentialVars, environmentVars>> /\ Others
Reading == UNCHANGED <<rows, jobs, planeVars, credentialVars, environmentVars>> /\ Others

---------------------------------------------------------------------------
(* A pass: claim, then reconcile one of the executions the replica owns.    *)

Pending ==
    {i \in Executions : rows[i] = NoRow /\ \E j \in Job(i) : j.desired = "RUNNING" /\ j.state = "INITIALIZING"}

Claim(s) ==
    /\ passes[s] = Resting
    /\ \E admitted \in Admissible(Pending) : claim(s, admitted)
    /\ LET owned == {i \in Executions : rows'[i].owner = {s} /\ rows'[i].phase \in ActivePhases}
       IN  IF owned = {} THEN EndsPass(s)
           ELSE \E i \in owned : Steps(s, [Resting EXCEPT !.pc = "route", !.i = {i},
                                                          !.first = rows'[i].phase = "CLAIMED"])
    /\ UNCHANGED <<jobs, planeVars>> /\ Execution

(* transition: the Job is in the state, or moves to it; a Job that has not  *)
(* been seen running passes through RUNNING to FINISHED.                    *)
Before(state) == IF state = "FINISHED" THEN {"INITIALIZING"} ELSE {}
TransitionAccepted(i, state) ==
    \E j \in Job(i) : \/ j.state = state \/ AdvanceAccepted(j, EpochOf(i), state)
                      \/ j.state \in Before(state) /\ j.desired = "RUNNING"
transition(i, state) ==
    jobs' = {IF j \in Job(i) /\ j.state # state THEN Updated(Advanced(j, state)) ELSE j : j \in jobs}

phaseFor(state) == IF state = "FINISHED" THEN "SUCCEEDED" ELSE state

KeepAlive(s, i, phase) == IF Owns(s, i) THEN update(s, i, phase) ELSE UNCHANGED rows

(* reconcile's branches.  A row whose lease is lost is left alone.          *)
Route(s) ==
    \E i \in passes[s].i :
        LET ends(pc, target, phase) == Steps(s, [passes[s] EXCEPT !.pc = pc, !.ending = <<target, phase>>])
        IN  /\ passes[s].pc = "route"
            /\ \/ Job(i) = {} /\ ends("stop", "", "CANCELED") /\ UNCHANGED <<rows, jobs>>
               \/ \E j \in Job(i) :
                    \/ /\ JobTerminal(j.state)
                       /\ ends(IF rows[i].phase = "STOPPING" THEN "stop" ELSE "cleanup", "", phaseFor(j.state))
                       /\ UNCHANGED <<rows, jobs>>
                    \/ /\ j.desired = "STOPPED" /\ ~JobTerminal(j.state)
                       /\ IF Owns(s, i) THEN ends("stop", "CANCELED", "CANCELED") ELSE EndsPass(s)
                       /\ KeepAlive(s, i, "STOPPING") /\ UNCHANGED jobs
                    \/ /\ j.desired = "RUNNING" /\ ~JobTerminal(j.state) /\ rows[i].phase = "STOPPING"
                       /\ ends("fenced", "", "FAILED") /\ UNCHANGED <<rows, jobs>>
                    \/ /\ j.desired = "RUNNING" /\ ~JobTerminal(j.state) /\ rows[i].phase # "STOPPING"
                       /\ IF Owns(s, i) THEN To(s, "load") ELSE EndsPass(s)
                       /\ KeepAlive(s, i, IF passes[s].first THEN "STARTING" ELSE rows[i].phase) /\ UNCHANGED jobs
            /\ UNCHANGED planeVars /\ Execution

---------------------------------------------------------------------------
(* Ensure.                                                                  *)

verifyLease(s, i) ==
    rows[i].owner = {s} /\ rows[i].phase \in BeatingPhases /\ rows[i].lease = "live"

(* The captured compiler and descriptor are the active inventory's.         *)
RevisionsMatch(b) ==
    \E inventory \in Current :
        inventory.compiler = b.compiler /\ \E d \in Range(inventory.descriptors) : d.revision = b.descriptor

(* A mistake the properties must notice: the current generation is read.    *)
LoadedCurrent(b) ==
    {[role |-> b.role, uid |-> b.uid, generation |-> c.current.number, descriptor |-> b.descriptor,
      settings |-> c.current.settings, locator |-> c.current.locator] :
        c \in {connections[n] : n \in {x \in Names : connections[x].uid = b.uid}}}

(* A binding with the settings and the locator of its generation.           *)
Loaded(b) ==
    {[role |-> b.role, uid |-> b.uid, generation |-> b.generation, descriptor |-> b.descriptor,
      settings |-> g[2].settings, locator |-> g[2].locator] :
        g \in {x \in generations : x[1] = b.uid /\ x[2].number = b.generation}}

(* Reconcile fails.  An error that will not go away fails a first dispatch  *)
(* for good; any other leaves the execution to the next pass, or gives it   *)
(* up when it has stopped reporting.                                        *)
Failed(s, i, permanent) ==
    IF permanent /\ passes[s].first
    THEN /\ IF TransitionAccepted(i, "FAILED") THEN transition(i, "FAILED") ELSE UNCHANGED jobs
         /\ IF TransitionAccepted(i, "FAILED") /\ Owns(s, i) THEN complete(s, i, "FAILED") ELSE UNCHANGED rows
         /\ EndsPass(s)
    ELSE IF FenceAccepted(s, i)
    THEN /\ fenceExpiredHeartbeat(s, i) /\ UNCHANGED jobs
         /\ Steps(s, [passes[s] EXCEPT !.pc = "fenced", !.ending = <<"", "FAILED">>])
    ELSE KeepAlive(s, i, rows[i].phase) /\ UNCHANGED jobs /\ EndsPass(s)

Fails(s, i, permanent) == Failed(s, i, permanent) /\ UNCHANGED planeVars /\ Execution

finishHeartbeatFailure(s) ==
    \E i \in passes[s].i :
        /\ passes[s].pc = "fenced"
        /\ IF TransitionAccepted(i, "FAILED") THEN transition(i, "FAILED") /\ To(s, "stop")
           ELSE UNCHANGED jobs /\ EndsPass(s)
        /\ UNCHANGED <<rows, planeVars>> /\ Execution

Load(s) ==
    \E i \in passes[s].i :
        /\ passes[s].pc = "load" /\ verifyLease(s, i)
        /\ IF \E b \in BindingsOf(i) : ~RevisionsMatch(b) THEN Fails(s, i, TRUE)
           ELSE /\ Steps(s, [passes[s] EXCEPT !.pc = IF BindingsOf(i) = {} THEN "observe" ELSE "claim",
                                              !.bindings = UNION {Loaded(b) : b \in BindingsOf(i)}])
                /\ Reading

(* One obligation for each Connection; the ones there already are kept.     *)
ClaimCleanup(s) ==
    \E i \in passes[s].i :
        /\ passes[s].pc = "claim" /\ verifyLease(s, i)
        /\ cleanupObligations' = cleanupObligations \cup
             {[job |-> JobOf(i), epoch |-> EpochOf(i), uid |-> uid, state |-> "PENDING"] :
                uid \in {b.uid : b \in passes[s].bindings} \
                        {o.uid : o \in {x \in cleanupObligations : x.job = JobOf(i) /\ x.epoch = EpochOf(i)}}}
        /\ To(s, "secret")
        /\ UNCHANGED <<secrets, receipts, serial>> /\ Credentials

GetSecret(s) ==
    \E i \in passes[s].i :
        /\ passes[s].pc = "secret"
        /\ Steps(s, [passes[s] EXCEPT !.pc = "receipts", !.secret = secrets[i]])
        /\ Reading

bindingIdentityFingerprint(bindings) ==
    {<<b.role, b.uid, b.generation, b.descriptor>> : b \in bindings}

completeReceiptSet(found, bindings, secret) ==
    /\ Cardinality(found) = Cardinality(bindings)
    /\ \A b \in bindings : \E r \in found :
         /\ <<r.role, r.uid, r.generation, r.descriptor>> = <<b.role, b.uid, b.generation, b.descriptor>>
         /\ r.secret = secret.uid

ReceiptsOf(i) == {r \in receipts : r.job = JobOf(i) /\ r.epoch = EpochOf(i)}

ReadReceipts(s) ==
    \E i \in passes[s].i :
        LET p == passes[s]
            foreign == \E x \in p.secret : x.fingerprint # bindingIdentityFingerprint(p.bindings)
        IN  /\ p.pc = "receipts"
            /\ IF foreign THEN Fails(s, i, TRUE)
               ELSE /\ To(s, IF \E x \in p.secret : completeReceiptSet(ReceiptsOf(i), p.bindings, x)
                             THEN "observe" ELSE "build")
                    /\ Reading

(* The envelope of a binding: what it connects with, and the provider's     *)
(* answer, none for a Connection without secrets.                           *)
Envelope(b, version) ==
    [role |-> b.role, uid |-> b.uid, generation |-> b.generation, descriptor |-> b.descriptor,
     settings |-> b.settings, secret |-> b.locator.secret, version |-> version]

(* Resolve: the provider's answers for the bindings that have a locator.    *)
Answers(bindings) == {provider[b.locator.secret].state : b \in {x \in bindings : x.locator.provider # ""}}

(* A Secret that is not there may come; another one, or one with other      *)
(* keys, is refused for good.                                               *)
buildEnvelopes(s) ==
    \E i \in passes[s].i :
        LET p == passes[s]
        IN  /\ p.pc = "build"
            /\ IF Answers(p.bindings) \ {"ok"} # {} THEN Fails(s, i, "missing" \notin Answers(p.bindings))
               ELSE /\ Steps(s, [p EXCEPT !.pc = "create",
                            !.data = {Envelope(b, IF b.locator.provider = "" THEN 0
                                                  ELSE provider[b.locator.secret].version) : b \in p.bindings}])
                    /\ Reading

(* The Secret that was there, the one created now, or the one another       *)
(* replica has created since; other contents are a conflict.                *)
CreateSecret(s) ==
    \E i \in passes[s].i :
        LET p == passes[s]
            existing == IF p.secret # {} THEN p.secret ELSE secrets[i]
            made == [uid |-> serial + 1, data |-> p.data, fingerprint |-> bindingIdentityFingerprint(p.bindings)]
        IN  /\ p.pc = "create"
            /\ IF existing = {}
               THEN /\ secrets' = [secrets EXCEPT ![i] = {made}] /\ serial' = serial + 1
                    /\ Steps(s, [p EXCEPT !.pc = "commit", !.secret = {made}])
                    /\ UNCHANGED <<receipts, cleanupObligations>> /\ Credentials
               ELSE IF \E x \in existing : x.data # p.data \/ x.fingerprint # made.fingerprint THEN Fails(s, i, TRUE)
               ELSE Steps(s, [p EXCEPT !.pc = "commit", !.secret = existing]) /\ Reading

Receipt(i, d, secret) ==
    [job |-> JobOf(i), epoch |-> EpochOf(i), role |-> d.role, uid |-> d.uid, generation |-> d.generation,
     descriptor |-> d.descriptor, version |-> d.version, secret |-> secret]

(* The transaction: a receipt that is there must be the same.               *)
CommitReceipts(s) ==
    \E i \in passes[s].i : \E x \in passes[s].secret :
        LET made == {Receipt(i, d, x.uid) : d \in passes[s].data}
            bound == \A r \in made : \E b \in BindingsOf(i) :
                        <<b.role, b.uid, b.generation, b.descriptor>> = <<r.role, r.uid, r.generation, r.descriptor>>
        IN  /\ passes[s].pc = "commit" /\ verifyLease(s, i)
            /\ IF ~bound \/ \E r \in made, old \in ReceiptsOf(i) : old.role = r.role /\ old # r
               THEN Fails(s, i, TRUE)
               ELSE /\ receipts' = receipts \cup made
                    /\ To(s, "observe")
                    /\ UNCHANGED <<secrets, cleanupObligations, serial>> /\ Credentials

LeaseGone(s) ==
    /\ passes[s].pc \in {"load", "claim", "commit"} /\ \A i \in passes[s].i : ~verifyLease(s, i)
    /\ EndsPass(s) /\ Reading

(* A call fails, times out, or the replica stops.                           *)
Abandon(s) ==
    /\ passes[s].pc # "idle" /\ faults < MaxFaults
    /\ faults' = faults + 1 /\ Steps(s, Resting)
    /\ UNCHANGED <<rows, jobs, planeVars, credentialVars, provider, providerEdits>> /\ Others

---------------------------------------------------------------------------
(* The data plane.                                                          *)

verifyMaterializedRoles(i, bindings) ==
    \A j \in Job(i) : {b.role : b \in bindings} = {r \in Roles : j.spec[r].ref # 0}

Deleting(object) == IF object = "absent" THEN "absent" ELSE "deleting"
Set(object, i, state) == [object EXCEPT ![i] = state]

(* The Coordinator has ended: once the Workers are gone the Job ends too.   *)
Ended(s, i) ==
    LET state == IF coordinator[i] = "complete" THEN "FINISHED" ELSE "FAILED"
    IN  /\ workers[i] = "absent" /\ EndsPass(s)
        /\ IF TransitionAccepted(i, state)
           THEN /\ transition(i, state)
                /\ IF Owns(s, i) THEN complete(s, i, phaseFor(state)) ELSE UNCHANGED rows
           ELSE UNCHANGED <<jobs, rows>>
        /\ UNCHANGED planeVars

EndedSoon(s, i) ==
    /\ workers[i] # "absent" /\ workers' = Set(workers, i, "deleting") /\ UNCHANGED coordinator
    /\ Failed(s, i, FALSE)

(* First the Workers, then the Coordinator, which is then observed.         *)
Launches(s, i) ==
    /\ \/ workers[i] = "absent" /\ workers' = Set(workers, i, "running") /\ UNCHANGED coordinator
       \/ /\ workers[i] = "running" /\ coordinator[i] = "absent"
          /\ coordinator' = Set(coordinator, i, "running") /\ UNCHANGED workers
    /\ EndsPass(s) /\ KeepAlive(s, i, rows[i].phase) /\ UNCHANGED jobs

Runs(s, i) ==
    /\ coordinator[i] = "running" /\ workers[i] = "running" /\ rows[i].beat = "fresh"
    /\ IF TransitionAccepted(i, "RUNNING")
       THEN transition(i, "RUNNING") /\ KeepAlive(s, i, "RUNNING") ELSE UNCHANGED <<jobs, rows>>
    /\ EndsPass(s) /\ UNCHANGED planeVars

(* What is being deleted is not ready.                                      *)
Observed(s) ==
    \E i \in passes[s].i :
        /\ passes[s].pc = "observe"
        /\ IF \/ ~verifyMaterializedRoles(i, passes[s].bindings)
              \/ /\ coordinator[i] \notin {"complete", "failed"}
                 /\ \/ "deleting" \in {coordinator[i], workers[i]} /\ workers[i] # "absent"
                    \/ coordinator[i] = "running" /\ workers[i] = "running" /\ rows[i].beat = "stale"
           THEN Fails(s, i, ~verifyMaterializedRoles(i, passes[s].bindings))
           ELSE /\ Execution
                /\ IF coordinator[i] \in {"complete", "failed"} THEN Ended(s, i) \/ EndedSoon(s, i)
                   ELSE Launches(s, i) \/ Runs(s, i)

CoordinatorEnds(i, end) ==
    /\ coordinator[i] = "running" /\ coordinator' = Set(coordinator, i, end)
    /\ UNCHANGED <<rows, jobs, workers, passes>> /\ Execution

(* Deleted objects are there until their pods are gone.                     *)
ObjectGone(i) ==
    /\ \/ coordinator[i] = "deleting" /\ coordinator' = Set(coordinator, i, "absent") /\ UNCHANGED workers
       \/ workers[i] = "deleting" /\ workers' = Set(workers, i, "absent") /\ UNCHANGED coordinator
    /\ UNCHANGED <<rows, jobs, passes>> /\ Execution

---------------------------------------------------------------------------
(* The end of an execution.                                                 *)

(* Stop deletes everything, Cleanup keeps a Coordinator that has ended.     *)
Stop(s) ==
    \E i \in passes[s].i :
        /\ passes[s].pc \in {"stop", "cleanup"}
        /\ coordinator' = IF passes[s].pc = "stop" THEN Set(coordinator, i, Deleting(coordinator[i])) ELSE coordinator
        /\ workers' = Set(workers, i, Deleting(workers[i]))
        /\ To(s, IF passes[s].pc = "stop" THEN "gone" ELSE "auxiliary-gone")
        /\ UNCHANGED <<rows, jobs>> /\ Execution

resourcesGone(s) ==
    \E i \in passes[s].i :
        LET stopping == passes[s].pc = "gone"
        IN  /\ passes[s].pc \in {"gone", "auxiliary-gone"}
            /\ IF workers[i] = "absent" /\ (stopping => coordinator[i] = "absent")
               THEN To(s, "delete") /\ UNCHANGED rows
               ELSE EndsPass(s) /\ KeepAlive(s, i, IF stopping THEN "STOPPING" ELSE rows[i].phase)
            /\ UNCHANGED <<jobs, planeVars>> /\ Execution

(* The credential Secret: delete it, look again, settle the obligations.    *)
DeleteSecret(s) ==
    \E i \in passes[s].i :
        /\ passes[s].pc = "delete"
        /\ secrets' = Set(secrets, i, {}) /\ To(s, "confirm")
        /\ UNCHANGED <<receipts, cleanupObligations, serial>> /\ Credentials

(* A sweep ends nothing: its rows have ended before.                        *)
CompleteCleanup(s) ==
    \E i \in passes[s].i :
        /\ passes[s].pc = "confirm"
        /\ cleanupObligations' =
             {IF secrets[i] = {} /\ o.job = JobOf(i) /\ o.epoch = EpochOf(i)
              THEN [o EXCEPT !.state = "COMPLETE"] ELSE o : o \in cleanupObligations}
        /\ IF passes[s].ending[2] = "" THEN Steps(s, Resting)
           ELSE IF secrets[i] = {} THEN To(s, "end") ELSE EndsPass(s)
        /\ UNCHANGED <<secrets, receipts, serial>> /\ Credentials

EndExecution(s) ==
    \E i \in passes[s].i :
        LET target == passes[s].ending[1]
            accepted == target = "" \/ TransitionAccepted(i, target)
        IN  /\ passes[s].pc = "end"
            /\ IF target # "" /\ accepted THEN transition(i, target) ELSE UNCHANGED jobs
            /\ IF accepted /\ Owns(s, i) THEN complete(s, i, passes[s].ending[2]) ELSE UNCHANGED rows
            /\ EndsPass(s)
            /\ UNCHANGED planeVars /\ Execution

ListRows(s) ==
    /\ passes[s].pc = "list"
    /\ Steps(s, [passes[s] EXCEPT !.pc = "sweep", !.active = ActiveRows, !.known = KnownRows])
    /\ Reading

(* A mistake the properties must notice: known executions are no orphans.   *)
SweepOrphansUnknown(s) ==
    LET p == passes[s]
        orphans == {i \in Executions : i \notin p.known /\ secrets[i] # {}}
    IN  /\ p.pc = "sweep"
        /\ workers' = [i \in Executions |-> IF i \in p.active THEN workers[i] ELSE Deleting(workers[i])]
        /\ coordinator' = [i \in Executions |-> IF i \in p.known THEN coordinator[i] ELSE Deleting(coordinator[i])]
        /\ IF orphans = {} THEN Steps(s, Resting)
           ELSE \E i \in orphans : Steps(s, [p EXCEPT !.i = {i}, !.pc = "orphan"])
        /\ UNCHANGED <<rows, jobs>> /\ Execution

(* Workers of executions that are not active go, Coordinators of unknown    *)
(* ones, and the credential Secret once its Workers are gone.               *)
SweepOrphans(s) ==
    LET p == passes[s]
        orphans == {i \in Executions : i \notin p.active /\ secrets[i] # {}}
    IN  /\ p.pc = "sweep"
        /\ workers' = [i \in Executions |-> IF i \in p.active THEN workers[i] ELSE Deleting(workers[i])]
        /\ coordinator' = [i \in Executions |-> IF i \in p.known THEN coordinator[i] ELSE Deleting(coordinator[i])]
        /\ IF orphans = {} THEN Steps(s, Resting)
           ELSE \E i \in orphans : Steps(s, [p EXCEPT !.i = {i}, !.pc = "orphan"])
        /\ UNCHANGED <<rows, jobs>> /\ Execution

dataPlaneAuxiliaryGone(s) ==
    \E i \in passes[s].i :
        /\ passes[s].pc = "orphan"
        /\ IF workers[i] = "absent" THEN To(s, "delete") ELSE Steps(s, Resting)
        /\ Reading

---------------------------------------------------------------------------
(* The tenant changes a provider Secret: its labels, or deletes it, or      *)
(* replaces it by another of the same name.                                 *)
EditProvider(n, states) ==
    /\ providerEdits < MaxProviderEdits /\ providerEdits' = providerEdits + 1
    /\ \E state \in states :
         provider' = [provider EXCEPT ![n] = [version |-> @.version + 1, state |-> state]]
    /\ UNCHANGED <<rows, jobs, planeVars, credentialVars, passes, faults>> /\ Others

LeaseExpires(i) ==
    /\ leaseExpires(i) /\ faults < MaxFaults /\ faults' = faults + 1
    /\ UNCHANGED <<jobs, planeVars, passes, credentialVars, provider, providerEdits>> /\ Others
HeartbeatExpires(i) == heartbeatExpires(i) /\ UNCHANGED <<jobs, planeVars, passes>> /\ Execution

Heartbeat(i) ==
    /\ coordinator[i] = "running" /\ recordHeartbeat(i)
    /\ UNCHANGED <<jobs, planeVars, passes>> /\ Execution

SchedulerStep(s) ==
    \/ Claim(s) \/ Route(s) \/ finishHeartbeatFailure(s) \/ Load(s) \/ ClaimCleanup(s) \/ GetSecret(s) \/ ReadReceipts(s)
    \/ buildEnvelopes(s) \/ CreateSecret(s) \/ CommitReceipts(s) \/ LeaseGone(s) \/ Observed(s)
    \/ Stop(s) \/ resourcesGone(s) \/ DeleteSecret(s) \/ CompleteCleanup(s) \/ EndExecution(s)
    \/ ListRows(s) \/ SweepOrphans(s) \/ dataPlaneAuxiliaryGone(s)

MaterializationInit ==
    /\ RowsInit
    /\ secrets = [i \in Executions |-> {}] /\ receipts = {}
    /\ coordinator = [i \in Executions |-> "absent"] /\ workers = coordinator
    /\ provider = [n \in SecretNames |-> [version |-> 1, state |-> "ok"]]
    /\ passes = [s \in Schedulers |-> Resting] /\ serial = 0 /\ providerEdits = 0 /\ faults = 0

---------------------------------------------------------------------------
(* Properties.                                                              *)

GenerationOf(b) == CHOOSE g \in generations : g[1] = b.uid /\ g[2].number = b.generation

(* What an execution connects with is what was captured when its epoch      *)
(* began, whatever was rotated since and however many replicas have worked  *)
(* on it: a credential Secret holds the settings and the provider's object  *)
(* of exactly the bound generations, its receipts record what it holds, and *)
(* no Worker is launched before every role has its receipt (Ensure).        *)
ConnectsAsCaptured ==
    \A i \in Executions :
        /\ \A x \in secrets[i] :
             /\ {d.role : d \in x.data} = {b.role : b \in BindingsOf(i)}
             /\ \A d \in x.data, b \in BindingsOf(i) : d.role = b.role =>
                    /\ <<d.uid, d.generation>> = <<b.uid, b.generation>>
                    /\ d.settings = GenerationOf(b)[2].settings /\ d.secret = GenerationOf(b)[2].locator.secret
             /\ \A r \in ReceiptsOf(i) : r.secret = x.uid =>
                    \E d \in x.data : d.role = r.role /\ d.version = r.version
        /\ workers[i] = "running" =>
             {r.role : r \in ReceiptsOf(i)} = {b.role : b \in BindingsOf(i)}

(* In the end no credentials are left behind: once an execution has ended   *)
(* its Secret is deleted for good, also when the replica that created it    *)
(* lost its lease or stopped in between (Cleanup, SweepOrphans).            *)
CredentialsAreRemoved ==
    <>[](\A i \in Executions : rows[i].phase \in TerminalPhases => secrets[i] = {})

(* A running epoch continues against what it captured: an execution whose   *)
(* Coordinator has completed is not given up as silent by a pass that has   *)
(* not looked at its Workers (Load, failHeartbeat).                         *)
RunningEpochsContinue ==
    [][\A i \in Executions :
        /\ coordinator[i] = "complete" /\ workers[i] = "running" /\ workers'[i] = "running"
        /\ rows[i].phase = "RUNNING" /\ \E j \in Job(i) : j.desired = "RUNNING"
        => rows'[i].phase # "STOPPING"]_<<rows>>

===============================================================================
