----------------------------- MODULE JobScheduling -----------------------------
(***************************************************************************)
(* Scheduling of jobs: the stored Jobs with the API that starts and stops  *)
(* them, the Scheduler replicas (Reconciler) that claim dispatch rows and  *)
(* drive every row they own, the execution groups they create in           *)
(* Kubernetes (Dispatcher), the Coordinator that runs in a group, with its *)
(* heartbeats, and the epoch its checkpoint store has granted.             *)
(*                                                                         *)
(* An execution is a pair of a Job and an epoch.  A replica works on all   *)
(* its executions concurrently, one goroutine each; a goroutine is its     *)
(* program location and locals, and every call to PostgreSQL or Kubernetes *)
(* is a step.  A crash of a replica is the end of all its goroutines.      *)
(***************************************************************************)
EXTENDS JobLifecycle, DispatchStore

CONSTANTS
    Jobs,         \* the Jobs, by key; a key is not reused
    Schedulers,   \* Scheduler replicas, by owner ID
    MaxEpoch,     \* bound on the starts of a Job
    Faults,       \* calls fail and replicas crash at any time: "always", or until
                  \* that comes to an end, "cease"
    Deadlines     \* TRUE: the operation deadline, shorter than the lease, ends a
                  \* goroutine before the lease it renewed runs out

ASSUME SchedulingAssumption ==
    /\ IsFiniteSet(Jobs)
    /\ MaxEpoch \in Nat
    /\ Executions = Jobs \X (1..MaxEpoch)
    /\ Faults \in {"always", "cease"}
    /\ Deadlines \in BOOLEAN

VARIABLES
    jobs,     \* astrasync_control_jobs
    kube,     \* by execution: its group of Kubernetes objects
    epochs,   \* by Job: the active epoch of its checkpoint store
    ticks,    \* by replica: where its tick stands
    work,     \* by replica and execution: the goroutine
    faults,   \* TRUE while calls may fail
    done      \* history: the executions whose Coordinator ran to its end

vars == <<rows, jobs, kube, epochs, ticks, work, faults, done>>

JobOf(i) == i[1]
EpochOf(i) == i[2]

-------------------------------------------------------------------------------
(* A group: the Coordinator Job ("active" has a pod, "running" has one that *)
(* acquired its epoch) and whether its deletion was requested, the Workers  *)
(* (a StatefulSet) and whether enough of them are ready, and the Secret and *)
(* Service the pods need, which come and go together.                       *)

NoGroup == [coordinator |-> "absent", deleting |-> FALSE,
            workers |-> "absent", ready |-> FALSE, config |-> FALSE]

dataPlaneAuxiliaryGone(g) == g.workers = "absent" /\ ~g.config

resourcesGone(g) == g.coordinator = "absent" /\ dataPlaneAuxiliaryGone(g)

(* The objects the dispatcher makes for an execution: the Workers, which    *)
(* are ready later, and the Coordinator Job, which gets its pod later.  One *)
(* that exists is kept, also while it is being deleted.                     *)
workerStatefulSet(g) == [g EXCEPT !.workers = IF @ = "absent" THEN "present" ELSE @]

coordinatorJob(g) == [g EXCEPT !.coordinator = "pending"]

(* What the status of a Coordinator Job says of the execution.              *)
observeJob(coordinator) ==
    CASE coordinator = "complete" -> "FINISHED"
      [] coordinator = "failed" -> "FAILED"
      [] coordinator \in {"active", "running"} -> "RUNNING"
      [] OTHER -> "PENDING"

Ended(coordinator) == observeJob(coordinator) \in {"FINISHED", "FAILED"}

(* Deleting in the foreground leaves an object until its pods have ended;   *)
(* Secrets and Services own no pods.                                        *)
DeleteCoordinator(g) ==
    [g EXCEPT !.deleting = g.coordinator # "absent"]

DeleteAuxiliary(g) ==
    [g EXCEPT !.workers = IF @ = "present" THEN "deleting" ELSE @, !.config = FALSE]

(* Deleting in the background removes the Workers' object at once, unless   *)
(* it is being deleted in the foreground.                                   *)
cleanupAuxiliary(g) ==
    [g EXCEPT !.workers = IF @ = "present" THEN "absent" ELSE @,
              !.ready = @ /\ g.workers = "deleting", !.config = FALSE]

-------------------------------------------------------------------------------
(* A goroutine.  "flow" is the branch of reconcile it took, "target" the    *)
(* state it wants the Job in, "phase" and "beat" its copy of the row,       *)
(* "first" whether it saw the row CLAIMED, "seen" the Coordinator Job it    *)
(* got, "read" the Job a transition read.                                   *)

Idle == [at |-> "idle", flow |-> "run", target |-> "RUNNING", phase |-> "CLAIMED",
         beat |-> "fresh", first |-> FALSE, seen |-> "absent", read |-> NoJob]

Begin(row) == [Idle EXCEPT !.at = "get", !.phase = row.phase, !.beat = row.beat]

(* To the next location, forgetting the locals that are not used again.     *)
Go(t, at) ==
    CASE at \in {"keep", "observe", "ensure", "create"} -> [t EXCEPT !.at = at]
      [] at \in {"halt", "renew"} -> [Idle EXCEPT !.at = at, !.phase = t.phase,
             !.flow = IF at = "halt" THEN t.flow ELSE @,
             !.target = IF at = "halt" THEN t.target ELSE @]
      [] at \in {"read", "write", "stop", "gone", "cleanup"} -> [t EXCEPT !.at = at,
             !.phase = IF t.flow = "run" THEN Idle.phase ELSE @,
             !.beat = Idle.beat, !.first = FALSE, !.seen = Idle.seen]
      [] at = "complete" -> [Idle EXCEPT !.at = at, !.target = t.target]
      [] at = "fence" -> [Idle EXCEPT !.at = at]

(* A mistake the properties must notice: the age is never looked at.        *)
heartbeatExpiredNever(t) == FALSE

heartbeatExpired(t) == t.beat = "stale"

phaseForTerminalState(state) ==
    CASE state = "FINISHED" -> "SUCCEEDED"
      [] state = "FAILED" -> "FAILED"
      [] state = "CANCELED" -> "CANCELED"

Init ==
    /\ RowsInit
    /\ jobs = [j \in Jobs |-> NewJob]
    /\ kube = [i \in Executions |-> NoGroup]
    /\ epochs = [j \in Jobs |-> 0]
    /\ ticks = [s \in Schedulers |-> [at |-> "idle", known |-> {}, active |-> {}]]
    /\ work = [s \in Schedulers |-> [i \in Executions |-> Idle]]
    /\ faults = TRUE
    /\ done = {}

-------------------------------------------------------------------------------
(* The API: Start, Stop and Delete, each one serializable transaction.      *)

StartJob(j) ==
    /\ jobs[j] # NoJob
    /\ StartAccepted(jobs[j])
    /\ jobs[j].epoch < MaxEpoch
    /\ jobs' = [jobs EXCEPT ![j] = Updated(Started(@))]
    /\ UNCHANGED <<rows, kube, epochs, ticks, work, done>>

StopJob(j) ==
    /\ jobs[j] # NoJob
    /\ StopAccepted(jobs[j])
    /\ jobs' = [jobs EXCEPT ![j] = Updated(Stopped(@))]
    /\ UNCHANGED <<rows, kube, epochs, ticks, work, done>>

DeleteJob(j) ==
    /\ jobs[j] # NoJob
    /\ ~JobActive(jobs[j].state)
    /\ jobs' = [jobs EXCEPT ![j] = NoJob]
    /\ deleteRows({i \in Executions : JobOf(i) = j})
    /\ UNCHANGED <<kube, epochs, ticks, work, done>>

-------------------------------------------------------------------------------
(* A tick: claim rows, reconcile each, then sweep what no row accounts for. *)

(* A mistake the properties must notice: the epoch is not the Job's.        *)
PendingAnyEpoch ==
    {i \in Executions : jobs[JobOf(i)].state = "INITIALIZING" /\ rows[i] = NoRow}

Pending ==
    {i \in Executions :
        LET j == jobs[JobOf(i)]
        IN  /\ j.desired = "RUNNING" /\ j.state = "INITIALIZING"
            /\ j.epoch = EpochOf(i)
            /\ rows[i] = NoRow}

(* A mistake the properties must notice: rows being stopped are left alone. *)
ClaimBeating(s) ==
    /\ ticks[s].at = "idle"
    /\ ticks' = [ticks EXCEPT ![s].at = "work"]
    /\ \E admitted \in Admissible(Pending) :
        /\ claim(s, admitted)
        /\ work' = [work EXCEPT ![s] =
               [i \in Executions |->
                   IF rows'[i].owner = {s} /\ rows'[i].phase \in BeatingPhases
                     THEN Begin(rows'[i]) ELSE Idle]]
    /\ UNCHANGED <<jobs, kube, epochs, done>>

Claim(s) ==
    /\ ticks[s].at = "idle"
    /\ ticks' = [ticks EXCEPT ![s].at = "work"]
    /\ \E admitted \in Admissible(Pending) :
        /\ claim(s, admitted)
        /\ work' = [work EXCEPT ![s] =
               [i \in Executions |->
                   IF rows'[i].owner = {s} /\ rows'[i].phase \in ActivePhases
                     THEN Begin(rows'[i]) ELSE Idle]]
    /\ UNCHANGED <<jobs, kube, epochs, done>>

(* dispatches.List, once every goroutine has returned.                      *)
List(s) ==
    /\ ticks[s].at = "work"
    /\ \A i \in Executions : work[s][i] = Idle
    /\ ticks' = [ticks EXCEPT ![s] =
           [at |-> "sweep", known |-> KnownRows, active |-> ActiveRows]]
    /\ UNCHANGED <<rows, jobs, kube, epochs, work, done>>

(* A mistake the properties must notice: nothing is swept.                  *)
SweptNothing(s, g, i) == g

(* What the sweep leaves of a group, given the rows List returned.          *)
Swept(s, g, i) ==
    LET kept == IF i \in ticks[s].active THEN g ELSE DeleteAuxiliary(g)
    IN  IF i \in ticks[s].known THEN kept ELSE DeleteCoordinator(kept)

SweepOrphans(s) ==
    /\ ticks[s].at = "sweep"
    /\ kube' = [i \in Executions |-> Swept(s, kube[i], i)]
    /\ ticks' = [ticks EXCEPT ![s] = [at |-> "idle", known |-> {}, active |-> {}]]
    /\ UNCHANGED <<rows, jobs, epochs, work, done>>

(* List or the sweep fails, or its deadline passes.                         *)
SkipSweep(s) ==
    /\ ticks[s].at = "sweep" \/ (ticks[s].at = "work" /\ work[s] = [i \in Executions |-> Idle])
    /\ ticks' = [ticks EXCEPT ![s] = [at |-> "idle", known |-> {}, active |-> {}]]
    /\ UNCHANGED <<rows, jobs, kube, epochs, work, done>>

-------------------------------------------------------------------------------
(* The goroutine of s for i: reconcile.                                     *)

Becomes(s, i, t) == work' = [work EXCEPT ![s][i] = t]

(* reconcile's branches on the Job it got.                                  *)
Route(j, i, t) ==
    CASE j = NoJob -> Go(t, "renew")
      [] j # NoJob /\ j.epoch # EpochOf(i) ->
            [Go([t EXCEPT !.flow = "stale"], "stop") EXCEPT !.target = "CANCELED"]
      [] j # NoJob /\ j.epoch = EpochOf(i) /\ JobTerminal(j.state) ->
            [Go([t EXCEPT !.flow = "ended"], IF t.phase = "STOPPING" THEN "stop" ELSE "cleanup")
                EXCEPT !.target = j.state]
      [] j # NoJob /\ j.epoch = EpochOf(i) /\ j.state = "CANCELING" ->
            [Go(t, "halt") EXCEPT !.flow = "cancel", !.target = "CANCELED",
                                  !.phase = "STOPPING"]
      [] j # NoJob /\ j.epoch = EpochOf(i) /\ j.state \in {"INITIALIZING", "RUNNING"} ->
            IF t.phase = "STOPPING"
              THEN [Go([t EXCEPT !.flow = "heartbeat"], "read") EXCEPT !.target = "FAILED"]
              ELSE [Go(t, "keep") EXCEPT !.first = (t.phase = "CLAIMED"),
                        !.phase = IF @ = "CLAIMED" THEN "STARTING" ELSE @]

GetJob(s, i) ==
    /\ work[s][i].at = "get"
    /\ Becomes(s, i, Route(jobs[JobOf(i)], i, work[s][i]))
    /\ UNCHANGED <<rows, jobs, kube, epochs, ticks, done>>

(* keepAlive, and what follows it; a lost lease ends the goroutine.         *)
AfterKeepAlive(t) ==
    CASE t.at = "keep" -> Go(t, "observe")
      [] t.at = "halt" -> Go(t, "stop")
      [] t.at = "renew" -> Idle

KeepAlive(s, i) ==
    LET t == work[s][i]
    IN  /\ t.at \in {"keep", "halt", "renew"}
        /\ update(s, i, t.phase)
        /\ Becomes(s, i, AfterKeepAlive(t))
        /\ UNCHANGED <<jobs, kube, epochs, ticks, done>>

LeaseLost(s, i) ==
    /\ work[s][i].at \in {"keep", "halt", "renew", "complete"}
    /\ ~Owns(s, i)
    /\ Becomes(s, i, Idle)
    /\ UNCHANGED <<rows, jobs, kube, epochs, ticks, done>>

-------------------------------------------------------------------------------
(* Dispatcher.Reconcile, and what reconcile makes of its observation.       *)

(* An observation of a live or a failing execution, once the heartbeat has  *)
(* been looked at.                                                          *)
Judged(t, observation) ==
    IF heartbeatExpired(t) THEN Go(t, "fence")
    ELSE IF observation = "RUNNING" THEN [Go(t, "read") EXCEPT !.target = "RUNNING"]
    ELSE Go(t, "renew")

(* An ended Coordinator is reported once the auxiliary objects are gone;    *)
(* while they are still terminating the observation is an error.            *)
ObserveEnded(s, i) ==
    LET t == work[s][i]
        g == kube[i]
    IN  /\ t.at = "observe"
        /\ Ended(g.coordinator)
        /\ kube' = [kube EXCEPT ![i] = cleanupAuxiliary(g)]
        /\ IF g.workers = "deleting"
             THEN Becomes(s, i, Judged(t, "ERROR"))
             ELSE Becomes(s, i, [Go(t, "read") EXCEPT !.target = observeJob(g.coordinator)])
        /\ UNCHANGED <<rows, jobs, epochs, ticks, done>>

ObserveLive(s, i) ==
    LET t == work[s][i]
        g == kube[i]
    IN  /\ t.at = "observe"
        /\ ~Ended(g.coordinator)
        /\ Becomes(s, i, [Go(t, "ensure") EXCEPT !.seen = g.coordinator])
        /\ UNCHANGED <<rows, jobs, kube, epochs, ticks, done>>

EnsureAuxiliary(s, i) ==
    LET t == work[s][i]
        g == kube[i]
    IN  /\ t.at = "ensure"
        /\ kube' = [kube EXCEPT ![i] = [workerStatefulSet(g) EXCEPT !.config = TRUE]]
        /\ Becomes(s, i, IF g.ready THEN Go(t, "create") ELSE Judged(t, "PENDING"))
        /\ UNCHANGED <<rows, jobs, epochs, ticks, done>>

(* The Coordinator Job is created only if none was there at "observe"; one  *)
(* that another replica created since is adopted.                           *)
CreateCoordinator(s, i) ==
    LET t == work[s][i]
        g == kube[i]
        created == t.seen = "absent" /\ g.coordinator = "absent"
        existing == IF t.seen # "absent" THEN t.seen
                    ELSE IF created THEN "pending" ELSE g.coordinator
    IN  /\ t.at = "create"
        /\ kube' = IF created THEN [kube EXCEPT ![i] = coordinatorJob(g)] ELSE kube
        /\ Becomes(s, i, Judged(t, observeJob(existing)))
        /\ UNCHANGED <<rows, jobs, epochs, ticks, done>>

(* A Kubernetes or materialization call fails.                              *)
DispatchError(s, i) ==
    LET t == work[s][i]
    IN  /\ t.at \in {"observe", "ensure", "create"}
        /\ Becomes(s, i, Judged(t, "ERROR"))
        /\ UNCHANGED <<rows, jobs, kube, epochs, ticks, done>>

(* The first dispatch of an execution is refused for good: its document or  *)
(* its credentials cannot be made.                                          *)
DispatchRejected(s, i) ==
    LET t == work[s][i]
    IN  /\ t.at \in {"observe", "ensure", "create"} /\ t.first
        /\ Becomes(s, i, [Go(t, "read") EXCEPT !.target = "FAILED"])
        /\ UNCHANGED <<rows, jobs, kube, epochs, ticks, done>>

(* failHeartbeat: the fence decides whether the execution is given up.      *)
FenceHeartbeat(s, i) ==
    /\ work[s][i].at = "fence"
    /\ fenceExpiredHeartbeat(s, i)
    /\ Becomes(s, i, [Go(work[s][i], "read") EXCEPT !.flow = "heartbeat",
                          !.target = "FAILED", !.phase = "STOPPING"])
    /\ UNCHANGED <<jobs, kube, epochs, ticks, done>>

FenceRefused(s, i) ==
    /\ work[s][i].at = "fence"
    /\ ~FenceAccepted(s, i)
    /\ Becomes(s, i, Idle)
    /\ UNCHANGED <<rows, jobs, kube, epochs, ticks, done>>

-------------------------------------------------------------------------------
(* transition: read the Job, then write it, and again after a conflict.  A  *)
(* Job that completed before it was seen running passes through RUNNING.    *)

NextState(j, t) ==
    IF t.target = "FINISHED" /\ j.state = "INITIALIZING" THEN "RUNNING" ELSE t.target

(* Where a successful transition leads.                                     *)
Continue(t) ==
    CASE t.flow = "run" /\ t.target = "RUNNING" -> [Go(t, "renew") EXCEPT !.phase = "RUNNING"]
      [] t.flow = "run" /\ t.target # "RUNNING" -> Go(t, "complete")
      [] t.flow = "cancel" -> Go(t, "complete")
      [] t.flow = "heartbeat" -> Go(t, "stop")

(* A mistake the properties must notice: any terminal state will do.        *)
TransitionReadAnyEnd(s, i) ==
    LET t == work[s][i]
        j == jobs[JobOf(i)]
    IN  /\ t.at = "read"
        /\ Becomes(s, i,
              IF j = NoJob \/ j.epoch # EpochOf(i) THEN Idle
              ELSE IF j.state = t.target \/ JobTerminal(j.state) THEN Continue(t)
              ELSE IF ~AdvanceAccepted(j, EpochOf(i), NextState(j, t)) THEN Idle
              ELSE [Go(t, "write") EXCEPT !.read = j])
        /\ UNCHANGED <<rows, jobs, kube, epochs, ticks, done>>

TransitionRead(s, i) ==
    LET t == work[s][i]
        j == jobs[JobOf(i)]
    IN  /\ t.at = "read"
        /\ Becomes(s, i,
              IF j = NoJob \/ j.epoch # EpochOf(i) THEN Idle
              ELSE IF j.state = t.target THEN Continue(t)
              ELSE IF ~AdvanceAccepted(j, EpochOf(i), NextState(j, t)) THEN Idle
              ELSE [Go(t, "write") EXCEPT !.read = j])
        /\ UNCHANGED <<rows, jobs, kube, epochs, ticks, done>>

TransitionWrite(s, i) ==
    LET t == work[s][i]
        next == Advanced(t.read, NextState(t.read, t))
        unread == [t EXCEPT !.read = NoJob]
    IN  /\ t.at = "write"
        /\ IF UpdateAccepted(jobs[JobOf(i)], next)
             THEN /\ jobs' = [jobs EXCEPT ![JobOf(i)] = Updated(next)]
                  /\ Becomes(s, i, IF next.state = t.target THEN Continue(unread)
                                   ELSE Go(unread, "read"))
             ELSE /\ Becomes(s, i, Go(unread, "read"))
                  /\ UNCHANGED jobs
        /\ UNCHANGED <<rows, kube, epochs, ticks, done>>

-------------------------------------------------------------------------------
(* Dispatcher.Stop and Cleanup, and the end of a dispatch.                  *)

StopDeletes(s, i) ==
    /\ work[s][i].at = "stop"
    /\ kube' = [kube EXCEPT ![i] = DeleteAuxiliary(DeleteCoordinator(@))]
    /\ Becomes(s, i, Go(work[s][i], "gone"))
    /\ UNCHANGED <<rows, jobs, epochs, ticks, done>>

(* While something is left the row says STOPPING, and the next tick goes on.*)
StopChecks(s, i) ==
    LET t == work[s][i]
    IN  /\ t.at = "gone"
        /\ Becomes(s, i,
              IF ~resourcesGone(kube[i]) THEN [Go(t, "renew") EXCEPT !.phase = "STOPPING"]
              ELSE IF t.flow = "cancel" THEN Go(t, "read")
              ELSE Go(t, "complete"))
        /\ UNCHANGED <<rows, jobs, kube, epochs, ticks, done>>

Cleanup(s, i) ==
    LET t == work[s][i]
        left == cleanupAuxiliary(kube[i])
    IN  /\ t.at = "cleanup"
        /\ kube' = [kube EXCEPT ![i] = left]
        /\ Becomes(s, i, Go(t, IF dataPlaneAuxiliaryGone(left) THEN "complete" ELSE "renew"))
        /\ UNCHANGED <<rows, jobs, epochs, ticks, done>>

Complete(s, i) ==
    LET t == work[s][i]
    IN  /\ t.at = "complete"
        /\ complete(s, i, phaseForTerminalState(t.target))
        /\ Becomes(s, i, Idle)
        /\ UNCHANGED <<jobs, kube, epochs, ticks, done>>

(* A failed call of get, Stop or Cleanup: recordTransientError.             *)
TransientError(s, i) ==
    LET t == work[s][i]
    IN  /\ t.at \in {"get", "stop", "gone", "cleanup"}
        /\ Becomes(s, i, Go(t, "renew"))
        /\ UNCHANGED <<rows, jobs, kube, epochs, ticks, done>>

(* The goroutine returns early: a statement failed, the deadline passed,    *)
(* the fifth conflict, or its replica crashed.                              *)
Abort(s, i) ==
    /\ work[s][i] # Idle
    /\ Becomes(s, i, Idle)
    /\ UNCHANGED <<rows, jobs, kube, epochs, ticks, done>>

-------------------------------------------------------------------------------
(* Kubernetes and the Coordinator, as the Scheduler can observe them.  The  *)
(* TTL of an ended Coordinator Job is longer than any step and left out.    *)

Group(i, g) ==
    /\ kube' = [kube EXCEPT ![i] = g]
    /\ UNCHANGED <<jobs, ticks>>

WorkersReady(i) ==
    /\ kube[i].workers = "present" /\ ~kube[i].ready
    /\ Group(i, [kube[i] EXCEPT !.ready = TRUE])
    /\ UNCHANGED <<rows, epochs, work, done>>

WorkersGone(i) ==
    /\ kube[i].workers = "deleting"
    /\ Group(i, [kube[i] EXCEPT !.workers = "absent", !.ready = FALSE])
    /\ UNCHANGED <<rows, epochs, work, done>>

CoordinatorPod(i) ==
    /\ kube[i].coordinator = "pending" /\ ~kube[i].deleting
    /\ Group(i, [kube[i] EXCEPT !.coordinator = "active"])
    /\ UNCHANGED <<rows, epochs, work, done>>

CoordinatorGone(i) ==
    /\ kube[i].deleting
    /\ Group(i, [kube[i] EXCEPT !.coordinator = "absent", !.deleting = FALSE])
    /\ UNCHANGED <<rows, epochs, work, done>>

(* ExecutionHeartbeat.start reports once before anything else; then the     *)
(* checkpoint store grants the epoch again, or the one after it.            *)
CoordinatorRuns(i) ==
    /\ kube[i].coordinator = "active" /\ kube[i].config
    /\ recordHeartbeat(i)
    /\ EpochOf(i) \in {epochs[JobOf(i)], epochs[JobOf(i)] + 1}
    /\ epochs' = [epochs EXCEPT ![JobOf(i)] = EpochOf(i)]
    /\ Group(i, [kube[i] EXCEPT !.coordinator = "running"])
    /\ UNCHANGED <<work, done>>

(* A later report; one that fails is ignored.                               *)
Heartbeat(i) ==
    /\ kube[i].coordinator = "running"
    /\ recordHeartbeat(i)
    /\ UNCHANGED <<jobs, kube, epochs, ticks, work, done>>

CoordinatorCompletes(i) ==
    /\ kube[i].coordinator = "running"
    /\ Group(i, [kube[i] EXCEPT !.coordinator = "complete"])
    /\ done' = done \cup {i}
    /\ UNCHANGED <<rows, epochs, work>>

(* A pod fails, before it acquired the epoch too; up to its backoff limit,  *)
(* and unless it is being deleted, the Kubernetes Job starts another.       *)
CoordinatorFails(i) ==
    /\ kube[i].coordinator \in {"active", "running"}
    /\ Group(i, [kube[i] EXCEPT !.coordinator = "failed"])
    /\ UNCHANGED <<rows, epochs, work, done>>

CoordinatorRetries(i) ==
    /\ faults
    /\ kube[i].coordinator \in {"active", "running"} /\ ~kube[i].deleting
    /\ Group(i, [kube[i] EXCEPT !.coordinator = "pending"])
    /\ UNCHANGED <<rows, epochs, work, done>>

(* Time passes for the row and for the copies of it.  A copy that a later   *)
(* heartbeat overtook may grow stale earlier; the fence then refuses, which *)
(* Abort covers.  The time-out exceeds two intervals between reports, so    *)
(* reports of a running Coordinator must have failed.                       *)
HeartbeatExpires(i) ==
    /\ kube[i].coordinator = "running" => faults
    /\ heartbeatExpires(i)
    /\ work' = [s \in Schedulers |->
           [work[s] EXCEPT ![i].beat =
               IF work[s][i].at \in {"get", "keep", "observe", "ensure", "create"}
                 THEN "stale" ELSE @]]
    /\ UNCHANGED <<jobs, kube, epochs, ticks, done>>

LeaseExpires(i) ==
    /\ leaseExpires(i)
    /\ Deadlines => \A s \in Schedulers : rows[i].owner = {s} => work[s][i] = Idle
    /\ UNCHANGED <<jobs, kube, epochs, ticks, work, done>>

-------------------------------------------------------------------------------
Api == \E j \in Jobs : StartJob(j) \/ StopJob(j) \/ DeleteJob(j)

Tick(s) == Claim(s) \/ List(s) \/ SweepOrphans(s)

Goroutine(s, i) ==
    \/ GetJob(s, i) \/ KeepAlive(s, i) \/ LeaseLost(s, i)
    \/ ObserveEnded(s, i) \/ ObserveLive(s, i) \/ EnsureAuxiliary(s, i) \/ CreateCoordinator(s, i)
    \/ FenceHeartbeat(s, i) \/ FenceRefused(s, i)
    \/ TransitionRead(s, i) \/ TransitionWrite(s, i)
    \/ StopDeletes(s, i) \/ StopChecks(s, i) \/ Cleanup(s, i) \/ Complete(s, i)

Failure ==
    /\ faults
    /\ \E s \in Schedulers :
        \/ SkipSweep(s)
        \/ \E i \in Executions :
              \/ DispatchError(s, i) \/ DispatchRejected(s, i)
              \/ TransientError(s, i) \/ Abort(s, i)

Cluster(i) == WorkersReady(i) \/ WorkersGone(i) \/ CoordinatorPod(i) \/ CoordinatorGone(i)

Execution(i) ==
    \/ CoordinatorRuns(i) \/ Heartbeat(i) \/ CoordinatorCompletes(i)
    \/ CoordinatorFails(i) \/ CoordinatorRetries(i)

(* From here on no call fails and no pod is retried.                        *)
FaultsCease ==
    /\ Faults = "cease" /\ faults
    /\ faults' = FALSE
    /\ UNCHANGED <<rows, jobs, kube, epochs, ticks, work, done>>

Step ==
    \/ Api
    \/ Failure
    \/ \E s \in Schedulers : Tick(s) \/ \E i \in Executions : Goroutine(s, i)
    \/ \E i \in Executions : Cluster(i) \/ Execution(i) \/ HeartbeatExpires(i) \/ LeaseExpires(i)

Next == FaultsCease \/ (Step /\ UNCHANGED faults)

Spec == Init /\ [][Next]_vars

(* The Scheduler ticks and its goroutines go on, the cluster removes what   *)
(* is deleted (it need not start a pod), time passes for an execution that  *)
(* does not report, and faults cease.                                       *)
FairSpec ==
    /\ Spec
    /\ WF_vars(FaultsCease)
    /\ \A s \in Schedulers :
        /\ WF_vars(Tick(s) /\ UNCHANGED faults)
        /\ \A i \in Executions : WF_vars(Goroutine(s, i) /\ UNCHANGED faults)
    /\ \A i \in Executions :
        /\ WF_vars((WorkersGone(i) \/ CoordinatorGone(i)) /\ UNCHANGED faults)
        /\ WF_vars(HeartbeatExpires(i) /\ UNCHANGED faults)

-------------------------------------------------------------------------------
Locations == {"idle", "get", "keep", "halt", "renew", "observe", "ensure", "create", "fence",
              "read", "write", "stop", "gone", "cleanup", "complete"}

JobSet == [version : Nat, desired : Desired, state : JobStates, epoch : 0..MaxEpoch]

RowSet == [owner : {{}} \cup {{s} : s \in Schedulers},
           phase : {"none"} \cup ActivePhases \cup TerminalPhases,
           lease : {"live", "expired"}, beat : {"fresh", "stale"}]

Coordinators == {"absent", "pending", "active", "running", "complete", "failed"}

GroupSet == [coordinator : Coordinators, deleting : BOOLEAN,
             workers : {"absent", "present", "deleting"}, ready : BOOLEAN, config : BOOLEAN]

TickSet == [at : {"idle", "work", "sweep"},
            known : SUBSET Executions, active : SUBSET Executions]

GoroutineSet == [at : Locations, flow : {"run", "stale", "ended", "cancel", "heartbeat"},
                 target : JobStates, phase : ActivePhases, beat : {"fresh", "stale"},
                 first : BOOLEAN, seen : Coordinators, read : JobSet]

(* The values the tables, the cluster and the goroutines range over.        *)
TypeOK ==
    /\ rows \in [Executions -> RowSet]
    /\ jobs \in [Jobs -> JobSet]
    /\ kube \in [Executions -> GroupSet]
    /\ epochs \in [Jobs -> 0..MaxEpoch]
    /\ ticks \in [Schedulers -> TickSet]
    /\ work \in [Schedulers -> [Executions -> GoroutineSet]]
    /\ faults \in BOOLEAN
    /\ done \in SUBSET Executions

(* The dispatches that hold a slot, expired ones included, never exceed     *)
(* SCHEDULER_MAX_CONCURRENT_JOBS, whatever replicas claim concurrently.     *)
CapacityRespected == Cardinality(ActiveRows) <= MaxActive

(* An end on record is what happened, whichever replica saw it and however  *)
(* often the row changed hands: the row of a Job's current execution ends   *)
(* only after the Job did, in the phase that is the Job's state (transition *)
(* before Complete), and a Job is FINISHED only if the Coordinator of this  *)
(* very epoch ran to its end.  With it go the values the state ranges over. *)
EndsAreTruthful ==
    TypeOK /\ \A i \in Executions :
        LET j == jobs[JobOf(i)]
        IN  j.epoch = EpochOf(i) =>
                /\ rows[i].phase \in TerminalPhases =>
                      JobTerminal(j.state) /\ rows[i].phase = phaseForTerminalState(j.state)
                /\ j.state = "FINISHED" => i \in done

(* Executions exist only of epochs the Job was started with: neither a row, *)
(* nor a group, nor the checkpoint store is ahead of the Job.               *)
NothingAhead ==
    \A i \in Executions :
        /\ rows[i] # NoRow => EpochOf(i) <= jobs[JobOf(i)].epoch
        /\ jobs[JobOf(i)] # NoJob /\ kube[i] # NoGroup => EpochOf(i) <= jobs[JobOf(i)].epoch
        /\ jobs[JobOf(i)] # NoJob => epochs[JobOf(i)] <= jobs[JobOf(i)].epoch

(* A Job that ended stays as it ended until it is started again: of several *)
(* replicas that read it before, one decides (Repository.Update compares    *)
(* the version).  And a dispatch that is being stopped is never taken for a *)
(* live one again, not by a replica that copied the row before (update asks *)
(* for the owner): STOPPING only ends.                                      *)
EndsAreFinal ==
    [][/\ \A j \in Jobs :
             JobTerminal(jobs[j].state) /\ jobs'[j] # NoJob =>
                 jobs'[j].state = jobs[j].state \/ jobs'[j].epoch > jobs[j].epoch
       /\ \A i \in Executions : rows[i].phase = "STOPPING" =>
             rows'[i].phase \in {"STOPPING", "none"} \cup TerminalPhases]_vars

Dispatched(i) == rows[i].phase \in ActivePhases /\ jobs[JobOf(i)].epoch = EpochOf(i)

(* A Stop of a dispatched Job ends, also if its Coordinator never ran, and  *)
(* a dispatch that is being stopped gives its slot back, whoever owns it by *)
(* then and whichever deletions failed.                                     *)
StopConverges ==
    \A i \in Executions :
        /\ Dispatched(i) /\ jobs[JobOf(i)].state = "CANCELING"
              ~> jobs[JobOf(i)].state # "CANCELING"
        /\ rows[i].phase = "STOPPING" ~> rows[i].phase \notin ActivePhases

Live(i) == Dispatched(i) /\ jobs[JobOf(i)].state \in {"INITIALIZING", "RUNNING"}

(* A dispatched Job does not stay INITIALIZING or RUNNING with nothing that *)
(* runs: its Coordinator runs, or the missing heartbeat fails it.           *)
StartSettles ==
    \A i \in Executions : Live(i) ~> ~Live(i) \/ kube[i].coordinator = "running"

(* Deleting a Job leaves nothing of it in the cluster in the end.           *)
OrphansSwept ==
    \A i \in Executions : jobs[JobOf(i)] = NoJob ~> [](kube[i] = NoGroup)

-------------------------------------------------------------------------------
(* What the design documents say and the code does not keep.                *)

(* Every accepted Stop is visible through CANCELING to a terminal state,    *)
(* also of a Job that no replica has claimed yet (Claim admits only         *)
(* INITIALIZING Jobs, and only a row is ever canceled).                     *)
EveryStopConverges ==
    \A j \in Jobs : jobs[j].state = "CANCELING" ~> jobs[j].state # "CANCELING"

(* Stop deletes the whole group and confirms that it is absent before       *)
(* CANCELED is recorded (a replica whose row was taken over for a missing   *)
(* heartbeat may still be creating the objects it set out to create).       *)
CanceledWhenAbsent ==
    [][\A i \in Executions :
           LET j == jobs'[JobOf(i)]
           IN  j # jobs[JobOf(i)] /\ j.state = "CANCELED" /\ j.epoch = EpochOf(i) =>
                   resourcesGone(kube[i])]_vars

(* The sweep leaves alone what an active dispatch row accounts for (its     *)
(* list of rows may be older than the row).                                 *)
SweepKeepsActive ==
    [][\A s \in Schedulers, i \in Executions :
           SweepOrphans(s) /\ rows[i].phase \in ActivePhases => kube'[i] = kube[i]]_vars

(* No two executions of a Job run at once (a Job failed for its heartbeat   *)
(* can be restarted before its group is gone).                              *)
NoOverlap ==
    \A i, k \in Executions :
        JobOf(i) = JobOf(k) /\ kube[i].coordinator = "running" /\ kube[k].coordinator = "running"
            => i = k

(* A restarted Job is one its checkpoint store lets run (an execution that  *)
(* never acquired its epoch leaves a gap the store refuses to skip).        *)
RestartGranted ==
    \A j \in Jobs : jobs[j].state = "INITIALIZING" => jobs[j].epoch <= epochs[j] + 1

===============================================================================
