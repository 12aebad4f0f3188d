# AstraSync verification

TLA+ models of AstraSync, TLC configurations that check them on small instances,
and TLAPS proofs of some of their properties for every instance. `PROJECT.json`
names, for every definition, the lines of `src/` it models.

1. [The system](#the-system)
2. [Checkpointed execution](#checkpointed-execution)
3. [Job scheduling](#job-scheduling)
4. [Catalogue, Connections and their tests](#catalogue-connections-and-their-tests)
5. [Jobs, SyncJob resources and credentials](#jobs-syncjob-resources-and-credentials)
6. [Replication and promotion](#replication-and-promotion)
7. [Access and the Console](#access-and-the-console)
8. [Service processes](#service-processes)
9. [What is proved](#what-is-proved)
10. [Where documents and code disagree](#where-documents-and-code-disagree)
11. [What is not modelled](#what-is-not-modelled)

To check a run: `tlc -workers 4 -config <run>.cfg <MC module>`; to check proofs:
`tlapm <module>.tla`. Numbers of states below are distinct states of the whole run.

## The system

AstraSync moves data between databases. A control plane in Go stores Jobs,
Connections and who may use them, starts and stops Jobs on Kubernetes and
replicates checkpoints to a standby region; a data plane in Java reads, transforms
and writes rows.

| Part | State | What makes it hard | Modules | Runs |
|---|---|---|---|---|
| Checkpoint store, Coordinator, Worker, JDBC source and sink (`engine`) | epoch, records and completions; tasks, sockets, fences; sink table and marker table | crashes between commit and record, retried and superseded Coordinators | `CheckpointStore`, `CheckpointExecution`, `BatchDelivery` | `exactly_once`, `at_least_once`, `adaptive_exactly_once` |
| Stored Job, dispatch rows, Scheduler, dispatcher (`control-plane/job`, `scheduler`) | Job, dispatch row, Kubernetes objects, a goroutine per row and replica | replicas act on copies; leases and heartbeats run out | `JobLifecycle`, `DispatchStore`, `JobScheduling` | `replicas`, `converges`, `unclaimed_stop`, `late_objects` |
| Catalogue, Connections, tests (`connector`, `connection`, `api-server`, `scheduler/internal/connectiontest`) | inventories, generations, idempotency rows, test operations | competing activations, overlapping calls, late test results | `ConnectorCatalog`, `ConnectionStore`, `ConnectionService`, `ConnectionTester` | `connections` |
| Job API, SyncJob controller, credentials (`api-server`, `controller`, `scheduler/internal/materialization`) | Jobs, custom resources, finalizers, Secrets, receipts, obligations | stale cache, mirrored writes, crash between Secret and receipts | `JobControl`, `SyncJobController`, `Materialization` | `jobs` |
| Replication and promotion (`replication`) | log objects, cursors, admissions, promotions, topology | lost answers, restarts of either end, two managers | `ReplicationLog`, `CheckpointReplication`, `RegionTopology`, `RegionPromotion` | `regions` |
| Access (`auth`, `api-server/internal/authn`, `console`) | roles and revisions, sessions, tokens, signing keys, pages | permission read and used later, overlapping refreshes | `AccessStore`, `AccessControl`, `ConsoleSessions`, `SigningKeys`, `AccessListings`, `ConsoleRequests` | `access` |
| Service processes (`api-server`, `console`, `scheduler`, connection test executor) | settings, servers, the order of opening and closing | signals and failures during start, regions that dial each other | `ServiceProcesses` | `services` |

**How they interact.** The API writes a Job, and a start captures the bindings of
its Connections (`JobControl`, which uses `ConnectorCatalog`, `ConnectionStore` and
`JobLifecycle`). A Scheduler replica claims a dispatch row for the epoch
(`DispatchStore`, shared by `JobScheduling` and `Materialization`), turns the
captured bindings into a credential Secret (`Materialization`) and creates an
execution group: Workers, then a Coordinator that gets the epoch in its environment
(`JobScheduling`). The Coordinator acquires the epoch in the checkpoint store and
runs the splits (`CheckpointExecution`). `JobScheduling` decides which Coordinators
of which epochs may be alive at once, and `CheckpointExecution` is checked for any
such set, including retries of one epoch and executions that should be gone.
Completed checkpoints are announced in a log that is pushed to the other region
(`ReplicationLog`, `CheckpointReplication`), which can be promoted for a Job
(`RegionPromotion`). Every call passes the guard of `AccessControl`; the Console
(`ConsoleSessions`, `ConsoleRequests`) calls for the people who sign in.

**Runs of several components.** A run whose components share no variable in an
instance starts in any one of them: the variable `focus` of the MC module is chosen
in the initial state, kept, and lets only the steps of that component (with its
environment) happen. Interleaving independent components adds no behaviour.
Symmetry is used where the replicas or Coordinators permuted are interchangeable and
no liveness is checked.

**Conventions.** A step is what happens between two points where another process can
act: a statement or transaction, a call to Kubernetes, a message, a lock released. An
optional value is a set of at most one. A call that is refused and changes nothing is
a stuttering step. Definitions named for a mistake (`…Anyway`, `…Unfenced`) stand
beside the definition they corrupt; `PROJECT.json` lists the property that notices
each of them.

## Checkpointed execution

`CheckpointStore.tla` models `FileCheckpointStore`. Each operation holds the job's
file lock and replaces the manifest by one rename, so each is one step.

`CheckpointExecution.tla` adds the processes. A task `<<c, s>>` is the execution of
split `s` for Coordinator `c`.

| Variable | Code |
|---|---|
| `cpc`, `coord` | where `CheckpointBatchCoordinator.run` stands; its epoch, split, sequence and position |
| `tpc`, `task` | where the handler and the thread of a task stand (`WorkerServer`, `InProcessBatchWorker.executeCheckpoint`); its sequence, position and current batch |
| `link` | the one message in flight on the task's socket; `"closed"` once an end is gone |
| `fence` | `EpochFence` of a Worker process, lost in a crash |
| `inserted`, `repeated`, `markers` | rows of the sink table, the rows inserted again, and its commit-token table |

Reading a batch, looking its token up, inserting and committing are separate steps,
since two executions can be between any of them; the insert of a marker waits on the
uncommitted marker of another transaction, as a unique index does. Any I/O of a task
may fail, a Coordinator may crash anywhere, and a Worker may be replaced up to
`MaxCrashes` times. `RequestedEpoch` says whether the epoch is explicit (as the
Scheduler passes it) or allocated by the store, `WorkerFor` which Worker runs which
split, `BatchSizes` what limits the batch controller may choose, and `Renderings`
whether the text of a row is a function of its values.

`BatchDelivery.tla` is the abstract promise: rows are delivered in batches, the
durable position of a split moves over delivered rows only, a split completes at its
last row, and an exactly-once job delivers no row twice. `ImplementsDelivery` is the
refinement: `inserted`, `repeated`, `records[s].pos` and the presence of a
completion stand for its four variables.

| Run | Instance | States | Shows |
|---|---|---|---|
| `exactly_once` | 3 Coordinators (epoch 1, its retry, epoch 2), a Worker per epoch, 3 rows in batches of 2, 1 crash | 704,890 | `NoRowLost`, `NoRowRepeated`, `DurableProgress`, `ImplementsDelivery` |
| `at_least_once` | a Coordinator whose epoch the store allocates and one of epoch 2, Workers of one slot that overlap on one split, splits of one and two rows, 1 crash, fairness | 64,828 | `IInv` (the invariant of the proofs), `ReturnIsComplete`, `EveryRunEnds`, `TaskIsReleased` |
| `adaptive_exactly_once` | 2 Coordinators, batch limits 1 and 2 | – | violation, see below |

*Bounds.* Three rows in batches of two give a full batch, a short last batch and a
position between them; two rows in batches of two end in the empty batch. Two
Coordinators are the fewest that interleave, three add the retry of an epoch that a
later one supersedes. One Worker crash is enough to forget a fence. The proofs
remove these bounds for the safety properties.

*Deadlock* is not checked here: when every Coordinator has returned or failed, the
job is over.

*Fairness.* A Coordinator and a task that can take a step take one: they are threads
of running processes, and sockets report a peer that closed them, so the task that
waits for an acknowledgement is woken. Nothing is assumed of failures or crashes.

## Job scheduling

`JobLifecycle.tla` is the Job as a value: what `RequestStart`, `RequestStop` and
`Advance` accept and make of it, and the update that succeeds only against the
version that was read. `DispatchStore.tla` is the table of dispatch rows, each
operation one statement or serializable transaction. Leases and heartbeats are the
outcome of their comparison with the clock: `"live"` or `"expired"`, `"fresh"` or
`"stale"`.

`JobScheduling.tla` composes both with the Scheduler replicas, the cluster and the
Coordinator. A replica runs one goroutine per row it owns; the goroutine of replica
`s` for execution `i` is `work[s][i]`: its location, the branch of `reconcile` it is
in and its copy of the row. Every call to PostgreSQL or Kubernetes is a step, so a
goroutine acts on what it read while another replica takes the row over.

| Actions | Code |
|---|---|
| `StartJob`, `StopJob`, `DeleteJob` | the transactions of the Job mutation repository |
| `Claim`, `List`, `SweepOrphans`, `SkipSweep` | `tick` and `SweepOrphans` of the Dispatcher |
| `GetJob`, `KeepAlive`, `LeaseLost` | `reconcile` up to its branches |
| `ObserveEnded`, `ObserveLive`, `EnsureAuxiliary`, `CreateCoordinator` | `Dispatcher.Reconcile` |
| `FenceHeartbeat`, `FenceRefused` | `failHeartbeat` |
| `TransitionRead`, `TransitionWrite` | `transition`, with its retry after a conflict |
| `StopDeletes`, `StopChecks`, `Cleanup`, `Complete` | `Dispatcher.Stop`, `Cleanup` and the end of a dispatch |
| `DispatchError`, `DispatchRejected`, `TransientError`, `Abort` | failing calls; `Abort` is also a deadline, the fifth conflict or a crash of the replica |
| `WorkersReady`, `WorkersGone`, `CoordinatorPod`, `CoordinatorGone` | Kubernetes |
| `CoordinatorRuns`, `Heartbeat`, `CoordinatorCompletes`, `CoordinatorFails`, `CoordinatorRetries` | the Coordinator process and the retries of its pod |
| `HeartbeatExpires`, `LeaseExpires` | time |

| Run | Instance | States | Shows |
|---|---|---|---|
| `replicas` | 1 Job, 1 slot; 2 replicas and 1 epoch, or 1 replica and 2 epochs (`resting` says which replicas are never started) | 1,269,456 | `EndsAreTruthful`, `EndsAreFinal`, `NothingAhead`, `CapacityRespected` |
| `converges` | 1 Job, 1 replica, 1 epoch, fairness, failures that cease | 13,096 | `StopConverges`, `StartSettles`, `OrphansSwept` |
| `unclaimed_stop` | as `converges` | – | violation, see below |
| `late_objects` | 1 Job, 2 replicas, 1 epoch | – | violation, see below |

*Bounds.* Two replicas are the fewest that take a row from each other, and two epochs
the fewest of which one is old. `MaxEpoch` bounds the starts of a Job. `Deadlines`
says that a goroutine ends before the lease it renewed runs out: the Scheduler
refuses a configuration in which the operation time-out is not shorter than the
lease. The theorems hold without it. Two replicas with two epochs each are beyond a
short run; the theorems cover them.

*Fairness.* The Scheduler's ticker fires and its goroutines go on; Kubernetes
removes what is deleted but need not start a pod; time passes for an execution that
does not report. Failing calls, crashes and retried pods happen at any time until
`FaultsCease`, since a call that fails for ever stops everything. A running
Coordinator's heartbeat does not go stale after that, because the Scheduler refuses
a time-out that does not exceed two heartbeat intervals. Liveness is checked with
one replica.

*Abstractions.* The Secret and the Service of a group are one field, since they are
created and deleted together. A sweep is one step after its `List`. Left out are the
time-to-live of ended Coordinator Jobs and the reuse of the key of a deleted Job;
the credentials of a group are the subject of `Materialization`.

## Catalogue, Connections and their tests

`ConnectorCatalog.tla`: the inventory of a deployment is decoded, validated and
activated when a server starts; clients page through the active one with tokens
bound to its revision. `ConnectionStore.tla` is the tables of Connections: rows and
generations, idempotency rows, tombstones, references of Jobs and epochs, tests and
the quotas on them. `ConnectionService.tla` is the API: a mutating call reads and
computes a candidate in one step and applies it in a later one. `ConnectionTester.tla`
is the executors: claim under a lease, load, resolve the Secret, check the
addresses, probe, renew, complete. `Orderings.tla` is the `ORDER BY` and sort they use.

| Actions | Code |
|---|---|
| `Start`, `Reconcile`, `ListConnectorDescriptors` … of the catalogue | `catalog` of the API server and `connector/postgres` |
| `Call`, `Commit`, `Return` | the handlers of `connection_service.go` and the transactions of `connection/postgres` |
| `RunOnce`, `Expire`, `Claim`, `ProbeReturns`, `Complete`, `Cancel`, `CrashExecutor` | the executor's loop and its goroutines |

Run `connections` (145,914 states) has four foci: competing activations of sound and
unsound inventories by two servers while a client pages; changes of one Connection by
two clients while a new inventory is activated; a listing while Connections change;
tests by two executors with a clock, deadlines and a crash.

- `CatalogueIsWhole`: a revision names one payload and an artifact one descriptor for
  ever, and a listing is one inventory's descriptors whatever was activated between
  pages.
- `ChangesAreSerial`: a committed change is the one its request asks for on the row it
  replaces; a request key has one effect; no delete leaves a dangling reference.
- `ListingIsOneMoment`: the pages of a finished listing are the Connections of one
  moment.
- `ResultsAreFenced`: only the executor that holds the current attempt records a
  result, and it is the one its probe measured, with the generation and policy the
  test was queued with.
- `TestsEndWithExecutors`: with a clock that runs and executors that go on, every test
  ends, also after the crash of the executor that held it.

*Bounds.* Names, keys and addresses are small numbers in the order of the strings;
descriptors have the option kinds the validators tell apart. The clock stops at
`MaxTime`, past the deadline and the retention of a test.

*Fairness.* `time.Ticker` fires and every call of an executor has a time-out.

## Jobs, SyncJob resources and credentials

`JobControl.tla`: a mutating Job call looks for the answer of an earlier one,
validates against the catalogue and the Connections (each read at its own moment) and
applies one serializable transaction that fences what was validated.
`SyncJobController.tla`: the controller with a cache that lags behind, users who edit
resources, and the Console that mirrors what it changed through the API.
`Materialization.tla`: replicas load the captured bindings, read the provider's
Secrets, create one immutable Secret, write receipts, launch, and clean up; cleanup
obligations and a sweep remove what a lost replica leaves.

The Console's writes are those of `manager.go`: a POST, a GET and a PUT with the
version that was read, or a DELETE. The request or its answer may be lost; a conflict
and a failure are tried again, a refusal of the schema is not. The PUT's body has no
finalizers, so it would clear those of the resource. It never gets that far: the body
names the guarantee as the API's JSON does (`DELIVERY_GUARANTEE_…`,
`api/protobuf/v1/job.proto:120`), and the enumeration of the CRD
(`sync.astrasync.io_syncjobs.yaml:84`) refuses it, as it refuses the POST. So what the
Console creates or updates does not reach the cluster, only what it deletes does.
`GuaranteeNamesAssumption` states the difference of the names, and `FinalizerHolds` rests
on it: if the names were made to agree, the PUT would have to keep the finalizers.

Run `jobs` (339,668 states) has five foci: two clients and a rotating Connection; a
controller that may stop, with users and a Console that deletes; a controller that does
not stop and a Console that updates; two replicas that lose leases while they
materialize; one replica that cleans up after stops, a lost lease, silence and changed
provider Secrets, and a second epoch.

- `FinalizerHolds`: a Job made from a resource has its resource as long as it exists.
- `CapturedAtStart`: bindings are added only by the start of their epoch, at the
  generation that is current then; a running Job's spec and bindings agree.
- `ConnectsAsCaptured`: a Secret holds exactly what was bound, its receipts say so,
  and no Worker is launched without them.
- `ResourcesConvergeWithController`: when edits end, resources and Jobs agree and
  deleted resources go, except for Jobs that were stopped before the Scheduler claimed
  their epoch (`StoppedUnclaimed`): they stay `CANCELING`, as `unclaimed_stop` shows, and
  their resources wait for them.
- `CredentialsAreRemovedByCleanup`: when an execution ended, its Secret goes for good.

*Bounds.* `MaxEpoch`, `MaxEdits`, `MaxStops`, `MaxFaults` and `MaxProviderEdits` bound
starts, edits, controller stops, interrupted passes and provider changes.
`RetryDelays` is 1 where the code has three delays: a retry that succeeds, and one too
many.

*Fairness.* The controller's work queue is drained, watches deliver, a replica ticks
and its calls return, deleted objects go, and the Scheduler cancels what is to be
canceled of the epochs it has claimed (shown in `converges`; the variable `claimed`).
That it claims is not assumed.

## Replication and promotion

`ReplicationLog.tla`: publisher, writer, flusher, reader and object store of a
region's log. `CheckpointReplication.tla`: the runtime, the channel client and the
replicator of the sender; admission, delivery to subscribers and commit at the
receiver, which answers from its record, whose insert may succeed while its answer is
lost, and which refuses the peer's calls when it authenticates them by OIDC, which the
sender cannot do (`peerAuth`): the replicator then gives up. `RegionTopology.tla`: the
loader and the watcher of the topology ConfigMap, with calls of `Watch` and `Stop` that
overlap and the loop each `Watch` launches; a call that closes a channel a second time
panics, which ends the process.
`RegionPromotion.tla`: `Manager.Promote` from its idempotency key to its row, the
epoch's compare-and-set, the capability of the sink and the recovery of the last
checkpoint at the target.

Run `regions` (458,648 states) has five foci: the log with damage, failed flushes and
restarts; the push of two entries with lost connections and restarts of both ends;
the runtime with streams, full queues and closing; two managers that promote; the
topology.

- `LogIsWhole`: no gap, and what was reported published is there under its number.
- `AdmittedOnce`: what counts as acknowledged was admitted, and an admission once
  committed is not delivered again.
- `EpochsOnlyGrow`: epochs never go back, no two promotions complete with one epoch, a
  recorded end stays.
- `CompletionIsEarned`: a promotion completes only with a recovered, whole checkpoint
  of the Job and a sink that has the capability.
- `StoppedIsQuiet`: a loop of the watcher reads, reloads and calls back nothing once the
  call that stopped it has returned, whatever other callers do; no loop is left behind
  that nobody can stop; the loader always holds exactly one primary.
- `ReplicationGoesOn`: while the replicator runs every entry is acknowledged in the
  end, unless a receiver stopped between claim and commit.

*Bounds.* Two entries, a queue of one and batches of two make queues fill and batches
split; `MaxChannelFaults` and `MaxPromotionFaults` bound losses and restarts. Two
callers and `MaxLoops = 2` loops are the fewest of which one outlives its stop;
`MaxEdits` bounds changes of the ConfigMap.

*Fairness.* Goroutines and handlers go on and subscribers receive.

*Assumption.* One process writes a region's log (the code locks nothing across
processes).

## Access and the Console

`AccessStore.tla` is the tables of `auth/postgres` and the commands of
`astra-auth-admin`. `AccessControl.tla`: a call reads its principal in three
statements, is authorized by the interceptor, often again by the handler, and is
executed. `ConsoleSessions.tla`: login, callback, refresh, logout, with the identity
provider, a clock, and statements that are applied while their answer is lost. `ConsoleRequests.tla`: each handler of the Console with the
calls it makes and what it mirrors. `AccessListings.tla`: listings by offset, by
cursor and by page number. `SigningKeys.tla`: the cache of the provider's keys.

Run `access` (1,842,678 states) has nine foci: calls of the API, the Console's handlers,
logins, sessions, keys, and the listings of members, tenants, audit events and Jobs.

- `DecisionsAreCurrent`: a member's call never passes on a role that was changed after
  it was read; each membership change has its revision and its audit event.
- `ServedWhereSelected`: what the Console reports and mirrors was done in the tenant
  that was selected.
- `SessionsAreSerial`: token sets of a session follow one another, a session whose logout
  was confirmed stays out, a login leads to one session, everyone let in is on record.
- `ListingsAreComplete`: a listing paged to its end leaves out no more of what was there
  at its start than went away meanwhile; of members, who never go, it leaves out none;
  audit events appear once, newest first.
- `KeysAgeOut`: between the moment a key leaves the provider's document and the last
  verdict that accepts it lie at most the cache's life, the window for errors and the
  time of two fetches.

*Bounds.* Two or three overlapping calls; three tenants, of which one comes and goes while
two pages are read; `MaxRevision`, `MaxTime`, `MaxTokens`,
`MaxKeyTime` and `MaxOperations` bound revisions, clocks, tokens and commands. Deadlock
is not checked: every call and request is used once.

## Service processes

`ServiceProcesses.tla`: what each `main` accepts as settings, the stages in which it
opens what it needs, its servers, the start of the replication runtime and its
replicator, and the order of draining and deferred closes; crashes, signals, kills and
restarts by the platform. Run `services` (285,415 states) starts
two API servers that replicate to each other, an API server with the Console, the
Scheduler or the executor, with every setting given, missing or wrong.

- `DrainedBeforeClosed`: a process that a signal ends closes nothing under a running
  replication runtime or under a request of a server it has drained. When `Shutdown`
  times out, only requests of the server it waited for are left, so for an API server no
  gRPC request. A run that ends because a server failed, or during its dial, stops its
  servers without waiting; nothing is claimed of it.
- `DialsAreAccepted`: two processes that accepted production settings can talk.
- `ServicesComeUp`: whatever fails once (a step of the start, a server, the load of the
  replication progress, a crash, a signal), every process whose settings let it serve is
  ready in the end and stays so; neither of two regions waits for ever for the other
  (each serves before it dials). When the replicator gave up, the API server goes on and
  stays unready.

*Bounds.* `MaxFaults` kinds of fault per behaviour, each once. *Fairness.* Processes go on, the
platform restarts what exits and kills what does not stop.

## What is proved

Theorems hold for every value of the constants: any number of Coordinators, Workers,
Jobs, replicas, managers, principals, tenants, calls, requests and faults, any clock
and any bound. Besides the types of constants they rest on these assumptions, each
of which the code or its configuration check establishes:

| Assumption | Why |
|---|---|
| `NumSplitsAssumption`, `ExecutionAssumption` (`CheckpointExecution`) | types |
| `SchedulingAssumption`, `MaxActiveAssumption` (`JobScheduling`, `DispatchStore`) | types; finitely many Jobs are stored, so the rows that hold a slot can be counted |
| `ChannelAssumption` (`CheckpointReplication`) | the replicator replaces a batch size of zero by its default and refuses a negative one; positions are numbers |
| `CacheAssumption` (`SigningKeys`), `TimeBoundsHold` (`ConsoleSessions`) | positive times, as the configuration checks demand |
| `CatalogAssumption` (`ConnectorCatalog`) | types; descriptors of an inventory are a list, and names have an order |
| `ControllerAssumption` (`SyncJobController`) | finitely many calls are in progress, so that a UUID none of them holds exists |
| `GuaranteeNamesAssumption` (`SyncJobController`) | the API's JSON and the CRD name the delivery guarantees differently (see above) |
| `RegionsHavePeers` (`ServiceProcesses`) | a region replicates to another one, and is not named like a service |

Two theorems have a hypothesis of their own: `NeverRepeated` and `DeliveryImplemented`
speak of executions that cut the same batches (`FixedBatches`); without it the
statements are false (see the next section).

| Theorem | Module | Statement |
|---|---|---|
| `InvariantHolds` | `CheckpointExecutionProofs` | `Spec => []IInv` |
| `SafetyHolds` | `CheckpointExecutionProofs` | `TypeOK`, `NoRowLost`, `CompletionIsWhole` and `ReturnIsComplete` always hold |
| `RunsReturnComplete` | `CheckpointExecutionProofs` | `Spec => []ReturnIsComplete` |
| `ProgressIsDurable` | `CheckpointExecutionProofs` | `Spec => DurableProgress` |
| `ExactlyOnceHolds` | `CheckpointExecutionProofs` | `Spec => []ExactlyOnceInv` |
| `NeverRepeated` | `CheckpointExecutionProofs` | with `FixedBatches`, `Spec => []NoRowRepeated` |
| `DeliveryImplemented` | `CheckpointExecutionProofs` | if the job is exactly-once only with `FixedBatches`, `Spec => ImplementsDelivery` |
| `SchedulingInvariant` | `JobSchedulingProofs` | `Spec => []IInv` (of `JobSchedulingStepProofs`) |
| `EndsStayTruthful` | `JobSchedulingProofs` | `Spec => []EndsAreTruthful` |
| `EndsStayFinal` | `JobSchedulingProofs` | `Spec => EndsAreFinal` |
| `NothingGetsAhead` | `JobSchedulingProofs` | `Spec => []NothingAhead` |
| `CapacityIsRespected` | `JobSchedulingProofs` | `Spec => []CapacityRespected` |
| `LogInvariant`, `LogStaysWhole` | `ReplicationProofs` | `LogSpec => []LogInv`, `LogSpec => []LogIsWhole` |
| `LogEntriesStay` | `ReplicationProofs` | no entry of the log is replaced or removed |
| `ReplicationInvariant` | `ReplicationProofs` | `ReplicationSpec => [](LogInv /\ ChannelInv)` |
| `EntriesAreAdmittedOnce` | `ReplicationProofs` | `ReplicationSpec => AdmittedOnce` |
| `StopIsQuiet` | `RegionProofs` | `TopologySpec => StoppedIsQuiet` |
| `PromotionInvariant` | `RegionProofs` | `PromotionSpec => []PromotionInv` |
| `CompletionsAreEarned` | `RegionProofs` | `PromotionSpec => []CompletionIsEarned` |
| `EpochsAndRowsAreFinal` | `RegionProofs` | `PromotionSpec => EpochsOnlyGrow` |
| `WithdrawnKeysAgeOut` | `ServiceProofs` | `KeySpec => []KeysAgeOut` |
| `DecisionsStayCurrent` | `ServiceProofs` | `AccessSpec => DecisionsAreCurrent` |
| `SessionsStaySerial` | `SessionCatalogProofs` | `SessionSpec => []SessionsAreSerial` |
| `ShutdownDrainsFirst` | `ServiceProofs` | `ServiceSpec => []DrainedBeforeClosed` |
| `ProductionSettingsMatch` | `ServiceProofs` | `ServiceSpec => []DialsAreAccepted` |
| `CatalogueStaysWhole` | `SessionCatalogProofs` | `CatalogSpec => []CatalogueIsWhole` |
| `JobsHaveTheirResource` | `SyncJobProofs` | for all sets of requests and edits, `ControllerSpec(requests, asked) => []FinalizerHolds` |

The specifications `LogSpec`, `ReplicationSpec`, `TopologySpec`, `PromotionSpec`,
`KeySpec`, `AccessSpec`, `SessionSpec`, `ServiceSpec`, `CatalogSpec` and
`ControllerSpec` are those of one component with its environment, defined in the
component's module. `ControllerSpec` has as parameters the requests of the API's clients
and what users ask of resources; `WellFormed` says that a request names a Job and has at
most one spec. They are at least as free as the
focus of the run that checks the same property: where a run fixes some requests or
starts from some store, they allow every request and start from the empty store.

**Checkpointed execution.** `NoRowLost` speaks of the store and the sink, but what
reaches the store travelled through a task, a socket and a Coordinator. `IInv`
therefore says of each of them what it may claim:

- `SinkHolds`: the rows that any Coordinator, task, marker or durable position covers
  are in the sink. `NoRowLost` follows.
- `LinkAgreement`: Coordinator and task agree on sequence and position, up to the one
  report under way.
- `ChainAgreement`: in the active epoch, a Coordinator that knows the latest sequence
  knows the latest position. The store compares sequences only; this is why two
  Coordinators of one epoch cannot move a position back.
- `FinishedAtEnd` with `ChainAgreement` gives `CompletionIsWhole`, though a completion
  carries only a sequence number.
- `EpochsGranted`: nobody holds an epoch the store has not granted, and the splits
  behind a Coordinator are complete. `ReturnIsComplete` follows.

`ExactlyOnceInv` adds what makes replays harmless when all executions cut the same
batches (`FixedBatches`): a sequence number names one batch for everyone
(`EveryoneAligned`), rows are in the sink only under the marker of their batch, and a
transaction about to commit holds a token nobody committed or holds
(`MarkersGuardRows`). Without `FixedBatches` the property fails, as
`adaptive_exactly_once` shows.

**Scheduling.** A goroutine acts on copies of a row and a Job that others have changed
since. `IInv` says by its location what it still knows (`Knows`): the epoch it works for
was started; the state it is going to write was decided by what it saw (`Decided`, for
`FINISHED` a Coordinator that ran to its end); the Job it read is the stored one or has
a smaller version, so that a write that succeeds is against what was read (`Outdated`);
and before it stops, cleans up or completes, its Job ended in the state it will record,
unless it was started again (`EndKnown`). `Heeds` says that the owner of a row that is
being stopped no longer starts anything. `RowTrue`, `FinishEarned` and `GroupTrue` then
give the properties. Each action is a lemma of `JobSchedulingStepProofs`. Capacity is
not a matter of this invariant: it follows from the steps, since only a claim adds an
active row and it counts them in its transaction.

**Log and channel.** `LogIsWhole` is not inductive because a flush writes what is
pending: `LogInv` adds that pending entries are consecutive, end at the writer's number,
start at most one above the last object, and agree with objects a failed flush already
wrote. `ChannelInv` is what the two ends of the channel may rely on: the batch of the
replicator is the part of the log after its cursor, the cursor is not past what is
acknowledged, and every acknowledged entry has a committed admission
(`ReplicatorHolds`); admissions have one row per checkpoint; a handler that delivers or
commits has its claim, not committed yet, and no two handlers work on one checkpoint,
even when the sender of the first is long gone (`HandlersHold`).

**Topology and promotion.** `WatcherInv` says that a call waits only for a loop it has told
to stop, that at most one call is replacing a loop (a second one panics), and that a loop
whose stop has returned has ended; so every loop but the newest was told to stop.
`PromotionInv` says what a call of `Promote` holds at each
point (`Stands`): from `Create` on its pending row, which no other call shares; from the
epoch's compare-and-set on an epoch above the expected one that no completed promotion
has and no other call holds (`Apart`). What it has earned of a completion (`Earned`) is
kept until the end because recoveries and capabilities are not taken back.

**Access.** For keys, `KeyInv` bounds the cache's last use of a withdrawn key by the time
it was withdrawn plus the life (`CacheHolds`), and says that a validation that fetches
read the clock no longer ago than two fetches take (`ValidationHolds`). For decisions, `AccessInv` says that a membership a
call has read is, while the tenant still has the revision that was read, what the store
holds; every change of a membership moves the revision, and the interceptor compares
it. For sessions, `SerialInv` follows readings: `Coherent` says that all readings of a
session that were served or are still held by a request agree where their revisions do,
with each other and with the row, and that none is ahead of the row. An update applies
to the revision that was read, so the row it writes is ahead of every reading.
`Consumer` follows login transactions to sessions, `Counted` those let in to recorded
sign-ins.

**Services.** A process that closed its resources says little about how it came there.
`Orderly` therefore says at each stage of `run` what has been opened, which servers are
left to drain (`Left`) and that those already drained have stopped and left no request
behind (`Quiet`); a clean end is reached only from an empty list, and a time-out at the
server that heads it. Settings do not change
while a process runs, and one past its first stage has accepted them; that two accepted
production settings let a dial through is then a fact about the settings alone.

**Catalogue.** `CatalogueIsWhole` speaks of listings that ended. `CatalogInv` says of a
listing under way that what the client has received is a beginning of the filtered
listing of one stored inventory and that its token continues exactly there
(`Received`), although another inventory may have been activated since; inventories and
descriptors are only added, and one that is in conflict with a stored one is refused
(`DescriptorsHold`, `InventoriesHold`). How a filtered listing is ordered is not used.

**SyncJob controller.** `FinalizerHolds` relates a Job to the stored resource, while the
controller decides on a copy from its cache. `ControllerInv` says what a copy is worth
(`IsCopy`): it is not newer than the stored resource of its UID, equal to it if the
versions are equal, and has no finalizer and no deletion that is not stored. A copy with
a finalizer that is not being deleted is of a resource that is stored still, so a Job
made from it has its resource; the finalizer is removed only by a pass that found no
Job of that UID, and between that reading and the update only this pass could make one.
UUIDs of resources are negative numbers and those of the Job API positive ones, so that
the two never meet; the variable `created` numbers the former.

**Only model-checked.** Liveness under fairness, which is out of the prover's reach
(`EveryRunEnds`, `TaskIsReleased`, `StopConverges`, `StartSettles`, `OrphansSwept`,
`TestsEndWithExecutors`, `ResourcesConvergeWithController`,
`CredentialsAreRemovedByCleanup`, `ReplicationGoesOn`, `ServicesComeUp`).
`ListingIsOneMoment` and `ListingsAreComplete`, because they rest on what sorting a set
yields, which is an induction over the set. And, not proved so far, `ChangesAreSerial`
and `ResultsAreFenced` of `connections`, `CapturedAtStart` and `ConnectsAsCaptured` of
`jobs`, and `ServedWhereSelected` of `access`.

## Where documents and code disagree

Three runs show a disagreement; `PROJECT.json` quotes the lines.

| Run | Code | Document |
|---|---|---|
| `adaptive_exactly_once` | the token contains the digest of a batch whose limit adapts to timings, so a retry may cut another batch, get another token and insert rows again | `docs/phase2/07-transactional-idempotent-commit/design.md:99` |
| `unclaimed_stop` | a Job stopped before a replica claimed it has no row, and stays `CANCELING` | `docs/phase6/19-job-operations/design.md:319` |
| `late_objects` | a row with a missing heartbeat goes to another replica while the former owner is at work; the new owner deletes the group, sees it gone and records `CANCELED`, and the former owner's `Create` lands in between | `docs/phase4/12-scheduler-dispatch/design.md:71` |

Further statements of documents are written down as properties that the code does not
keep. They belong to no run; adding one to the named configuration, with the values
given, shows the behaviour.

| Property (configuration) | Code | Document |
|---|---|---|
| `NoRowRepeated` (`adaptive_exactly_once.cfg` with `BatchSizes = {2}`, `Renderings = {0, 1}`) | the digest is of the text of the rows (`BatchDigests.java:15`), and the text of the `byte[]` of a binary column is its identity, so the retry of a batch gets another token | `docs/phase2/07-transactional-idempotent-commit/design.md:14` |
| `SweepKeepsActive` (`late_objects.cfg`) | between `List` and the deletions of a sweep (`scheduler.go:228`) another replica may insert a row and create the group, which the sweep deletes as an orphan | `docs/phase4/13-controller-ha/design.md:71` |
| `NoOverlap` (`late_objects.cfg` with one Scheduler, `MaxEpoch = 2`, `MaxActive = 2`) | `finishHeartbeatFailure` (`scheduler.go:401`) records `FAILED` before `Stop`, so the Job can be started again while the old Coordinator runs; its records are then fenced by the checkpoint store | `docs/adr/adr-030-lease-fenced-scheduler-dispatch.md:10` |
| `RestartGranted` (`late_objects.cfg` with one Scheduler, `MaxEpoch = 2`) | a start allocates an epoch, the store's moves only when a Coordinator acquires it (`FileCheckpointStore.java:88`); after an execution that ended before that the next epoch is two ahead and refused as skipped | `docs/adr/adr-026-checkpoint-fencing-foundation.md:34` |
| `RunningEpochsContinue` (`jobs.cfg`) | after a catalogue rollout `Load` (`materialization/postgres/store.go:87`) returns `ErrRevisionMismatch`, and `Reconcile` calls `Ensure` before it looks at the Coordinator: a completed execution is not observed and fails as silent | `docs/phase6/20-connector-catalog-connections/design.md:176` |
| `EpochsAreAskedFor` (`jobs.cfg`) | `Advance` sets the desired state `STOPPED` when a Job ends; `converge` (`syncjob_controller.go:176`) compares it with `spec.state`, still `RUNNING`, and starts another epoch at the next resync | `docs/phase4/11-control-plane-job-lifecycle/README.md:54` |
| `ReadyMeansReplicating` (`regions.cfg`) | `Start` (`runtime.go:306`) sets `StateRunning` after it released the lock under which it launched the replicator, over the `StateFailed` of one that ended at once | `docs/adr/adr-053-checkpoint-wal-and-promotion-recovery-orchestration.md:37` |
| `GrantsAreFenced` (`access.cfg`) | the expected revision of a grant is not compared (`access_service.go:238`) | `api/protobuf/v1/access.proto:69` |
| `BootstrapReenables` (`access.cfg` with `MaxOperations = 2`) | bootstrapping does not enable a disabled principal again (`auth/postgres/repository.go:217`) | `docs/runbooks/session-revocation.md:75` |
| `RefreshEndsWithSession` (`access.cfg`) | a request that read the session before it was revoked still uses its refresh token (`authflow/manager.go:251`) | `docs/phase6/18-auth-rbac-audit/design.md:92` |
| `GatewayIsServed` (`services.cfg` with `MaxFaults = 0`) | the production gRPC listener requires client certificates and the REST gateway presents none (`main.go:874`), so REST calls fail while the server is ready | `docs/adr/adr-045-control-plane-mtls-and-network-boundary.md:99` |

More, met while modelling, harm none of the properties:

- A superseded execution can still commit a batch, since the fence it asserts is the
  one in its own Worker's memory (`JdbcBatchSink.java:112`).
- A replica that lost its row still writes the terminal state of the Job, under the
  Job's version only (`scheduler.go:491`).
- A completed Coordinator whose cleanup fails until its heartbeat is old is recorded
  `FAILED`.
- What the Console creates or updates is refused by the CRD's schema, see
  [above](#jobs-syncjob-resources-and-credentials).
- Two overlapping calls of the topology watcher close one channel twice and panic
  (`topology/config.go:409`); nothing calls it that way.
- A region that authenticates by OIDC refuses the pushes of its peer, which has no token
  to send; the sender's runtime ends as failed.
- The controller overrides a desired state set through the API with the resource's
  (`job_handlers.go:20`); mirrored writes of the Console may land in the opposite order
  of the changes they mirror.
- The count and the page of a Job listing are two statements: a Job created between
  them can be missed.
- Changes of platform roles and of a principal's status move no policy revision.
- One key of an unsupported type in the provider's document fails the whole refresh.
- A rotated refresh token is lost when the Console stops between the refresh and its
  update of the session.
- The Scheduler and the executor close their database without waiting for the loop;
  `GracefulStop` has no time limit; interval mistakes of the Scheduler are found only
  after the database was opened.

## What is not modelled

- Parts of the data plane beside the checkpointed path: the batch exchange between the
  two threads of a plain task and its spilling, cancel of plain tasks, the resumable
  and adaptive Coordinators with the split progress store. They share no state with
  the modelled path.
- The change-data pipeline: its source is the Debezium engine, whose threads and
  offset store are outside the repository.
- Parts without shared state: compiler and validation of job documents, formats,
  command line, local engine, observability, scripts, and placeholders with only a
  build file. Repositories in memory and constructors, which only tests use, and
  generated code (Protocol Buffers, deep copies).
- Encodings: checkpoint manifests, messages, Kubernetes manifests, SQL texts, the
  sealing of tokens and stored credentials. The probe's conversation with a database is
  an outcome.
- `FileCheckpointStore`'s cache, which trusts the resolution of the file's stamp.
- Sources that change while they are read: rows of a split are fixed.
- In replication, `PublishCheckpoint`, the bridge of events and the channel's `Server`,
  which nothing calls; two writers of one log; promotions left `PENDING` by a crash are
  in the model, an operator who repairs them is not.
- Forged, expired or foreign page tokens, which are refused; audit rows of denied
  calls; the resolved client address of trusted proxies, which feeds a metric; metrics
  servers.
- Peer dials trust the region's own certificate authority; that the certificates fit
  is assumed.
