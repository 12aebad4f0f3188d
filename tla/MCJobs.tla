-------------------------------- MODULE MCJobs --------------------------------
(***************************************************************************)
(* Small instances of the Job API, the SyncJob controller and the          *)
(* materialization of Connections.  A behaviour has one focus, chosen at   *)
(* the start, as in MCConnections.                                         *)
(***************************************************************************)
EXTENDS SyncJobController, Materialization, MCCatalogue

VARIABLES
    focus,              \* "jobs", "controller", "update", "execution" or "cleanup"
    claimed             \* where the controller runs: the epochs the scheduler has claimed

allVars == <<passes, rows, planeVars, secrets, receipts, serial, environmentVars, controllerVars, jobVars,
             serviceVars, connectionVars, focus, claimed, catalogVars>>

---------------------------------------------------------------------------
(* Connection 1 is there, enabled, with one generation.                     *)

Ready ==
    [uid |-> 1, name |-> 1, connector |-> 1, version |-> 1, state |-> "ACTIVE", display |-> "d1",
     current |-> [number |-> 1, descriptor |-> 1, schema |-> Descriptors[1].schema,
                  settings |-> <<[key |-> 1, value |-> JdbcUrl("postgresql", "h1"), sensitivity |-> "PUBLIC"]>>,
                  locator |-> [provider |-> "KUBERNETES_SECRET_V1", secret |-> "s1",
                               fields |-> <<[field |-> 3, key |-> "k"]>>]]]

Rotated == [Ready EXCEPT !.version = 2, !.current.number = 2, !.current.locator.secret = "s2"]

Rotation == [Request("ROTATE", 1, 1) EXCEPT !.secret = Secret("s2", <<3>>)]
ConnectionRequests ==
    [jobs |-> {Rotation, Request("DISABLE", 1, 1)},
     controller |-> {}, update |-> {}, execution |-> {}, cleanup |-> {}]

(* Specs: without the Connection, with it as source, and as both ends.      *)
End(connector, ref, options) == [connector |-> connector, ref |-> ref, options |-> options]
Plain == [source |-> End(1, 0, {8}), sink |-> End(2, 0, {}), delivery |-> "AT_LEAST_ONCE", batch |-> 0]
Bound == [Plain EXCEPT !.source = End(1, 1, {8})]
Both == [Bound EXCEPT !.sink = End(1, 1, {})]
Stored(spec) == [spec EXCEPT !.batch = 1]

JobRequest(kind, expected, key) ==
    [actor |-> "alice", key |-> key, kind |-> kind, name |-> 1, expected |-> expected, spec |-> {}]
With_(q, spec) == [q EXCEPT !.spec = {spec}]

JobRequests ==
    [jobs |-> {With_(JobRequest("CREATE", 0, 1), Bound), JobRequest("START", 1, 1), JobRequest("STOP", 2, 1),
               By("bob", With_(JobRequest("UPDATE", 1, 1), Both)), By("bob", With_(JobRequest("UPDATE", 2, 2), Plain))},
     controller |-> {JobRequest("DELETE", 1, 1)},
     update |-> {By("bob", With_(JobRequest("UPDATE", 1, 1), [Plain EXCEPT !.delivery = "EXACTLY_ONCE"]))},
     execution |-> {}, cleanup |-> {}]

MCGranted ==
    [alice |-> {"ROTATE", "DISABLE", "DELETE", "USE", "JOB_CREATE", "JOB_UPDATE", "JOB_START", "JOB_STOP",
                "JOB_DELETE"},
     bob |-> {"USE", "JOB_START", "JOB_UPDATE"}]
MCGuaranteeNames == ("AT_LEAST_ONCE" :> "DELIVERY_GUARANTEE_AT_LEAST_ONCE"
                     @@ "EXACTLY_ONCE" :> "DELIVERY_GUARANTEE_EXACTLY_ONCE")
MCExecutions == {<<1, 1>>}

Running == [JobRow(1, 1, Stored(Both)) EXCEPT !.epoch = 1, !.desired = "RUNNING", !.state = "INITIALIZING"]

---------------------------------------------------------------------------
Executing == focus = "execution" \/ focus = "cleanup"
Controlling == focus = "controller" \/ focus = "update"

Init ==
    /\ focus \in {"jobs", "controller", "update", "execution", "cleanup"}
    /\ descriptorRows = {Descriptors[1], Descriptors[4]} /\ activation = {Old.revision}
    /\ inventoryRows = {[inventory |-> Old, at |-> 1]}
    /\ server = [s \in Servers |->
                   IF focus # "cleanup" THEN Serving
                   ELSE [pc |-> "reconcile", inventory |-> {Newer}, old |-> {Old.revision}, at |-> 2]]
    /\ starts = 2 /\ listing = NoListing
    /\ catalogAudit = {[old |-> {}, new |-> Old.revision, outcome |-> "CHANGED"]}
    /\ connections = [n \in Names |-> IF n # 1 THEN NoConnection ELSE IF Executing THEN Rotated ELSE Ready]
    /\ generations = {<<1, Ready.current>>, <<1, connections[1].current>>}
    /\ idempotency = {} /\ tombstones = {} /\ listRevision = 1 /\ tests = <<>> /\ connectionAudit = {} /\ now = 0
    /\ cleanupObligations = {}
    /\ calls = [c \in Clients |-> {}] /\ connectionListing = NoConnectionListing
    /\ LET bindings == {[b EXCEPT !.generation = 1] : b \in UNION UNION {effectiveConnector(Old, r, Both[r]) : r \in Roles}}
       IN  IF Executing
           THEN /\ jobs = {Running} /\ jobBindings = Stable(1, bindings)
                /\ executionBindings = Captured(Running, bindings, Old.compiler)
           ELSE jobs = {} /\ jobBindings = {} /\ executionBindings = {}
    /\ JobInit /\ ControllerInit /\ MaterializationInit /\ claimed = {}

Rest == UNCHANGED <<controllerVars, materializationVars>>

ConnectionStep ==
    /\ \E c \in Clients : \/ \E q \in {x \in ConnectionRequests[focus] : x.actor = c} : Call(c, q)
                          \/ Commit(c) \/ Return(c)
    /\ UNCHANGED <<jobVars, catalogVars>> /\ Rest

CatalogStep ==
    /\ \E s \in Servers : Reconcile(s)
    /\ UNCHANGED <<connectionVars, serviceVars, jobVars>> /\ Rest

JobStep ==
    /\ JobApiStep([c \in Clients |-> {q \in JobRequests[focus] : q.actor = c \/ (c = "bob" /\ q.kind = "START")}])
    /\ UNCHANGED <<catalogVars, serviceVars, materializationVars>>

(* The second epoch of the Job that is executed; its call in one step.      *)
StartedAgain ==
    /\ \E j \in jobs, i \in Current : \E bindings \in effectiveConnector(i, "source", j.spec["source"]) :
        /\ StartAccepted(j) /\ j.epoch = 1
        /\ Wrote({j}, {Updated(Started(j))})
        /\ executionBindings' = executionBindings \cup
             Captured(Started(j), {[b EXCEPT !.role = r] : r \in Roles, b \in bindings}, i.compiler)
    /\ UNCHANGED <<connections, generations, idempotency, tombstones, listRevision, tests, jobBindings,
                   cleanupObligations, connectionAudit, now, jobTombstones, jobIdempotency, jobAudit, jobCalls>>

(* The scheduler claims an epoch that is to run, and observes those it has  *)
(* claimed: the dispatch row is what makes it look (see JobScheduling).     *)
Claims ==
    /\ \E j \in jobs : /\ j.state = "INITIALIZING" /\ <<j.uid, j.epoch>> \notin claimed
                       /\ claimed' = {<<j.uid, j.epoch>>}
    /\ UNCHANGED <<connectionVars, jobVars>>

ObserveClaimed(state) ==
    /\ \E j \in jobs : <<j.uid, j.epoch>> \in claimed
    /\ Observe(1, state) /\ UNCHANGED claimed

ExecutionStep ==
    /\ \/ /\ focus = "jobs" /\ \E state \in {"RUNNING", "FINISHED", "CANCELED"} : Observe(1, state)
          /\ UNCHANGED claimed
       \/ Controlling /\ (Claims \/ \E state \in {"FAILED", "CANCELED"} : ObserveClaimed(state))
       \/ /\ Executing /\ UNCHANGED claimed /\ \E j \in jobs : StopAccepted(j) /\ Wrote({j}, {Updated(Stopped(j))})
          /\ UNCHANGED <<connectionVars, jobTombstones, jobIdempotency, jobAudit, jobCalls>>
       \/ focus = "cleanup" /\ StartedAgain /\ UNCHANGED claimed
    /\ UNCHANGED <<catalogVars, serviceVars>> /\ Rest

(* Users start a Job and change its spec or stop it.  Where the API updates *)
(* the Job the controller does not stop.                                    *)
Asked ==
    {[spec |-> Stored(Plain), state |-> "RUNNING"],
     IF focus = "update" THEN [spec |-> Stored(Plain), state |-> ""]
     ELSE [spec |-> [Stored(Plain) EXCEPT !.delivery = "EXACTLY_ONCE"], state |-> "RUNNING"]}

SyncStep ==
    /\ Controlling /\ ResourceStep(Asked) /\ (focus = "update" => stops' = 0)
    /\ UNCHANGED <<catalogVars, serviceVars, materializationVars>>

(* With two replicas leases run out and a slow one works on; with one, the  *)
(* Coordinator stops reporting, the catalogue and the provider change, the  *)
(* replica loses its lease or stops.                                        *)
CredentialStep ==
    /\ \/ Executing /\ \E i \in Executions : ObjectGone(i) \/ CoordinatorEnds(i, "complete")
       \/ /\ focus = "execution"
          /\ \/ \E s \in Schedulers : SchedulerStep(s)
             \/ \E i \in Executions : LeaseExpires(i)
             \/ EditProvider("s1", {"ok"})
       \/ /\ focus = "cleanup"
          /\ \/ \E s \in {"s1"} : SchedulerStep(s) \/ Abandon(s)
             \/ \E i \in Executions : \/ HeartbeatExpires(i) \/ Heartbeat(i) \/ CoordinatorEnds(i, "failed")
                                     \/ LeaseExpires(i)
             \/ EditProvider("s1", {"ok", "missing", "replaced"})
    /\ UNCHANGED <<catalogVars, serviceVars, controllerVars>>

Next ==
    /\ UNCHANGED focus
    /\ \/ (ConnectionStep \/ CatalogStep \/ JobStep \/ SyncStep \/ CredentialStep) /\ UNCHANGED claimed
       \/ ExecutionStep

(* Watches are served, the controller's queue is worked off, the scheduler  *)
(* cancels what is canceled of what it has claimed; a replica ticks for     *)
(* ever and its calls return, deleted objects go.                           *)
Alone == UNCHANGED <<focus, catalogVars, serviceVars>>
Fairness ==
    /\ WF_allVars(Controlling /\ ControllerStep /\ UNCHANGED <<claimed, materializationVars>> /\ Alone)
    /\ WF_allVars(Controlling /\ Watch(1) /\ UNCHANGED <<claimed, materializationVars>> /\ Alone)
    /\ WF_allVars(Controlling /\ ObserveClaimed("CANCELED") /\ Rest /\ Alone)
    /\ WF_allVars(focus = "cleanup" /\ SchedulerStep("s1") /\ UNCHANGED <<claimed, controllerVars>> /\ Alone)
    /\ WF_allVars(focus = "cleanup" /\ (\E i \in Executions : ObjectGone(i)) /\ UNCHANGED <<claimed, controllerVars>>
                  /\ Alone)

Spec == Init /\ [][Next]_allVars /\ Fairness

(* A Job that was stopped before the scheduler claimed its epoch: nothing   *)
(* looks at it any more, and it is CANCELING for good (see                  *)
(* EveryStopConverges of JobScheduling, which the code violates).          *)
StoppedUnclaimed(n) == \E j \in Row(n) : j.state = "CANCELING" /\ <<j.uid, j.epoch>> \notin claimed

(* When users stop editing, every resource converges, and a deleted one     *)
(* goes, whatever conflicts with the API's and the scheduler's writes, the  *)
(* stale cache and the stops of the controller have cost (Reconcile); all   *)
(* but the ones whose Job was stopped before it was claimed.                *)
ResourcesConvergeWithController ==
    Controlling => <>[](\A n \in JobNames : Converged(n) \/ StoppedUnclaimed(n))

(* Where a replica cleans up, no credentials are left (see                  *)
(* CredentialsAreRemoved).                                                  *)
CredentialsAreRemovedByCleanup == focus = "cleanup" => CredentialsAreRemoved

===============================================================================
