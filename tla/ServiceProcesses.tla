--------------------------- MODULE ServiceProcesses ---------------------------
(***************************************************************************)
(* The programs of the control plane as processes: one API server per      *)
(* region, the Console, the Scheduler and the Connection test executor.    *)
(* Each main loads its settings and calls run, which opens what it needs,  *)
(* starts its servers in goroutines of their own, waits for a signal or    *)
(* for the failure of a server, and leaves through its deferred closes.    *)
(* The platform restarts what exits and kills what does not stop.          *)
(***************************************************************************)
EXTENDS Integers, FiniteSets, Sequences, Functions

CONSTANTS Regions,      \* the regions, each with its API server
          MaxFaults     \* how many kinds of fault a behaviour may contain

\* Every region has a peer; the other programs are no regions.
ASSUME RegionsHavePeers ==
  /\ \A r \in Regions : \E q \in Regions : q # r
  /\ Regions \cap {"console", "scheduler", "executor"} = {}

VARIABLES settings,     \* the environment each process is started with
          proc,         \* where the main goroutine of each process is
          server,       \* the state of its servers and loops
          work,         \* whether a server has a request in progress
          runtime,      \* the replication runtime of an API server
          faults,       \* the kinds of fault that happened
          refused       \* dials the other side's transport refused

vars == <<settings, proc, server, work, runtime, faults, refused>>

Processes == Regions \cup {"console", "scheduler", "executor"}
Servers == {"grpc", "http", "loop", "health"}
Peer(r) == CHOOSE q \in Regions : q # r

Unstarted == [phase |-> "start", open |-> <<>>, draining |-> <<>>, signalled |-> FALSE,
              errors |-> 0, outcome |-> "none"]

-----------------------------------------------------------------------------
(* Settings: which variables are given, and what is wrong with values: one *)
(* does not parse or exceeds its bounds ("value"), the intervals of a loop *)
(* do not fit each other, a document (the test policies of the API server, *)
(* the one of the Console's OpenID provider) is refused, networks (trusted *)
(* proxies, those the executor protects) are none.                         *)

ApiNames ==
  {"database", "oidc", "provider", "certificate", "privateKey", "proxies", "tokenKey", "clientCA",
   "requireClient", "compilerCert", "compilerKey", "compilerCA"}
ReplicationNames == {"replication", "peer", "objectStore", "walPrefix"}
ConsoleNames ==
  {"oidc", "origin", "sessionKey", "database", "provider", "apiCA", "clientCert", "clientKey",
   "certificate", "privateKey", "proxies"}
SchedulerNames == {"database", "progressClaim", "coordinatorImage", "workerImage", "heartbeatURL"}

Settings ==
  [production : BOOLEAN,
   given : SUBSET (ApiNames \cup ReplicationNames \cup ConsoleNames \cup SchedulerNames),
   bad : SUBSET {"value", "intervals", "document", "networks"}]

Given(s, names) == names \subseteq s.given
parses(s) == "value" \notin s.bad
Together(s, names) == names \cap s.given \in {{}, names}

ParseCIDRList(s) == "networks" \notin s.bad
parseConnectionTestPolicies(s) == "document" \notin s.bad

compilerTLS == {"compilerCert", "compilerKey", "compilerCA"}

listenerSettings(s) ==
  /\ Given(s, {"database"})
  /\ Together(s, {"certificate", "privateKey"})
  /\ "oidc" \in s.given => Given(s, {"provider"})
  /\ "proxies" \in s.given => ParseCIDRList(s)
  /\ s.production => Given(s, {"proxies", "oidc", "certificate", "tokenKey", "clientCA", "requireClient"})

runtimeSettings(s) ==
  /\ parseConnectionTestPolicies(s)
  /\ Together(s, compilerTLS)
  /\ s.production => Given(s, compilerTLS)
  /\ "replication" \in s.given => Given(s, {"peer", "objectStore", "walPrefix"})

apiLoadConfig(s) == parses(s) /\ listenerSettings(s) /\ runtimeSettings(s)

consoleLoadConfigWithoutIdentity(s) ==
  /\ parses(s)
  /\ "oidc" \in s.given => Given(s, {"origin", "sessionKey", "database", "provider"})
  /\ s.production => Given(s, {"oidc", "apiCA", "certificate", "privateKey", "proxies"})
  /\ "proxies" \in s.given => ParseCIDRList(s)

consoleLoadConfig(s) ==
  /\ parses(s)
  /\ "oidc" \in s.given => Given(s, {"origin", "sessionKey", "database", "provider"})
  /\ s.production => Given(s, {"oidc", "apiCA", "clientCert", "clientKey", "certificate", "privateKey", "proxies"})
  /\ "proxies" \in s.given => ParseCIDRList(s)

schedulerLoadConfig(s) ==
  parses(s) /\ Given(s, {"database", "progressClaim", "coordinatorImage", "workerImage", "heartbeatURL"})

ExecutorTimingValid(s) == "intervals" \notin s.bad
executorLoadConfig(s) == parses(s) /\ ExecutorTimingValid(s) /\ Given(s, {"database"})

loadConfig(p) ==
  LET s == settings[p] IN
  \/ p \in Regions /\ apiLoadConfig(s)
  \/ p = "console" /\ consoleLoadConfig(s)
  \/ p = "scheduler" /\ schedulerLoadConfig(s)
  \/ p = "executor" /\ executorLoadConfig(s)

\* What only a constructor of run finds, after the database was opened.
NewReconciler(s) == "intervals" \notin s.bad
NewEgressGuard(s) == "networks" \notin s.bad
discover(s) == "document" \notin s.bad
NewOIDCClient(s) == "oidc" \in s.given => discover(s)

constructs(p) ==
  LET s == settings[p] IN
  \/ p \in Regions
  \/ p = "console" /\ NewOIDCClient(s)
  \/ p = "scheduler" /\ NewReconciler(s)
  \/ p = "executor" /\ NewEgressGuard(s)

-----------------------------------------------------------------------------
(* Transport: what a listener asks of its clients and what a dial offers.  *)

ServerTLSConfig(s) ==
  [tls |-> "certificate" \in s.given,
   requires |-> Given(s, {"certificate", "requireClient"}) /\ s.production]

gatewayDialOptions(s) == [tls |-> "certificate" \in s.given, identity |-> FALSE]
peerDialOptions(s) == [tls |-> "certificate" \in s.given, identity |-> "certificate" \in s.given]
apiDialOptions(s) == [tls |-> "apiCA" \in s.given, identity |-> Given(s, {"apiCA", "clientCert"})]

\* ClientTLSConfig refuses half an identity, which only production settings rule out before.
dialable(p) ==
  p = "console" => ("apiCA" \in settings[p].given => Together(settings[p], {"clientCert", "clientKey"}))

Accepts(offer, r) ==
  LET wanted == ServerTLSConfig(settings[r]) IN
  offer.tls = wanted.tls /\ (wanted.requires => offer.identity)

-----------------------------------------------------------------------------
(* The programs: what run opens, in order, the servers it starts, and the  *)
(* ones it stops, in order, after a signal.  Loops end on their own.       *)

ApiServer(s) ==
  [opens |-> <<"jobs", "auth", "catalog", "connections", "compiler">>,
   servers |-> {"grpc", "http"}, drains |-> <<"grpc", "http">>]

Console(s) ==
  [opens |-> IF "oidc" \in s.given THEN <<"api", "auth">> ELSE <<"api">>,
   servers |-> {"http"}, drains |-> <<"http">>]

Scheduler(s) ==
  [opens |-> <<"database">>, servers |-> {"loop", "health"}, drains |-> <<"health">>]

Executor(s) ==
  [opens |-> <<"connections">>, servers |-> {"loop", "health"}, drains |-> <<"health">>]

Program(p) ==
  LET s == settings[p] IN
  CASE p \in Regions -> ApiServer(s)
    [] p = "console" -> Console(s)
    [] p = "scheduler" -> Scheduler(s)
    [] p = "executor" -> Executor(s)

Replicates(p) == p \in Regions /\ "replication" \in settings[p].given

\* The order in which run goes through its stages; the runtime dials before serving in the mutant.
stagesDialFirst == <<"open", "build", "listen", "connect", "serve", "wait">>
stages == <<"open", "build", "listen", "serve", "connect", "wait">>

After(stage) == stages[1 + CHOOSE i \in 1..Len(stages) : stages[i] = stage]

At(p, stage) == proc[p].phase = stage
Goes(p, stage) == proc' = [proc EXCEPT ![p].phase = stage]

MayFail(kind) == kind \notin faults /\ Cardinality(faults) < MaxFaults
Fault(kind) == MayFail(kind) /\ faults' = faults \cup {kind}

\* An error return: servers are stopped without waiting for their requests.
Leaves(p) ==
  /\ proc' = [proc EXCEPT ![p].phase = "release", ![p].outcome = "error"]
  /\ server' = [server EXCEPT ![p] = [s \in Servers |-> IF @[s] = "off" THEN "off" ELSE "stopped"]]

\* The process is gone, and with it everything it had.
Gone(p, outcome) ==
  /\ proc' = [proc EXCEPT ![p] = [Unstarted EXCEPT !.phase = "exited", !.outcome = outcome]]
  /\ server' = [server EXCEPT ![p] = [s \in Servers |-> "off"]]
  /\ work' = [work EXCEPT ![p] = {}]
  /\ runtime' = [runtime EXCEPT ![p] = "none"]

-----------------------------------------------------------------------------
(* The main goroutine.                                                     *)

main(p) ==
  /\ At(p, "start")
  /\ IF loadConfig(p) /\ dialable(p)
     THEN Goes(p, "open") /\ UNCHANGED <<server, work, runtime>>
     ELSE Gone(p, "error")
  /\ UNCHANGED <<settings, faults, refused>>

open(p) ==
  LET opens == Program(p).opens
      opened == Len(proc[p].open) + 1 IN
  /\ At(p, "open")
  /\ proc' = [proc EXCEPT ![p].open = Append(@, opens[opened]),
                          ![p].phase = IF opened = Len(opens) THEN After("open") ELSE @]
  /\ UNCHANGED <<settings, server, work, runtime, faults, refused>>

builtRuntime(p) == IF Replicates(p) THEN "built" ELSE "none"

build(p) ==
  /\ At(p, "build")
  /\ IF constructs(p)
     THEN /\ Goes(p, After("build"))
          /\ runtime' = [runtime EXCEPT ![p] = builtRuntime(p)]
          /\ UNCHANGED server
     ELSE Leaves(p) /\ UNCHANGED runtime
  /\ UNCHANGED <<settings, work, faults, refused>>

listen(p) ==
  /\ At(p, "listen")
  /\ Goes(p, After("listen"))
  /\ UNCHANGED <<settings, server, work, runtime, faults, refused>>

\* Any step before serving may fail, or find its context ended; what was opened is closed again.
setupFails(p) ==
  /\ proc[p].phase \in {"open", "build", "listen"}
  /\ Fault("setup") \/ (proc[p].signalled /\ UNCHANGED faults)
  /\ Leaves(p)
  /\ UNCHANGED <<settings, work, runtime, refused>>

serve(p) ==
  /\ At(p, "serve")
  /\ Goes(p, After("serve"))
  /\ server' = [server EXCEPT ![p] = [s \in Servers |-> IF s \in Program(p).servers THEN "starting" ELSE "off"]]
  /\ UNCHANGED <<settings, work, runtime, faults, refused>>

\* Start blocks until the peer answers or the caller's context ends; then it starts the
\* replicator's goroutine, and says last of all that the runtime is running.
startReplication(p) ==
  LET peer == Peer(p)
      reached == server[peer]["grpc"] = "serving" /\ Accepts(peerDialOptions(settings[p]), peer) IN
  /\ At(p, "connect")
  /\ \/ /\ ~Replicates(p)
        /\ Goes(p, After("connect"))
        /\ UNCHANGED <<server, runtime, faults>>
     \/ /\ runtime[p] = "built" /\ reached
        /\ runtime' = [runtime EXCEPT ![p] = "starting"]
        /\ UNCHANGED <<proc, server, faults>>
     \/ /\ runtime[p] \in {"starting", "failed"}     \* whatever became of the replicator by now
        /\ Goes(p, After("connect"))
        /\ runtime' = [runtime EXCEPT ![p] = "running"]
        /\ UNCHANGED <<server, faults>>
     \/ /\ runtime[p] = "built" /\ reached /\ Fault("progress")
        /\ Leaves(p)
        /\ runtime' = [runtime EXCEPT ![p] = "closed"]
     \/ /\ runtime[p] = "built" /\ proc[p].signalled
        /\ Leaves(p)
        /\ runtime' = [runtime EXCEPT ![p] = "closed"]
        /\ UNCHANGED faults
  /\ UNCHANGED <<settings, work, refused>>

await(p) ==
  /\ At(p, "wait")
  /\ \/ /\ proc[p].signalled
        /\ proc' = [proc EXCEPT ![p].phase = "drain", ![p].draining = Program(p).drains]
        /\ UNCHANGED server
     \/ /\ proc[p].errors > 0
        /\ Leaves(p)
  /\ UNCHANGED <<settings, work, runtime, faults, refused>>

\* GracefulStop and Shutdown: no new requests, then wait for the ones in progress.
drainUnawaited(p) ==
  LET s == Head(proc[p].draining) IN
  /\ At(p, "drain") /\ proc[p].draining # <<>>
  /\ server' = [server EXCEPT ![p][s] = "stopped"]
  /\ proc' = [proc EXCEPT ![p].draining = Tail(@)]
  /\ UNCHANGED <<settings, work, runtime, faults, refused>>

drain(p) ==
  LET s == Head(proc[p].draining) IN
  /\ At(p, "drain") /\ proc[p].draining # <<>>
  /\ \/ /\ server[p][s] # "draining"
        /\ server' = [server EXCEPT ![p][s] = "draining"]
        /\ UNCHANGED proc
     \/ /\ server[p][s] = "draining" /\ s \notin work[p]
        /\ server' = [server EXCEPT ![p][s] = "stopped"]
        /\ proc' = [proc EXCEPT ![p].draining = Tail(@)]
     \/ /\ server[p][s] = "draining" /\ s \in work[p] /\ s # "grpc"    \* shutdownTimeout
        /\ proc' = [proc EXCEPT ![p].phase = "release", ![p].outcome = "timeout"]
        /\ UNCHANGED server
  /\ UNCHANGED <<settings, work, runtime, faults, refused>>

drained(p) ==
  /\ At(p, "drain") /\ proc[p].draining = <<>>
  /\ proc' = [proc EXCEPT ![p].phase = "release", ![p].outcome = "clean"]
  /\ UNCHANGED <<settings, server, work, runtime, faults, refused>>

\* The runtime has a connection and perhaps a replicator that its Close must end.
Replicating(p) == runtime[p] \in {"starting", "running", "failed"}

\* The deferred calls, the last one first; after them the process ends.
release(p) ==
  /\ At(p, "release")
  /\ \/ /\ Replicating(p)
        /\ runtime' = [runtime EXCEPT ![p] = "closed"]
        /\ UNCHANGED <<proc, server, work>>
     \/ /\ ~Replicating(p) /\ proc[p].open # <<>>
        /\ proc' = [proc EXCEPT ![p].open = SubSeq(@, 1, Len(@) - 1)]
        /\ UNCHANGED <<server, work, runtime>>
     \/ /\ ~Replicating(p) /\ proc[p].open = <<>>
        /\ Gone(p, proc[p].outcome)
  /\ UNCHANGED <<settings, faults, refused>>

Run(p) ==
  \/ main(p) \/ open(p) \/ build(p) \/ listen(p) \/ setupFails(p) \/ serve(p)
  \/ startReplication(p) \/ await(p) \/ drain(p) \/ drained(p) \/ release(p)

-----------------------------------------------------------------------------
(* The goroutines beside it, and the world.                                *)

\* ServeTLS of the Console needs the key; only production settings say so before.
servable(p, s) == p = "console" /\ "certificate" \in settings[p].given => "privateKey" \in settings[p].given

serverStarts(p, s) ==
  /\ server[p][s] = "starting" /\ servable(p, s)
  /\ server' = [server EXCEPT ![p][s] = "serving"]
  /\ UNCHANGED <<settings, proc, work, runtime, faults, refused>>

\* A server that cannot bind or breaks reports it; a loop that ends with the signal does not.
serverFails(p, s) ==
  /\ server[p][s] \in {"starting", "serving"}
  /\ Fault(s) \/ (~servable(p, s) /\ UNCHANGED faults)
  /\ server' = [server EXCEPT ![p][s] = "failed"]
  /\ proc' = [proc EXCEPT ![p].errors = @ + 1]
  /\ UNCHANGED <<settings, work, runtime, refused>>

loopEnds(p) ==
  /\ server[p]["loop"] \in {"starting", "serving"} /\ proc[p].signalled
  /\ server' = [server EXCEPT ![p]["loop"] = "stopped"]
  /\ UNCHANGED <<settings, proc, work, runtime, faults, refused>>

\* The replicator gives up; the runtime says so, and nothing else happens.
runReplicator(p) ==
  /\ runtime[p] \in {"starting", "running"}
  /\ Fault("replicator")
  /\ runtime' = [runtime EXCEPT ![p] = "failed"]
  /\ UNCHANGED <<settings, proc, server, work, refused>>

\* A request that arrives, over HTTP at the Console or directly at a gRPC server.
request(p, s) ==
  /\ server[p][s] = "serving" /\ s # "loop" /\ s \notin work[p]
  /\ work' = [work EXCEPT ![p] = @ \cup {s}]
  /\ UNCHANGED <<settings, proc, server, runtime, faults, refused>>

\* A request of the Console or of the REST gateway, sent on to the gRPC server.
forward(kind, p, offer, r) ==
  /\ "http" \in work[p] /\ server[r]["grpc"] = "serving"
  /\ IF Accepts(offer, r)
     THEN work' = [work EXCEPT ![r] = @ \cup {"grpc"}] /\ UNCHANGED refused
     ELSE refused' = refused \cup {[kind |-> kind, from |-> p, to |-> r]} /\ UNCHANGED work
  /\ UNCHANGED <<settings, proc, server, runtime, faults>>

answer(p, s) ==
  /\ s \in work[p]
  /\ work' = [work EXCEPT ![p] = @ \ {s}]
  /\ UNCHANGED <<settings, proc, server, runtime, faults, refused>>

Signal(p) ==
  /\ proc[p].phase \notin {"start", "exited", "release"} /\ ~proc[p].signalled
  /\ Fault("signal")
  /\ proc' = [proc EXCEPT ![p].signalled = TRUE]
  /\ UNCHANGED <<settings, server, work, runtime, refused>>

Crash(p) ==
  /\ proc[p].phase # "exited"
  /\ Fault("crash")
  /\ Gone(p, "error")
  /\ UNCHANGED <<settings, refused>>

\* The platform: a signalled process is killed in the end, an ended one started again.
Kill(p) ==
  /\ proc[p].signalled
  /\ Gone(p, "error")
  /\ UNCHANGED <<settings, faults, refused>>

Restart(p) ==
  /\ At(p, "exited")
  /\ proc' = [proc EXCEPT ![p] = Unstarted]
  /\ UNCHANGED <<settings, server, work, runtime, faults, refused>>

\* What GET /ready, or /readyz, answers in each program.
Serves(p, s) == server[p][s] = "serving" /\ proc[p].open = Program(p).opens

apiHandler(p) == Serves(p, "http") /\ (Replicates(p) => runtime[p] = "running")
readyHandler(p) == Serves(p, "http")
applicationHandler(p) == Serves(p, "health")
healthHandler(p) == Serves(p, "health")

Ready(p) ==
  \/ p \in Regions /\ apiHandler(p)
  \/ p = "console" /\ readyHandler(p)
  \/ p = "scheduler" /\ applicationHandler(p)
  \/ p = "executor" /\ healthHandler(p)

-----------------------------------------------------------------------------
(* The processes that are deployed, with any settings, and what they meet. *)

ServiceInit ==
  /\ settings \in [Processes -> Settings]
  /\ \E deployed \in SUBSET Processes :
       proc = [p \in Processes |-> IF p \in deployed THEN Unstarted ELSE [Unstarted EXCEPT !.phase = "absent"]]
  /\ server = [p \in Processes |-> [s \in Servers |-> "off"]]
  /\ work = [p \in Processes |-> {}]
  /\ runtime = [p \in Processes |-> "none"]
  /\ faults = {} /\ refused = {}

ConsoleForwards(r) == forward("console", "console", apiDialOptions(settings["console"]), r)
GatewayForwards(r) == forward("gateway", r, gatewayDialOptions(settings[r]), r)

ProcessStep(p) ==
  \/ Run(p) \/ Signal(p) \/ Crash(p) \/ Kill(p) \/ Restart(p) \/ loopEnds(p) \/ runReplicator(p)
  \/ \E s \in Servers : serverStarts(p, s) \/ serverFails(p, s)

RequestStep ==
  \/ \E p \in Processes, s \in Servers : request(p, s) \/ answer(p, s)
  \/ \E r \in Regions : ConsoleForwards(r) \/ GatewayForwards(r)

ServiceNext == (\E p \in Processes : ProcessStep(p)) \/ RequestStep

ServiceSpec == ServiceInit /\ [][ServiceNext]_vars

-----------------------------------------------------------------------------
(* Properties.                                                             *)

Startable(p) ==
  /\ proc[p].phase # "absent" /\ loadConfig(p) /\ dialable(p) /\ constructs(p)
  /\ \A s \in Program(p).servers : servable(p, s)
Up(p) == Ready(p) /\ \A s \in Program(p).servers : server[p][s] = "serving"

(* A run that waits for a signal and gets it closes nothing under the work *)
(* that uses it: before the deferred closes of its repositories and        *)
(* connections GracefulStop and Shutdown end the requests of every server, *)
(* and Close ends the replication runtime.  When Shutdown times out, only  *)
(* the requests of the very server it waited for are left: for an API      *)
(* server no gRPC request, which is where the repositories are used.  A    *)
(* run that leaves because a server failed, or because the signal came     *)
(* while it dialled its peer, stops its servers without waiting; of it     *)
(* nothing is said.                                                        *)
DrainedBeforeClosed ==
  \A p \in Processes :
    (At(p, "release") /\ proc[p].outcome \in {"clean", "timeout"} /\ proc[p].open # Program(p).opens)
      => /\ ~Replicating(p)
         /\ \A s \in Range(Program(p).drains) \cap work[p] :
              proc[p].outcome = "timeout" /\ s = Head(proc[p].draining)

(* Two processes that both accepted their production settings can talk:    *)
(* no dial of the Console to an API server, or of a region to its peer, is *)
(* refused for lack of TLS or of a client certificate.                     *)
DialsAreAccepted ==
  /\ \A d \in refused : d.kind = "gateway" \/ ~settings[d.from].production \/ ~settings[d.to].production
  /\ \A r \in Regions :
       (At(r, "connect") /\ Replicates(r) /\ loadConfig(Peer(r))
          /\ settings[r].production /\ settings[Peer(r)].production)
         => Accepts(peerDialOptions(settings[r]), Peer(r))

(* An API server forwards what its REST gateway receives to its own gRPC   *)
(* listener, and the listener takes it.                                    *)
GatewayIsServed == \A d \in refused : d.kind # "gateway"

(* Whatever fails once while the processes start and run (a step of the    *)
(* set-up, a server, the load of the replication progress, a crash, a      *)
(* signal), every process whose settings let it serve is in the end ready  *)
(* and stays so.  For two regions it says that neither waits for ever for  *)
(* the other: each serves before it dials.  One thing is not made good:    *)
(* when the replicator gave up, the API server goes on, and stays unready. *)
ServicesComeUp ==
  \A p \in Processes : <>[](Startable(p) => Up(p) \/ runtime[p] = "failed")

=============================================================================
