------------------------------ MODULE MCServices ------------------------------
(***************************************************************************)
(* Instances of ServiceProcesses: two API servers that replicate to each   *)
(* other; an API server with the Console; the Scheduler; the executor.     *)
(***************************************************************************)
EXTENDS ServiceProcesses

CONSTANTS east, west
TwoRegions == {east, west}

VARIABLE focus          \* which processes this behaviour is about

mcvars == <<vars, focus>>

\* Everything given; one name, or one identity, missing; one thing wrong with the values.
Identities == {{"clientCert", "clientKey"}, {"certificate", "privateKey"}, compilerTLS}
Full(names, production) == [production |-> production, given |-> names, bad |-> {}]
Near(names) ==
  LET full == {Full(names, b) : b \in BOOLEAN} IN
  full \cup {[s EXCEPT !.given = @ \ m] : s \in full, m \in {{n} : n \in names} \cup Identities}
       \cup {[s EXCEPT !.bad = {b}] : s \in full, b \in {"value", "intervals", "document", "networks"}}

Nothing == Full({}, FALSE)
Live(f) ==
  CASE f = "regions" -> TwoRegions
    [] f = "console" -> {east, "console"}
    [] f = "scheduler" -> {"scheduler"}
    [] f = "executor" -> {"executor"}

IsFull(s, names) == s.given = names /\ s.bad = {}
Chosen(f, api, other) ==
  [p \in Processes |->
     IF p \notin Live(f) THEN Nothing ELSE IF p \in TwoRegions THEN api ELSE other]

Init ==
  /\ focus \in {"regions", "console", "scheduler", "executor"}
  /\ \/ /\ focus = "regions"
        /\ \E api \in {Full(ApiNames \cup ReplicationNames, TRUE), Full({"database"} \cup ReplicationNames, FALSE)} :
             settings = Chosen(focus, api, Nothing)
     \/ /\ focus = "console"
        /\ \E api \in Near(ApiNames), other \in Near(ConsoleNames) :
             /\ IsFull(api, ApiNames) \/ IsFull(other, ConsoleNames)
             /\ settings = Chosen(focus, api, other)
     \/ focus = "scheduler" /\ \E other \in Near(SchedulerNames) : settings = Chosen(focus, Nothing, other)
     \/ focus = "executor" /\ \E other \in Near({"database"}) : settings = Chosen(focus, Nothing, other)
  /\ proc = [p \in Processes |-> IF p \in Live(focus) THEN Unstarted ELSE [Unstarted EXCEPT !.phase = "absent"]]
  /\ server = [p \in Processes |-> [s \in Servers |-> "off"]]
  /\ work = [p \in Processes |-> {}]
  /\ runtime = [p \in Processes |-> "none"]
  /\ faults = {} /\ refused = {}

\* Requests at the gateway, at the Console and at the health endpoints; gRPC ones come from the peer.
Requests ==
  \/ \E p \in Live(focus) : focus # "regions" /\ (request(p, "http") \/ request(p, "health"))
  \/ \E p \in Live(focus) : focus = "regions" /\ request(p, "grpc")
  \/ \E p \in Live(focus), s \in Servers : answer(p, s)
  \/ focus = "console" /\ (ConsoleForwards(east) \/ GatewayForwards(east))

Next ==
  /\ (\E p \in Live(focus) : ProcessStep(p)) \/ Requests
  /\ focus = "console" => faults' \subseteq {"signal"}
  /\ UNCHANGED focus

Fairness ==
  \A p \in Processes :
    /\ WF_mcvars(Run(p) /\ UNCHANGED focus)
    /\ WF_mcvars((Kill(p) \/ Restart(p)) /\ UNCHANGED focus)
    /\ \A s \in Servers : WF_mcvars(serverStarts(p, s) /\ UNCHANGED focus)

Spec == Init /\ [][Next]_mcvars /\ Fairness

=============================================================================
