---------------------------- MODULE RegionTopology ----------------------------
(***************************************************************************)
(* The regions and their roles, as the topology loader reads them from a   *)
(* ConfigMap and the watcher reloads them (replication/topology/config.go).*)
(* A document is a sequence of regions and a lag threshold; a region is    *)
(* filled when its endpoints and its object storage are given.             *)
(***************************************************************************)
EXTENDS Integers, Sequences, FiniteSets

CONSTANTS
    Documents,          \* contents the operator may give the ConfigMap
    MaxEdits,           \* bound: edits of a behaviour
    WatchCallers,       \* goroutines that call the watcher
    MaxLoops            \* bound: loops started in a behaviour

VARIABLES
    configMap,          \* its document and resourceVersion
    loader,             \* Loader.config and Loader.resourceVersion
    watcher,            \* TopologyWatcher: started, its loop, and whether a call panicked
    loops,              \* the goroutines of run, in the order they were started
    callers             \* the Watch or Stop each caller is in, and the loop it waits for

topologyVars == <<configMap, loader, watcher, loops, callers>>

parseTopology(document) ==
    LET regions == document.regions
    IN  /\ regions # <<>> /\ document.threshold >= 0
        /\ \A i \in DOMAIN regions :
              /\ regions[i].name # "" /\ regions[i].role \in {"primary", "standby"} /\ regions[i].filled
              /\ \A j \in DOMAIN regions : regions[i].name = regions[j].name => i = j
        /\ Cardinality({i \in DOMAIN regions : regions[i].role = "primary"}) = 1

Parsed(source) ==
    [regions |-> source.document.regions, version |-> source.version,
     threshold |-> IF source.document.threshold = 0 THEN 5 ELSE source.document.threshold]

IsStandby(name) ==
    \E i \in DOMAIN loader.regions : loader.regions[i].name = name /\ loader.regions[i].role = "standby"

EditTopology(document) ==
    /\ configMap.version < MaxEdits
    /\ configMap' = [document |-> document, version |-> configMap.version + 1]
    /\ UNCHANGED <<loader, watcher, loops, callers>>

---------------------------------------------------------------------------
(* One loop of the watcher.  It polls while it is in its select, where it   *)
(* also sees its stop channel and its context; a read that fails, and fails *)
(* once the context is gone, leaves it there.                               *)

NotRead == [version |-> 0]
NewLoop == [stage |-> "begin", read |-> NotRead, told |-> 0, stop |-> FALSE, canceled |-> FALSE, released |-> FALSE]

LoopBegins(l) ==
    /\ loops[l].stage = "begin"
    /\ loops' = [loops EXCEPT ![l].stage = "select", ![l].told = loader.version]
    /\ UNCHANGED <<configMap, loader, watcher, callers>>
LoopReads(l) ==
    /\ loops[l].stage = "select" /\ ~loops[l].canceled
    /\ loops' = [loops EXCEPT ![l].stage = "load", ![l].read = configMap]
    /\ UNCHANGED <<configMap, loader, watcher, callers>>
(* What was read is taken over unless it is held already; an invalid one is *)
(* an error, and only without an error is the callback run.                 *)
Reload(l) ==
    /\ loops[l].stage = "load"
    /\ \/ /\ loops[l].read.version # loader.version /\ parseTopology(loops[l].read.document)
          /\ loader' = Parsed(loops[l].read) /\ loops' = [loops EXCEPT ![l].stage = "report", ![l].read = NotRead]
       \/ /\ loops[l].read.version = loader.version
          /\ loops' = [loops EXCEPT ![l].stage = "report", ![l].read = NotRead] /\ UNCHANGED loader
       \/ /\ loops[l].read.version # loader.version /\ ~parseTopology(loops[l].read.document)
          /\ loops' = [loops EXCEPT ![l].stage = "select", ![l].read = NotRead] /\ UNCHANGED loader
    /\ UNCHANGED <<configMap, watcher, callers>>
LoopReports(l) ==
    /\ loops[l].stage = "report"
    /\ loops' = [loops EXCEPT ![l].stage = "select", ![l].told = loader.version]
    /\ UNCHANGED <<configMap, loader, watcher, callers>>
LoopEnds(l) ==
    /\ loops[l].stage = "select" /\ (loops[l].stop \/ loops[l].canceled)
    /\ loops' = [loops EXCEPT ![l].stage = "ended"]
    /\ UNCHANGED <<configMap, loader, watcher, callers>>

---------------------------------------------------------------------------
(* Watch replaces a running loop: it closes the stop channel, waits for the *)
(* loop without the lock, and starts the next one; the watcher stays        *)
(* started meanwhile.  Stop waits without the lock too, for a watcher that  *)
(* is stopped by then: a further Stop returns at once, which is no step.    *)

NotCalling == [op |-> "none", loop |-> 0]
Launched(started) ==
    /\ loops' = Append(started, NewLoop)
    /\ watcher' = [watcher EXCEPT !.started = TRUE, !.current = Len(loops) + 1]

(* Closes the stop channel of the loop; one that is closed already panics.  *)
(* Only Stop leaves the watcher stopped.                                    *)
Closes(c, op) ==
    IF loops[watcher.current].stop
    THEN watcher' = [watcher EXCEPT !.panicked = TRUE] /\ UNCHANGED <<loops, callers>>
    ELSE /\ loops' = [loops EXCEPT ![watcher.current].stop = TRUE]
         /\ watcher' = [watcher EXCEPT !.started = (op = "watch")]
         /\ callers' = [callers EXCEPT ![c] = [op |-> op, loop |-> watcher.current]]

Watch(c) ==
    /\ callers[c] = NotCalling /\ Len(loops) < MaxLoops
    /\ \/ watcher.started /\ Closes(c, "watch")
       \/ ~watcher.started /\ Launched(loops) /\ UNCHANGED callers
    /\ UNCHANGED <<configMap, loader>>
WatchAgain(c) ==
    /\ callers[c].op = "watch" /\ loops[callers[c].loop].stage = "ended"
    /\ Launched([loops EXCEPT ![callers[c].loop].released = TRUE])
    /\ callers' = [callers EXCEPT ![c] = NotCalling]
    /\ UNCHANGED <<configMap, loader>>

Stop(c) ==
    /\ callers[c] = NotCalling /\ watcher.started
    /\ Closes(c, "stop")
    /\ UNCHANGED <<configMap, loader>>
(* Mutant: Stop does not wait for the loop.                                 *)
StopReturnsAtOnce(c) ==
    /\ callers[c].op = "stop"
    /\ loops' = [loops EXCEPT ![callers[c].loop].released = TRUE]
    /\ callers' = [callers EXCEPT ![c] = NotCalling]
    /\ UNCHANGED <<configMap, loader, watcher>>
StopReturns(c) ==
    /\ callers[c].op = "stop" /\ loops[callers[c].loop].stage = "ended"
    /\ loops' = [loops EXCEPT ![callers[c].loop].released = TRUE]
    /\ callers' = [callers EXCEPT ![c] = NotCalling]
    /\ UNCHANGED <<configMap, loader, watcher>>

(* The context a caller gave its Watch is cancelled.                        *)
ContextCanceled(l) ==
    /\ loops[l].stage # "ended" /\ ~loops[l].canceled
    /\ loops' = [loops EXCEPT ![l].canceled = TRUE]
    /\ UNCHANGED <<configMap, loader, watcher, callers>>

NoWatcher ==
    /\ watcher = [started |-> FALSE, current |-> 0, panicked |-> FALSE]
    /\ loops = <<>> /\ callers = [c \in WatchCallers |-> NotCalling]
TopologyInit ==
    /\ \E d \in Documents : parseTopology(d) /\ configMap = [document |-> d, version |-> 1]
    /\ loader = Parsed(configMap) /\ NoWatcher
LoopStep(l) ==
    LoopBegins(l) \/ LoopReads(l) \/ Reload(l) \/ LoopReports(l) \/ LoopEnds(l) \/ ContextCanceled(l)
CallerStep(c) == Watch(c) \/ WatchAgain(c) \/ Stop(c) \/ StopReturns(c)
(* A panic ends the process, and with it every loop and every call.         *)
TopologyNext ==
    \/ \E d \in Documents : EditTopology(d)
    \/ ~watcher.panicked /\ \E l \in DOMAIN loops : LoopStep(l)
    \/ ~watcher.panicked /\ \E c \in WatchCallers : CallerStep(c)
TopologySpec == TopologyInit /\ [][TopologyNext]_topologyVars

---------------------------------------------------------------------------
(* Once the call that closed a loop's stop channel has returned, that loop  *)
(* reads, reloads and calls back nothing any more, whatever other callers   *)
(* of the watcher do meanwhile; when this holds of every loop the loader    *)
(* stays as it is.  No loop is left behind that nobody can stop: all but    *)
(* the newest were told to.  The loader always holds exactly one primary    *)
(* (config.go:164-275, 409-470).                                            *)
StoppedIsQuiet ==
    [][/\ \A l \in DOMAIN loops : loops[l].released => loops'[l] = loops[l]
       /\ (\A l \in DOMAIN loops : loops[l].released) => UNCHANGED loader
       /\ \A l \in DOMAIN loops' : l = watcher'.current \/ loops'[l].stop
       /\ Cardinality({i \in DOMAIN loader'.regions : loader'.regions[i].role = "primary"}) = 1]_topologyVars
===============================================================================
