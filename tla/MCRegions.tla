------------------------------- MODULE MCRegions -------------------------------
(***************************************************************************)
(* Two regions: the log of the one, its replication to the other, the      *)
(* promotion of the other, and the topology both read.  A behaviour has a  *)
(* focus, the part that moves; the rest keeps its initial state.           *)
(***************************************************************************)
EXTENDS CheckpointReplication, RegionPromotion

CONSTANTS j1, j2

VARIABLE focus

---------------------------------------------------------------------------
(* A log with two entries, as two published checkpoints leave it, and one   *)
(* whose second object was damaged.                                         *)
Written(job, epoch, uri, number) == [job |-> job, epoch |-> epoch, uri |-> uri, sequence |-> number]
TwoEntries == <<Written(j1, 0, 1, 1), Written(j1, 0, 2, 2)>>

(* Logs the target may hold, and what its manifests say.                    *)
StandbyLogs == {<<>>, <<Written(j1, 0, 1, 1)>>, <<Written(j1, 0, 1, 1), Written(j2, 0, 2, 2)>>, <<Written(j1, 2, 1, 1)>>}
Manifest(log, u, files) ==
    LET named == {i \in DOMAIN log : log[i].uri = u}
        entry == IF named = {} THEN Written(j1, 0, u, 1) ELSE log[CHOOSE i \in named : TRUE]
    IN  [job |-> entry.job, epoch |-> entry.epoch, sequence |-> entry.sequence, files |-> files]
Revalidators ==
    {[configured |-> TRUE, reachable |-> TRUE, required |-> {1}], [configured |-> TRUE, reachable |-> TRUE, required |-> {}],
     [configured |-> TRUE, reachable |-> FALSE, required |-> {}], [configured |-> FALSE, reachable |-> TRUE, required |-> {}]}

Area(name, role) == [name |-> name, role |-> role, filled |-> TRUE]
TopologyDocuments ==
    {[regions |-> <<Area("east", "primary"), Area("west", "standby")>>, threshold |-> 0],
     [regions |-> <<Area("east", "standby"), Area("west", "primary")>>, threshold |-> 9],
     [regions |-> <<Area("east", "primary"), Area("west", "primary")>>, threshold |-> 0],
     [regions |-> <<Area("east", "primary"), Area("east", "standby")>>, threshold |-> 0],
     [regions |-> <<Area("east", "primary"), [Area("west", "standby") EXCEPT !.filled = FALSE]>>, threshold |-> 0],
     [regions |-> <<>>, threshold |-> 0],
     [regions |-> <<Area("east", "primary")>>, threshold |-> 0 - 1]}
EastFirst == [regions |-> <<Area("east", "primary"), Area("west", "standby")>>, threshold |-> 0]

---------------------------------------------------------------------------
allVars == <<focus, channelVars, promotionVars, topologyVars, logVars, epochs, peerAuth>>

Init ==
    /\ focus \in {"log", "push", "runtime", "promote", "topology"}
    /\ epochs = [j \in Jobs |-> 0]
    /\ IF focus = "push" \/ focus = "runtime"
       THEN /\ publishing = {} /\ objects = TwoEntries /\ sequence = 2 /\ pending = <<>> /\ writer = "open"
            /\ flusher = TRUE /\ lastRead = 0 /\ published = {TwoEntries[1], TwoEntries[2]}
            /\ damaged \in IF focus = "push" THEN {{}} ELSE {{}, {2}}
       ELSE LogInit
    /\ ChannelInit /\ channelFaults = (IF focus = "push" THEN 0 ELSE 1) /\ PromotionInit
    /\ focus \in {"log", "promote", "topology"} => peerAuth = "disabled"
    /\ IF focus = "topology" THEN TopologyInit
       ELSE /\ configMap = [document |-> EastFirst, version |-> 1] /\ loader = Parsed(configMap) /\ NoWatcher
    /\ IF focus = "promote"
       THEN /\ \/ revalidator \in Revalidators /\ standbyLog = <<Written(j1, 0, 1, 1)>>
               \/ revalidator = [configured |-> TRUE, reachable |-> TRUE, required |-> {1}] /\ standbyLog \in StandbyLogs
            /\ \E files \in {"whole", "damaged"} :
                  /\ files = "whole" \/ (standbyLog = <<Written(j1, 0, 1, 1)>> /\ revalidator.required = {1})
                  /\ manifests = [u \in Uris |-> Manifest(standbyLog, u, files)]
       ELSE /\ revalidator = [configured |-> FALSE, reachable |-> FALSE, required |-> {}] /\ standbyLog = <<>>
            /\ manifests = [u \in Uris |-> Manifest(<<>>, u, "whole")]

(* The Job's epoch moves as a promotion's Assign moves it.                  *)
EpochMoves(j) == epochs[j] = 0 /\ epochs' = [epochs EXCEPT ![j] = 1] /\ UNCHANGED logVars

LogFocus == focus = "log" /\ UNCHANGED <<focus, channelVars, promotionVars, topologyVars, peerAuth>>
LogStep ==
    /\ LogFocus
    /\ \/ EpochMoves(j1)
       \/ /\ \/ \E u \in Uris, e \in 0 .. 1 :
                   LET record == [job |-> j1, epoch |-> e, uri |-> u]
                   IN  (publishing = {} /\ Publish(record)) \/ AppendDurable(record) \/ AppendRefused(record)
             \/ AppendLater([job |-> j2, epoch |-> 0, uri |-> 1])
             \/ Flush \/ Close \/ Closed \/ NewWriter \/ ReadNext \/ ReadBatch(2)
             \/ \E s \in DOMAIN objects : damaged = {} /\ Damage(s)
          /\ UNCHANGED epochs

ChannelFocus ==
    /\ (focus = "push" \/ focus = "runtime")
    /\ UNCHANGED <<focus, promotionVars, topologyVars, logVars, epochs, peerAuth>>
ChannelStep ==
    /\ ChannelFocus
    /\ \/ RuntimeStep \/ \E h \in Handlers : HandlerStep(h)
       \/ focus = "push" /\ (ConnectionLost \/ ReceiverRestarts \/ SenderRestarts)
       \/ focus = "runtime" /\ CloseRuntime
       \/ \E s \in Streams : \/ focus = "push" /\ Open = {} /\ StreamCheckpoints(s, {j1}, 0)
                             \/ focus = "runtime" /\ (StreamCheckpoints(s, {}, 0) \/ StreamCheckpoints(s, {j1}, 1))
                             \/ StreamSend(s) \/ StreamEnds(s)
       \/ focus = "runtime" /\ \E n \in 0 .. 1 : ReportReplicationStatus(n)

PromotionFocus == focus = "promote" /\ UNCHANGED <<focus, channelVars, topologyVars, logVars, peerAuth>>
(* Promotions of j1; of the managers and keys the first call has the first. *)
PromotionsStep ==
    /\ PromotionFocus /\ PromotionNext(0 .. 1)
    /\ \A c \in calls' : c.job = j1 /\ (c.number = 1 => c.manager = 1 /\ c.key = 1)

TopologyStep ==
    /\ focus = "topology" /\ UNCHANGED <<focus, channelVars, promotionVars, logVars, epochs, peerAuth>>
    /\ TopologyNext

Next == LogStep \/ ChannelStep \/ PromotionsStep \/ TopologyStep

(* Each goroutine and each handler goes on; subscribers take their events.  *)
Fairness ==
    /\ WF_allVars(ChannelFocus /\ RuntimeStep)
    /\ \A h \in Handlers : WF_allVars(ChannelFocus /\ HandlerStep(h))
    /\ \A s \in Streams : WF_allVars(ChannelFocus /\ StreamSend(s))
    /\ \A n \in 1 .. MaxCalls : WF_allVars(PromotionFocus /\ \E c \in calls : c.number = n /\ PromotionStep(c))
Spec == Init /\ [][Next]_allVars /\ Fairness

---------------------------------------------------------------------------
(* As CheckpointReplication!EntriesAreReplicated, where replication moves.  *)
ReplicationGoesOn == focus = "push" => EntriesAreReplicated
===============================================================================
