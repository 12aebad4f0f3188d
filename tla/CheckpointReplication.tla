------------------------ MODULE CheckpointReplication ------------------------
(***************************************************************************)
(* How the entries of a region's log reach its peer: the replication       *)
(* runtime and its replicator in the sending API server                    *)
(* (replication/runtime), the channel between the regions                  *)
(* (replication/channel), and the ReplicationService of the receiving API  *)
(* server, with the admissions it keeps in PostgreSQL                      *)
(* (api-server/internal/replication, replication/adapters).                *)
(*                                                                         *)
(* A handler is one PushCheckpoint call at the receiver.  It outlives the  *)
(* sender's wait for it when the connection breaks.  The receiver's        *)
(* authentication mode is configuration: peerAuth never changes.           *)
(***************************************************************************)
EXTENDS ReplicationLog

CONSTANTS
    Handlers,           \* PushCheckpoint calls that run at a time
    Streams,            \* StreamCheckpoints calls of a behaviour
    QueueLimit,         \* events a stream holds
    ReplicatorBatch,    \* ReplicatorConfig.BatchSize
    ResumeFrom,         \* the configured sequence to resume from
    MaxChannelFaults    \* bound: errors of network and database, and restarts

ASSUME ChannelAssumption == ReplicatorBatch \in Nat \ {0} /\ ResumeFrom \in Nat

VARIABLES
    runtime,            \* the sender's Runtime and its channel client
    replicator,         \* Replicator.Run
    progress,           \* acknowledged_sequence of the region pair
    admissions,         \* checkpoint admissions at the receiver
    handlers,           \* handler -> its call, a set of at most one
    streams,            \* stream -> its channel and subscription
    acknowledged,       \* Service.acknowledged of the receiving region
    channelFaults,
    peerAuth            \* AUTH_MODE of the receiver: "disabled" or "oidc"

channelVars == <<runtime, replicator, progress, admissions, handlers, streams, acknowledged, channelFaults>>

Largest(a, b) == IF a < b THEN b ELSE a
Fault == channelFaults < MaxChannelFaults /\ channelFaults' = channelFaults + 1
NoFault == UNCHANGED channelFaults

---------------------------------------------------------------------------
(* The sender's runtime.  Start holds no lock while it dials, and sets the  *)
(* visible state after it has let go of the lock.                           *)

Created == [state |-> "created", started |-> FALSE, closed |-> FALSE, start |-> "none",
            connected |-> FALSE, channel |-> "open"]
Idle == [phase |-> "off", since |-> 0, batch |-> <<>>]

Start ==
    /\ runtime.start = "none" /\ ~runtime.closed /\ ~runtime.started
    /\ runtime' = [runtime EXCEPT !.start = "dialling", !.state = "starting"]
    /\ NoFault /\ UNCHANGED <<replicator, progress, admissions, handlers, streams, acknowledged>>

Dial ==
    /\ runtime.start = "dialling"
    /\ \/ runtime' = [runtime EXCEPT !.start = "connected", !.connected = TRUE] /\ NoFault
       \/ runtime' = [runtime EXCEPT !.start = "refused"] /\ IF runtime.closed THEN NoFault ELSE Fault
    /\ UNCHANGED <<replicator, progress, admissions, handlers, streams, acknowledged>>

Launch ==
    /\ \/ /\ runtime.start = "connected" /\ ~runtime.closed
          /\ \/ /\ runtime' = [runtime EXCEPT !.start = "launched", !.started = TRUE]
                /\ replicator' = [Idle EXCEPT !.phase = "read", !.since = Largest(ResumeFrom, progress)]
                /\ NoFault
             \/ /\ runtime' = [runtime EXCEPT !.start = "failed"] /\ Fault /\ UNCHANGED replicator
       \/ /\ runtime.start = "refused" \/ (runtime.start = "connected" /\ runtime.closed)
          /\ runtime' = [runtime EXCEPT !.start = IF @ = "refused" THEN "failed" ELSE "closed"]
          /\ NoFault /\ UNCHANGED replicator
    /\ UNCHANGED <<progress, admissions, handlers, streams, acknowledged>>

(* The channel client closes once.                                          *)
ChannelClosed(r) == [r EXCEPT !.channel = "closed", !.connected = IF r.channel = "open" THEN FALSE ELSE @]

StartReturns ==
    /\ \/ runtime.start = "launched" /\ runtime' = [runtime EXCEPT !.start = "none", !.state = "running"]
       \/ runtime.start = "failed" /\ runtime' = [runtime EXCEPT !.start = "none", !.state = "failed"]
       \/ runtime.start = "closed"
          /\ runtime' = ChannelClosed([runtime EXCEPT !.start = "none", !.state = "closed"])
    /\ NoFault /\ UNCHANGED <<replicator, progress, admissions, handlers, streams, acknowledged>>

CloseRuntime ==
    /\ ~runtime.closed /\ runtime' = [runtime EXCEPT !.closed = TRUE, !.state = "closed"]
    /\ NoFault /\ UNCHANGED <<replicator, progress, admissions, handlers, streams, acknowledged>>

watchCancellation ==
    /\ runtime.closed /\ runtime.channel = "open" /\ runtime' = ChannelClosed(runtime)
    /\ NoFault /\ UNCHANGED <<replicator, progress, admissions, handlers, streams, acknowledged>>

---------------------------------------------------------------------------
(* Answers.  The replicator sends again after a transient status and ends   *)
(* after any other; its end is the runtime's failure unless it was closed.  *)

retryableSendError(code) ==
    code \in {"UNAVAILABLE", "RESOURCE_EXHAUSTED", "ABORTED", "DEADLINE_EXCEEDED", "UNKNOWN"}
Failing == [runtime EXCEPT !.state = IF runtime.closed THEN @ ELSE "failed"]
Ended(r) == [r EXCEPT !.phase = "ended", !.batch = <<>>]

Call(h) == CHOOSE c \in handlers[h] : TRUE
Leaves(h, code) ==
    /\ handlers' = [handlers EXCEPT ![h] = {}]
    /\ IF Call(h).gone THEN UNCHANGED <<replicator, runtime>>
       ELSE /\ replicator' = IF code = "OK" THEN [replicator EXCEPT !.phase = "acknowledge"]
                             ELSE IF retryableSendError(code) THEN [replicator EXCEPT !.phase = "send"]
                             ELSE Ended(replicator)
            /\ runtime' = IF code = "OK" \/ retryableSendError(code) THEN runtime ELSE Failing

ReadEntries ==
    LET found == {s \in DOMAIN objects : replicator.since < s}
        first == CHOOSE s \in found : \A t \in found : s <= t
        whole == \A s \in found : Decodes(s) /\ (s # first => s - 1 \in found)
        count == IF Cardinality(found) < ReplicatorBatch THEN Cardinality(found) ELSE ReplicatorBatch
    IN  /\ replicator.phase = "read" /\ found # {}
        /\ replicator' = IF whole THEN [replicator EXCEPT !.phase = "send",
                                        !.batch = [i \in 1 .. count |-> objects[first + i - 1]]]
                         ELSE Ended(replicator)
        /\ runtime' = IF whole THEN runtime ELSE Failing
        /\ NoFault /\ UNCHANGED <<progress, admissions, handlers, streams, acknowledged>>

SendEvent ==
    /\ replicator.phase = "send" /\ runtime.connected /\ runtime.channel = "open"
    /\ \E h \in Handlers :
          /\ handlers[h] = {}
          /\ handlers' = [handlers EXCEPT ![h] = {[entry |-> Head(replicator.batch), phase |-> "claim",
                                                   todo |-> {}, gone |-> FALSE]}]
    /\ replicator' = [replicator EXCEPT !.phase = "wait"]
    /\ NoFault /\ UNCHANGED <<runtime, progress, admissions, streams, acknowledged>>

(* The sender no longer waits; the receiver's context is done.              *)
Abandoned(h) == [handlers EXCEPT ![h] = {[c EXCEPT !.gone = TRUE] : c \in handlers[h]}]
ConnectionLost ==
    /\ replicator.phase = "wait" /\ replicator' = [replicator EXCEPT !.phase = "send"]
    /\ \E h \in Handlers : handlers[h] # {} /\ ~Call(h).gone /\ handlers' = Abandoned(h)
    /\ Fault /\ UNCHANGED <<runtime, progress, admissions, streams, acknowledged>>

SaveReplicationProgress ==
    /\ replicator.phase = "acknowledge"
    /\ LET saved == Head(replicator.batch).sequence
           rest == Tail(replicator.batch)
       IN  \/ /\ progress' = Largest(progress, saved)
              /\ replicator' = [phase |-> IF rest = <<>> THEN "read" ELSE "send", since |-> saved, batch |-> rest]
              /\ NoFault /\ UNCHANGED runtime
           \/ /\ Fault /\ replicator' = Ended(replicator) /\ runtime' = Failing /\ UNCHANGED progress
    /\ UNCHANGED <<admissions, handlers, streams, acknowledged>>

Canceled ==
    /\ runtime.closed /\ replicator.phase \notin {"off", "ended"} /\ replicator' = Ended(replicator)
    /\ handlers' = [h \in Handlers |-> {[c EXCEPT !.gone = TRUE] : c \in handlers[h]}]
    /\ NoFault /\ UNCHANGED <<runtime, progress, admissions, streams, acknowledged>>

SenderRestarts ==
    /\ Fault /\ runtime' = Created /\ replicator' = Idle
    /\ handlers' = [h \in Handlers |-> {[c EXCEPT !.gone = TRUE] : c \in handlers[h]}]
    /\ UNCHANGED <<progress, admissions, streams, acknowledged>>

---------------------------------------------------------------------------
(* Admissions.                                                              *)

Admitted(entry) == {a \in admissions : a.entry.job = entry.job /\ a.entry.sequence = entry.sequence}
Committed(entry) == \E a \in Admitted(entry) : a.committed

(* Mutant: the release deletes a committed admission as well.               *)
ReleasedAnyway(left, entry) == left \ {a \in left : a.entry = entry}
(* ReleaseCheckpoint leaves a committed admission alone; its error is       *)
(* ignored.                                                                 *)
ReleasedWith(left, entry) == left \ {a \in left : a.entry = entry /\ ~a.committed}
Released(entry) ==
    \/ admissions' = ReleasedWith(admissions, entry) /\ NoFault
    \/ Fault /\ UNCHANGED admissions

Moved(h, call) == handlers' = [handlers EXCEPT ![h] = {call}]
Open == {s \in Streams : streams[s].state = "open"}

(* In front of the service: with OIDC the call needs a bearer token, and    *)
(* the peer's channel sends none.                                           *)
Unary(h) ==
    /\ handlers[h] # {} /\ Call(h).phase = "claim" /\ peerAuth = "oidc"
    /\ Leaves(h, "UNAUTHENTICATED")
    /\ NoFault /\ UNCHANGED <<admissions, progress, streams, acknowledged>>

(* The insert and the read that explains its conflict are two statements.   *)
(* An insert that fails may have been applied: its admission stays, in      *)
(* progress for ever.                                                       *)
ClaimedWith(entry) == admissions \union {[entry |-> entry, committed |-> FALSE]}
ClaimCheckpoint(h) ==
    /\ handlers[h] # {} /\ Call(h).phase = "claim" /\ peerAuth = "disabled"
    /\ \/ /\ Admitted(Call(h).entry) = {} /\ ~Call(h).gone
          /\ admissions' = ClaimedWith(Call(h).entry)
          /\ Moved(h, [Call(h) EXCEPT !.phase = "deliver", !.todo = Open])
          /\ NoFault /\ UNCHANGED <<replicator, runtime>>
       \/ /\ Admitted(Call(h).entry) # {} /\ ~Call(h).gone
          /\ Moved(h, [Call(h) EXCEPT !.phase = "explain"])
          /\ NoFault /\ UNCHANGED <<admissions, replicator, runtime>>
       \/ /\ IF Call(h).gone THEN NoFault ELSE Fault
          /\ \/ UNCHANGED admissions
             \/ Admitted(Call(h).entry) = {} /\ admissions' = ClaimedWith(Call(h).entry)
          /\ Leaves(h, "INTERNAL")
    /\ UNCHANGED <<progress, streams, acknowledged>>

(* Mutants: an admission in progress is taken for a committed one, and a    *)
(* committed one for one in progress.                                       *)
ExplainedAs(h, code) ==
    /\ handlers[h] # {} /\ Call(h).phase = "explain" /\ Leaves(h, code)
    /\ NoFault /\ UNCHANGED <<admissions, progress, streams, acknowledged>>
ExplainedAsDone(h) == ExplainedAs(h, "OK")
ExplainedAsBusy(h) == ExplainedAs(h, "RESOURCE_EXHAUSTED")
Explain(h) ==
    /\ handlers[h] # {} /\ Call(h).phase = "explain"
    /\ LET found == Admitted(Call(h).entry)
       IN  Leaves(h, IF found = {} THEN "INTERNAL"
                     ELSE IF \E a \in found : a.entry # Call(h).entry THEN "ALREADY_EXISTS"
                     ELSE IF Committed(Call(h).entry) THEN "OK" ELSE "RESOURCE_EXHAUSTED")
    /\ NoFault /\ UNCHANGED <<admissions, progress, streams, acknowledged>>

(* A stream that has gone lets every event through its filter; its channel  *)
(* is closed, and sending to it ends the process.                           *)
Wanted(s, entry) ==
    \/ streams[s].state = "closed"
    \/ (streams[s].job = {} \/ entry.job \in streams[s].job) /\ streams[s].from < entry.sequence
ReceiverGone ==
    /\ handlers' = [h \in Handlers |-> {}]
    /\ streams' = [s \in Streams |-> IF streams[s].state = "open" THEN [streams[s] EXCEPT !.state = "closed", !.queue = <<>>]
                                     ELSE streams[s]]
    /\ acknowledged' = 0
    /\ replicator' = IF replicator.phase = "wait" THEN [replicator EXCEPT !.phase = "send"] ELSE replicator
    /\ UNCHANGED <<admissions, progress, runtime>>

Deliver(h, s) ==
    /\ handlers[h] # {} /\ Call(h).phase = "deliver" /\ s \in Call(h).todo
    /\ LET entry == Call(h).entry
           next == [Call(h) EXCEPT !.todo = @ \ {s}]
       IN  \/ /\ ~Wanted(s, entry) /\ Moved(h, next)
              /\ NoFault /\ UNCHANGED <<admissions, streams, replicator, runtime, progress, acknowledged>>
           \/ /\ Wanted(s, entry) /\ streams[s].state = "open" /\ Len(streams[s].queue) < QueueLimit
              /\ streams' = [streams EXCEPT ![s].queue = Append(@, entry)] /\ Moved(h, next)
              /\ NoFault /\ UNCHANGED <<admissions, replicator, runtime, progress, acknowledged>>
           \/ /\ Wanted(s, entry) /\ streams[s].state = "open"
              /\ Call(h).gone \/ Len(streams[s].queue) = QueueLimit
              /\ Released(entry) /\ Leaves(h, IF Call(h).gone THEN "CANCELED" ELSE "RESOURCE_EXHAUSTED")
              /\ UNCHANGED <<streams, progress, acknowledged>>
           \/ Wanted(s, entry) /\ streams[s].state = "closed" /\ ReceiverGone /\ NoFault

Acknowledge(h) ==
    /\ handlers[h] # {} /\ Call(h).phase = "deliver" /\ Call(h).todo = {}
    /\ acknowledged' = Largest(acknowledged, Call(h).entry.sequence)
    /\ Moved(h, [Call(h) EXCEPT !.phase = "commit"])
    /\ NoFault /\ UNCHANGED <<runtime, replicator, progress, admissions, streams>>

CommittedWith(entry) == {[a EXCEPT !.committed = @ \/ a.entry = entry] : a \in admissions}
CommitCheckpoint(h) ==
    /\ handlers[h] # {} /\ Call(h).phase = "commit"
    /\ LET entry == Call(h).entry
       IN  \/ admissions' = CommittedWith(entry) /\ Leaves(h, "OK") /\ NoFault
           \/ /\ admissions' \in {admissions, CommittedWith(entry)}
              /\ Moved(h, [Call(h) EXCEPT !.phase = "release"])
              /\ (IF Call(h).gone THEN NoFault ELSE Fault) /\ UNCHANGED <<replicator, runtime>>
    /\ UNCHANGED <<progress, streams, acknowledged>>
ReleaseCheckpoint(h) ==
    /\ handlers[h] # {} /\ Call(h).phase = "release"
    /\ Released(Call(h).entry) /\ Leaves(h, "INTERNAL") /\ UNCHANGED <<progress, streams, acknowledged>>

---------------------------------------------------------------------------
(* The receiver's streams and its restart.                                  *)

StreamCheckpoints(s, job, from) ==
    /\ streams[s].state = "new"
    /\ streams' = [streams EXCEPT ![s] = [state |-> "open", job |-> job, from |-> from, queue |-> <<>>]]
    /\ NoFault /\ UNCHANGED <<runtime, replicator, progress, admissions, handlers, acknowledged>>

StreamSend(s) ==
    /\ streams[s].state = "open" /\ streams[s].queue # <<>>
    /\ streams' = [streams EXCEPT ![s].queue = Tail(@)]
    /\ NoFault /\ UNCHANGED <<runtime, replicator, progress, admissions, handlers, acknowledged>>

StreamEnds(s) ==
    /\ streams[s].state = "open"
    /\ streams' = [streams EXCEPT ![s].state = "closed", ![s].queue = <<>>]
    /\ NoFault /\ UNCHANGED <<runtime, replicator, progress, admissions, handlers, acknowledged>>

ReportReplicationStatus(number) ==
    /\ acknowledged' = Largest(acknowledged, number)
    /\ NoFault /\ UNCHANGED <<runtime, replicator, progress, admissions, handlers, streams>>

ReceiverRestarts == Fault /\ ReceiverGone

---------------------------------------------------------------------------
ChannelInit ==
    /\ runtime = Created /\ replicator = Idle /\ progress = 0 /\ admissions = {} /\ acknowledged = 0
    /\ handlers = [h \in Handlers |-> {}] /\ channelFaults \in 0 .. MaxChannelFaults
    /\ peerAuth \in {"disabled", "oidc"}
    /\ streams = [s \in Streams |-> [state |-> "new", job |-> {}, from |-> 0, queue |-> <<>>]]

RuntimeStep ==
    \/ Start \/ Dial \/ Launch \/ StartReturns \/ watchCancellation
    \/ ReadEntries \/ SendEvent \/ SaveReplicationProgress \/ Canceled
HandlerStep(h) ==
    \/ Unary(h) \/ ClaimCheckpoint(h) \/ Explain(h) \/ Acknowledge(h) \/ CommitCheckpoint(h) \/ ReleaseCheckpoint(h)
    \/ \E s \in Streams : Deliver(h, s)

(* The channel, and the channel beside the log it reads.                    *)
ChannelNext ==
    \/ RuntimeStep \/ CloseRuntime \/ ConnectionLost \/ ReceiverRestarts \/ SenderRestarts
    \/ \E h \in Handlers : HandlerStep(h)
    \/ \E s \in Streams : \/ \E job \in {{}} \union {{j} : j \in Jobs}, from \in Int : StreamCheckpoints(s, job, from)
                          \/ StreamSend(s) \/ StreamEnds(s)
    \/ \E number \in Int : ReportReplicationStatus(number)
ReplicationNext ==
    ((LogNext /\ UNCHANGED channelVars) \/ (ChannelNext /\ UNCHANGED logVars)) /\ UNCHANGED peerAuth
ReplicationSpec == LogInit /\ ChannelInit /\ [][ReplicationNext]_<<logVars, channelVars, peerAuth>>

---------------------------------------------------------------------------
(* What the replicator has recorded as acknowledged, the receiver has       *)
(* admitted for good: no entry is skipped, whatever is lost, repeated or    *)
(* restarted (replicator.go:91-104, service.go:223-279).                    *)
AcknowledgedIsAdmitted == \A s \in ResumeFrom + 1 .. progress : s \in DOMAIN objects /\ Committed(objects[s])

(* No entry is skipped (see AcknowledgedIsAdmitted) and none repeated: an   *)
(* entry whose admission was once committed is not delivered again.  A      *)
(* retry of it is answered from the record, and a commit whose answer was   *)
(* lost is not undone by the release after it (admission.go:22-81).         *)
AdmittedOnce ==
    []AcknowledgedIsAdmitted /\
    [][/\ \A a \in admissions : a.committed => a \in admissions'
       /\ \A s \in Streams : streams[s].state = "open" /\ Len(streams[s].queue) < Len(streams'[s].queue)
             => ~Committed(streams'[s].queue[Len(streams'[s].queue)])]_channelVars

(* An admission that is not committed and that no handler works on.         *)
Orphaned ==
    \E a \in admissions : ~a.committed /\ \A h \in Handlers : handlers[h] = {} \/ Call(h).entry # a.entry

(* While the replicator runs, every entry of the log is acknowledged in the *)
(* end, unless an admission was left behind in progress: by a receiver that *)
(* stopped between claiming and committing, by an insert whose answer was   *)
(* lost, or by a release that failed.  The replicator ends, and the         *)
(* property asks nothing more, after an answer it does not retry; a peer    *)
(* that authenticates with OIDC gives it one at once                        *)
(* (replicator.go:64-147, admission.go:22-81, service.go:223-279).          *)
EntriesAreReplicated ==
    \A s \in 1 .. MaxSequence : s \in DOMAIN objects ~> s <= progress \/ replicator.phase = "ended" \/ Orphaned

(* A runtime that reports itself running has a replicator that runs.        *)
ReadyMeansReplicating == runtime.state = "running" => replicator.phase \notin {"off", "ended"}
===============================================================================
