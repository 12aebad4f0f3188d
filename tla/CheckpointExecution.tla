-------------------------- MODULE CheckpointExecution --------------------------
(***************************************************************************)
(* Checkpointed execution of one batch job: any number of Coordinator      *)
(* processes (retries of an epoch, executions of later epochs, stale ones  *)
(* that are still alive), the Workers they talk to over sockets, the       *)
(* durable checkpoint store and the JDBC sink.                             *)
(*                                                                         *)
(* A task <<c, s>> is the execution of split s on behalf of Coordinator c: *)
(* a Coordinator runs every split at most once, in order.  Rows of a split *)
(* are 1..RowCount[s] in resume-column order; a position is the last row   *)
(* it covers.                                                              *)
(***************************************************************************)
EXTENDS CheckpointStore, FiniteSets

CONSTANTS
    Coordinators,   \* Coordinator processes; a restarted pod is another one
    Workers,        \* Worker servers
    RequestedEpoch, \* by Coordinator: the explicit execution epoch, or 0
    WorkerFor,      \* by task: workers.get(index % workers.size())
    TaskSlots,      \* threads plus queue of a Worker's task executor
    RowCount,       \* by split: number of source rows
    BatchSizes,     \* batch limits a task may use: one if fixed, several if the
                    \* batch controller adapts it or the job spec was replaced
    Renderings,     \* texts Row.toString may give the same rows: one when every
                    \* column prints by value, several with a byte[] column
    ExactlyOnce,    \* delivery guarantee: exactly-once, or at-least-once
    MaxCrashes      \* bound on Worker crashes

ASSUME ExecutionAssumption ==
    /\ RequestedEpoch \in [Coordinators -> Nat]
    /\ WorkerFor \in [Coordinators -> [Splits -> Workers]]
    /\ RowCount \in [Splits -> Nat]
    /\ BatchSizes \subseteq Nat \ {0}
    /\ Renderings # {}
    /\ ExactlyOnce \in BOOLEAN
    /\ TaskSlots \in Nat
    /\ MaxCrashes \in Nat

VARIABLES
    cpc,        \* by Coordinator: where CheckpointBatchCoordinator.run stands
    coord,      \* by Coordinator: its locals
    tpc,        \* by task: where its handler and task thread stand
    task,       \* by task: the task thread's locals
    link,       \* by task: the one message in flight on its socket
    fence,      \* by Worker: EpochFence, the active epoch it knows of
    crashes,    \* Worker crashes so far
    inserted,   \* by split: the rows committed in the sink table
    repeated,   \* by split: the rows committed more than once
    markers     \* the sink's commit-token table

sink == <<inserted, repeated, markers>>
vars == <<store, cpc, coord, tpc, task, link, fence, crashes, sink>>

-------------------------------------------------------------------------------
(* Program locations.                                                       *)

CoordinatorRunning == {"start", "completion", "load", "send", "await", "finish"}

(* A task is in WorkerServer.activeTasks from its registration until its    *)
(* handler has answered and left.                                           *)
TaskWorking == {"open", "read", "lookup", "insert", "commit", "written", "await", "close"}
TaskRegistered == TaskWorking \cup {"ended"}
TaskOnWorker == TaskRegistered \cup {"accept", "register"}

Messages == {"none", "request", "progress", "ack", "result", "error", "closed"}

-------------------------------------------------------------------------------
(* What a task writes.  The digest is of batch.toString(), which shows the  *)
(* rows and whether the batch ends the input.                               *)

Digest(first, last, end, shown) == <<first, last, end, shown>>

(* Mistake: the epoch made part of the token.                               *)
CommitTokenOfEpoch(c, s, seq, digest) ==
    IF ExactlyOnce THEN <<s, seq, digest, coord[c].epoch>>
    ELSE <<coord[c].epoch, s, seq - task[c][s].base>>

(* CommitTokens.forBatch names the batch; without it the JDBC sink counts   *)
(* the commits of its own connection.                                       *)
CommitToken(c, s, seq, digest) ==
    IF ExactlyOnce THEN <<s, seq, digest>>
    ELSE <<coord[c].epoch, s, seq - task[c][s].base>>

BatchDigest(c, s) ==
    Digest(task[c][s].pos + 1, task[c][s].pos + task[c][s].size,
           task[c][s].end, task[c][s].shown)

(* The token of the batch that was read and is not counted yet.             *)
NextToken(c, s) == CommitToken(c, s, task[c][s].seq + 1, BatchDigest(c, s))

BatchRows(c, s) == (task[c][s].pos + 1)..(task[c][s].pos + task[c][s].size)

assertCurrent(c, s) == fence[WorkerFor[c][s]] = coord[c].epoch

(* A response on a socket whose peer is gone is lost; one that follows a    *)
(* report still under way finds the socket broken.                          *)
Respond(c, s, message) ==
    link' = [link EXCEPT ![c][s] = IF @ \in {"closed", "progress"} THEN @ ELSE message]

(* The task thread throws: sources and sinks are closed, which rolls an     *)
(* open sink transaction back, and the handler answers with an error.       *)
Throw(c, s) ==
    /\ tpc' = [tpc EXCEPT ![c][s] = "ended"]
    /\ Respond(c, s, "error")
    /\ UNCHANGED task

(* The handler answers with an error before the task is registered.         *)
Reject(c, s) ==
    /\ tpc' = [tpc EXCEPT ![c][s] = "gone"]
    /\ Respond(c, s, "error")
    /\ UNCHANGED task

NoTask == [seq |-> 0, pos |-> 0, base |-> 0, size |-> 0, end |-> FALSE,
           shown |-> CHOOSE shown \in Renderings : TRUE]

-------------------------------------------------------------------------------
Init ==
    /\ StoreInit
    /\ cpc = [c \in Coordinators |-> "start"]
    /\ coord = [c \in Coordinators |-> [epoch |-> 0, split |-> 1, seq |-> 0, pos |-> 0]]
    /\ tpc = [c \in Coordinators |-> [s \in Splits |-> "idle"]]
    /\ task = [c \in Coordinators |-> [s \in Splits |-> NoTask]]
    /\ link = [c \in Coordinators |-> [s \in Splits |-> "none"]]
    /\ fence = [w \in Workers |-> 0]
    /\ crashes = 0
    /\ inserted = [s \in Splits |-> {}]
    /\ repeated = [s \in Splits |-> {}]
    /\ markers = {}

-------------------------------------------------------------------------------
(* Coordinator: CheckpointBatchCoordinator.run and CheckpointWorkerClient.  *)

Goto(c, pc) == cpc' = [cpc EXCEPT ![c] = pc]

AcquireEpoch(c) ==
    /\ cpc[c] = "start"
    /\ acquireEpoch(RequestedEpoch[c])
    /\ coord' = [coord EXCEPT ![c].epoch = GrantedEpoch(RequestedEpoch[c])]
    /\ Goto(c, "completion")
    /\ UNCHANGED <<tpc, task, link, fence, crashes, sink>>

AcquireFails(c) ==
    /\ cpc[c] = "start"
    /\ ~AcquireAccepted(RequestedEpoch[c])
    /\ Goto(c, "failed")
    /\ UNCHANGED <<store, coord, tpc, task, link, fence, crashes, sink>>

(* loadCompletion: a completed split is skipped.                            *)
LoadCompletion(c) ==
    /\ cpc[c] = "completion"
    /\ coord[c].split \in Splits
    /\ IF completedSplits[coord[c].split] = NoCompletion
       THEN Goto(c, "load") /\ UNCHANGED coord
       ELSE coord' = [coord EXCEPT ![c].split = @ + 1] /\ UNCHANGED cpc
    /\ UNCHANGED <<store, tpc, task, link, fence, crashes, sink>>

RunReturns(c) ==
    /\ cpc[c] = "completion"
    /\ coord[c].split \notin Splits
    /\ Goto(c, "done")
    /\ UNCHANGED <<store, coord, tpc, task, link, fence, crashes, sink>>

(* load: the context carries the durable sequence and position.             *)
Load(c) ==
    /\ cpc[c] = "load"
    /\ LET r == records[coord[c].split] IN
           coord' = [coord EXCEPT ![c].seq = r.seq, ![c].pos = r.pos]
    /\ Goto(c, "send")
    /\ UNCHANGED <<store, tpc, task, link, fence, crashes, sink>>

SendRequest(c) ==
    LET s == coord[c].split IN
    /\ cpc[c] = "send"
    /\ Goto(c, "await")
    /\ tpc' = [tpc EXCEPT ![c][s] = "accept"]
    /\ task' = [task EXCEPT ![c][s] = [NoTask EXCEPT !.seq = coord[c].seq,
                                                     !.pos = coord[c].pos,
                                                     !.base = coord[c].seq]]
    /\ link' = [link EXCEPT ![c][s] = "request"]
    /\ UNCHANGED <<store, coord, fence, crashes, sink>>

Progress(c, s) ==
    LET t == task[c][s]
        d == Digest(t.pos - t.size + 1, t.pos, t.end, t.shown)
    IN [epoch |-> coord[c].epoch, seq |-> t.seq, pos |-> t.pos,
        token |-> CommitToken(c, s, t.seq, d), digest |-> d]

(* Mistake: the durable sequence is not carried over to the completion.     *)
RecordProgressForgets(c) ==
    LET s == coord[c].split IN
    /\ cpc[c] = "await"
    /\ link[c][s] = "progress"
    /\ record(s, Progress(c, s))
    /\ link' = [link EXCEPT ![c][s] = "ack"]
    /\ UNCHANGED <<cpc, coord, tpc, task, fence, crashes, sink>>

(* The listener makes the progress durable, then the client acknowledges.   *)
RecordProgress(c) ==
    LET s == coord[c].split IN
    /\ cpc[c] = "await"
    /\ link[c][s] = "progress"
    /\ record(s, Progress(c, s))
    /\ coord' = [coord EXCEPT ![c].seq = task[c][s].seq, ![c].pos = task[c][s].pos]
    /\ link' = [link EXCEPT ![c][s] = "ack"]
    /\ UNCHANGED <<cpc, tpc, task, fence, crashes, sink>>

(* Mistake: the end of the stream is not noticed.                           *)
ProgressFailsWithoutEnd(c) ==
    LET s == coord[c].split IN
    /\ cpc[c] = "await"
    /\ \/ link[c][s] = "progress" /\ ~RecordAccepted(s, Progress(c, s))
       \/ link[c][s] = "error"
    /\ Goto(c, "failed")
    /\ link' = [link EXCEPT ![c][s] = "closed"]
    /\ UNCHANGED <<store, coord, tpc, task, fence, crashes, sink>>

(* A rejected checkpoint, an error response and the end of the stream of a  *)
(* Worker that is gone all end the run; leaving the try block closes the    *)
(* socket.                                                                  *)
ProgressFails(c) ==
    LET s == coord[c].split IN
    /\ cpc[c] = "await"
    /\ \/ link[c][s] = "progress" /\ ~RecordAccepted(s, Progress(c, s))
       \/ link[c][s] = "error"
       \/ tpc[c][s] = "gone" /\ link[c][s] \notin {"progress", "result"}
    /\ Goto(c, "failed")
    /\ link' = [link EXCEPT ![c][s] = "closed"]
    /\ UNCHANGED <<store, coord, tpc, task, fence, crashes, sink>>

ReceiveResult(c) ==
    /\ cpc[c] = "await"
    /\ link[c][coord[c].split] = "result"
    /\ Goto(c, "finish")
    /\ link' = [link EXCEPT ![c][coord[c].split] = "closed"]
    /\ UNCHANGED <<store, coord, tpc, task, fence, crashes, sink>>

SplitCompletion(c) == [epoch |-> coord[c].epoch, seq |-> coord[c].seq, by |-> {c}]

RecordCompletion(c) ==
    /\ cpc[c] = "finish"
    /\ recordCompletion(coord[c].split, SplitCompletion(c))
    /\ Goto(c, "completion")
    /\ coord' = [coord EXCEPT ![c].split = @ + 1]
    /\ UNCHANGED <<tpc, task, link, fence, crashes, sink>>

(* Mistake: a refused completion is logged and the run goes on.             *)
CompletionFailureIgnored(c) ==
    /\ cpc[c] = "finish"
    /\ ~CompletionAccepted(coord[c].split, SplitCompletion(c))
    /\ Goto(c, "completion")
    /\ coord' = [coord EXCEPT ![c].split = @ + 1]
    /\ UNCHANGED <<store, tpc, task, link, fence, crashes, sink>>

CompletionFails(c) ==
    /\ cpc[c] = "finish"
    /\ ~CompletionAccepted(coord[c].split, SplitCompletion(c))
    /\ Goto(c, "failed")
    /\ UNCHANGED <<store, coord, tpc, task, link, fence, crashes, sink>>

(* The process dies, its socket read times out or the store cannot be       *)
(* reached, at any point.                                                   *)
CoordinatorCrash(c) ==
    /\ cpc[c] \in CoordinatorRunning
    /\ Goto(c, "failed")
    /\ link' = [link EXCEPT ![c] = [s \in Splits |-> "closed"]]
    /\ UNCHANGED <<store, coord, tpc, task, fence, crashes, sink>>

-------------------------------------------------------------------------------
(* Worker: WorkerServer's handler and InProcessBatchWorker's task thread.   *)

WorkerUnchanged == UNCHANGED <<store, cpc, coord, crashes>>

(* EpochFence.activate rejects an epoch below the one it knows.             *)
ActivateFence(c, s) ==
    /\ tpc[c][s] = "accept"
    /\ IF coord[c].epoch < fence[WorkerFor[c][s]]
       THEN Reject(c, s) /\ UNCHANGED fence
       ELSE /\ fence' = [fence EXCEPT ![WorkerFor[c][s]] = coord[c].epoch]
            /\ tpc' = [tpc EXCEPT ![c][s] = "register"]
            /\ Respond(c, s, "none")
            /\ UNCHANGED task
    /\ WorkerUnchanged /\ UNCHANGED sink

(* activeTasks.putIfAbsent on the split id, then a slot of the executor: a  *)
(* task that has ended may or may not have given its slot back.             *)
RegisterTask(c, s) ==
    LET on(pcs) == {t \in Coordinators \X Splits :
                        /\ WorkerFor[t[1]][t[2]] = WorkerFor[c][s]
                        /\ tpc[t[1]][t[2]] \in pcs}
        duplicate == \E t \in on(TaskRegistered) : t[2] = s
    IN
    /\ tpc[c][s] = "register"
    /\ \/ /\ duplicate \/ Cardinality(on(TaskRegistered)) >= TaskSlots
          /\ Reject(c, s)
       \/ /\ ~duplicate /\ Cardinality(on(TaskWorking)) < TaskSlots
          /\ tpc' = [tpc EXCEPT ![c][s] = "open"]
          /\ UNCHANGED <<task, link>>
    /\ WorkerUnchanged /\ UNCHANGED <<fence, sink>>

(* A step of the task thread that first asserts its epoch on the fence.     *)
Asserting(c, s, next) ==
    IF assertCurrent(c, s)
    THEN tpc' = [tpc EXCEPT ![c][s] = next] /\ UNCHANGED <<task, link>>
    ELSE Throw(c, s)

OpenTask(c, s) ==
    /\ tpc[c][s] = "open"
    /\ Asserting(c, s, "read")
    /\ WorkerUnchanged /\ UNCHANGED <<fence, sink>>

(* readBatch returns the last batch only when it runs out of rows before    *)
(* its limit; an empty batch is not written.                                *)
TakeBatch(c, s, limit, shown) ==
    LET left == RowCount[s] - task[c][s].pos
        size == IF limit <= left THEN limit ELSE left
    IN IF size > 0 /\ ~assertCurrent(c, s)
       THEN Throw(c, s)
       ELSE /\ task' = [task EXCEPT ![c][s] = [@ EXCEPT !.size = size,
                                                        !.end = left < limit,
                                                        !.shown = shown]]
            /\ tpc' = [tpc EXCEPT ![c][s] = IF size = 0 THEN "close"
                                            ELSE IF ExactlyOnce THEN "lookup"
                                            ELSE "insert"]
            /\ UNCHANGED link

ReadBatch(c, s) ==
    /\ tpc[c][s] = "read"
    /\ \E limit \in BatchSizes, shown \in Renderings : TakeBatch(c, s, limit, shown)
    /\ WorkerUnchanged /\ UNCHANGED <<fence, sink>>

(* findCommitDigest: a batch whose token is in the table is not rewritten.  *)
FindCommitDigest(c, s) ==
    /\ tpc[c][s] = "lookup"
    /\ Asserting(c, s, IF NextToken(c, s) \in markers THEN "written" ELSE "insert")
    /\ WorkerUnchanged /\ UNCHANGED <<fence, sink>>

(* Mistake: the transaction is never committed.                             *)
InsertRowsUncommitted(c, s) ==
    /\ tpc[c][s] = "insert"
    /\ Asserting(c, s, "written")
    /\ WorkerUnchanged /\ UNCHANGED <<fence, sink>>

(* The rows, then the marker whose primary key is the token: a transaction  *)
(* that holds the key makes this one wait, a committed one makes it fail.   *)
InsertRows(c, s) ==
    /\ tpc[c][s] = "insert"
    /\ ExactlyOnce => \A d \in Coordinators \ {c} :
                          tpc[d][s] = "commit" => NextToken(d, s) # NextToken(c, s)
    /\ IF ExactlyOnce /\ NextToken(c, s) \in markers
       THEN Throw(c, s)
       ELSE Asserting(c, s, "commit")
    /\ WorkerUnchanged /\ UNCHANGED <<fence, sink>>

(* Mistake: the marker is not part of the transaction.                      *)
CommitBatchUnmarked(c, s) ==
    /\ tpc[c][s] = "commit"
    /\ repeated' = [repeated EXCEPT ![s] = @ \cup (inserted[s] \cap BatchRows(c, s))]
    /\ inserted' = [inserted EXCEPT ![s] = @ \cup BatchRows(c, s)]
    /\ tpc' = [tpc EXCEPT ![c][s] = "written"]
    /\ WorkerUnchanged /\ UNCHANGED <<task, link, fence, markers>>

(* connection.commit: rows and marker become visible together.              *)
CommitBatch(c, s) ==
    /\ tpc[c][s] = "commit"
    /\ repeated' = [repeated EXCEPT ![s] = @ \cup (inserted[s] \cap BatchRows(c, s))]
    /\ inserted' = [inserted EXCEPT ![s] = @ \cup BatchRows(c, s)]
    /\ markers' = IF ExactlyOnce THEN markers \cup {NextToken(c, s)} ELSE markers
    /\ tpc' = [tpc EXCEPT ![c][s] = "written"]
    /\ WorkerUnchanged /\ UNCHANGED <<task, link, fence>>

(* After the commit the fence is asserted again and the batch is reported.  *)
ReportBatch(c, s) ==
    /\ tpc[c][s] = "written"
    /\ IF assertCurrent(c, s)
       THEN /\ task' = [task EXCEPT ![c][s] = [@ EXCEPT !.seq = task[c][s].seq + 1,
                                                        !.pos = task[c][s].pos + task[c][s].size]]
            /\ tpc' = [tpc EXCEPT ![c][s] = "await"]
            /\ Respond(c, s, "progress")
       ELSE Throw(c, s)
    /\ WorkerUnchanged /\ UNCHANGED <<fence, sink>>

ReceiveAck(c, s) ==
    /\ tpc[c][s] = "await"
    /\ link[c][s] = "ack"
    /\ IF assertCurrent(c, s)
       THEN /\ tpc' = [tpc EXCEPT ![c][s] = IF task[c][s].end THEN "close" ELSE "read"]
            /\ Respond(c, s, "none")
            /\ UNCHANGED task
       ELSE Throw(c, s)
    /\ WorkerUnchanged /\ UNCHANGED <<fence, sink>>

(* Mistake: a failed read of the acknowledgement is tried again.            *)
AckLostRetried(c, s) ==
    /\ tpc[c][s] = "await"
    /\ link[c][s] = "closed"
    /\ WorkerUnchanged /\ UNCHANGED <<tpc, task, link, fence, sink>>

(* The read of the acknowledgement fails once the socket is closed.         *)
AckLost(c, s) ==
    /\ tpc[c][s] = "await"
    /\ link[c][s] = "closed"
    /\ Throw(c, s)
    /\ WorkerUnchanged /\ UNCHANGED <<fence, sink>>

CloseTask(c, s) ==
    /\ tpc[c][s] = "close"
    /\ tpc' = [tpc EXCEPT ![c][s] = "ended"]
    /\ Respond(c, s, "result")
    /\ WorkerUnchanged /\ UNCHANGED <<task, fence, sink>>

(* Any I/O of the task may fail, the close of its source or sink included.  *)
TaskFails(c, s) ==
    /\ tpc[c][s] \in TaskWorking
    /\ Throw(c, s)
    /\ WorkerUnchanged /\ UNCHANGED <<fence, sink>>

(* The handler's finally block: activeTasks.remove.                         *)
ReleaseTask(c, s) ==
    /\ tpc[c][s] = "ended"
    /\ tpc' = [tpc EXCEPT ![c][s] = "gone"]
    /\ WorkerUnchanged /\ UNCHANGED <<task, link, fence, sink>>

(* The Worker process is replaced: its fence is in memory only.  What it    *)
(* sent before may still arrive.                                            *)
WorkerCrash(w) ==
    /\ crashes < MaxCrashes
    /\ crashes' = crashes + 1
    /\ fence' = [fence EXCEPT ![w] = 0]
    /\ tpc' = [c \in Coordinators |-> [s \in Splits |->
                  IF WorkerFor[c][s] = w /\ tpc[c][s] \in TaskOnWorker
                  THEN "gone" ELSE tpc[c][s]]]
    /\ UNCHANGED <<store, cpc, coord, task, link, sink>>

-------------------------------------------------------------------------------
CoordinatorStep(c) ==
    \/ AcquireEpoch(c) \/ AcquireFails(c)
    \/ LoadCompletion(c) \/ Load(c) \/ SendRequest(c)
    \/ RecordProgress(c) \/ ProgressFails(c) \/ ReceiveResult(c)
    \/ RecordCompletion(c) \/ CompletionFails(c) \/ RunReturns(c)

TaskStep(c, s) ==
    \/ ActivateFence(c, s) \/ RegisterTask(c, s) \/ OpenTask(c, s)
    \/ ReadBatch(c, s) \/ FindCommitDigest(c, s) \/ InsertRows(c, s)
    \/ CommitBatch(c, s) \/ ReportBatch(c, s)
    \/ ReceiveAck(c, s) \/ AckLost(c, s)
    \/ CloseTask(c, s) \/ ReleaseTask(c, s)

Next ==
    \/ \E c \in Coordinators : CoordinatorStep(c) \/ CoordinatorCrash(c)
    \/ \E c \in Coordinators, s \in Splits : TaskStep(c, s) \/ TaskFails(c, s)
    \/ \E w \in Workers : WorkerCrash(w)

Spec == Init /\ [][Next]_vars

(* Threads and processes that can run do run; nothing is assumed of crashes *)
(* and I/O failures.                                                        *)
Fairness ==
    /\ \A c \in Coordinators : WF_vars(CoordinatorStep(c))
    /\ \A c \in Coordinators, s \in Splits : WF_vars(TaskStep(c, s))

FairSpec == Spec /\ Fairness

-------------------------------------------------------------------------------
(* Properties.                                                              *)

DigestSet == Int \X Int \X BOOLEAN \X Renderings
TokenSet == IF ExactlyOnce THEN Splits \X Nat \X DigestSet
            ELSE Nat \X Splits \X Int

RecordSet == [epoch: Nat, seq: Nat, pos: Nat,
              token: TokenSet \cup {<<>>}, digest: DigestSet \cup {<<>>}]
CompletionSet == [epoch: Nat, seq: Nat, by: SUBSET Coordinators]
ContextSet == [epoch: Nat, split: 1..(NumSplits + 1), seq: Nat, pos: Nat]
TaskSet == [seq: Nat, pos: Nat, base: Nat, size: Nat, end: BOOLEAN, shown: Renderings]

(* Every variable of the store, the processes and the sink has its type.    *)
TypeOK ==
    /\ nextExecutionEpoch \in Nat \ {0}
    /\ records \in [Splits -> RecordSet]
    /\ completedSplits \in [Splits -> CompletionSet]
    /\ cpc \in [Coordinators -> CoordinatorRunning \cup {"done", "failed"}]
    /\ coord \in [Coordinators -> ContextSet]
    /\ tpc \in [Coordinators -> [Splits -> TaskOnWorker \cup {"idle", "gone"}]]
    /\ task \in [Coordinators -> [Splits -> TaskSet]]
    /\ link \in [Coordinators -> [Splits -> Messages]]
    /\ fence \in [Workers -> Nat]
    /\ crashes \in Nat
    /\ inserted \in [Splits -> SUBSET Nat]
    /\ repeated \in [Splits -> SUBSET Nat]
    /\ markers \subseteq TokenSet

(* A durable source position never covers a row the sink does not hold:     *)
(* whatever Coordinators, epochs and crashes there are, resuming from the   *)
(* store loses no row.                                                      *)
NoRowLost == \A s \in Splits : 1..records[s].pos \subseteq inserted[s]

(* A completed split is wholly in the sink and its durable position is its  *)
(* last row, although the completion only carries a sequence number.        *)
CompletionIsWhole ==
    \A s \in Splits : completedSplits[s] # NoCompletion =>
        records[s].pos = RowCount[s] /\ inserted[s] = 1..RowCount[s]

(* A Coordinator returns only when every split is durably complete, also if *)
(* other Coordinators completed some of them.                               *)
ReturnIsComplete ==
    \A c \in Coordinators : cpc[c] = "done" =>
        \A s \in Splits : completedSplits[s] # NoCompletion

(* An exactly-once job never commits a row twice: the marker table makes a  *)
(* replay after a crash, a retry or a stale execution a no-op.              *)
NoRowRepeated == ExactlyOnce => \A s \in Splits : repeated[s] = {}

(* Durable progress only moves forward and a completed split is frozen,     *)
(* whichever Coordinator writes it.                                         *)
DurableProgress ==
    [][\A s \in Splits :
          /\ records'[s].pos >= records[s].pos
          /\ records'[s].pos = records[s].pos => records'[s].seq = records[s].seq
          /\ completedSplits[s] # NoCompletion =>
                 records'[s] = records[s] /\ completedSplits'[s] = completedSplits[s]]_vars

(* The execution implements the delivery a job promises, whatever runs,     *)
(* retries, crashes and stale executions it is made of.                     *)
Delivery == INSTANCE BatchDelivery WITH
    delivered <- inserted,
    durable <- [s \in Splits |-> records[s].pos],
    complete <- [s \in Splits |-> completedSplits[s] # NoCompletion]

(* Every step is a delivery, an advance over delivered rows, a completion   *)
(* at the last row, or none of the sink's and store's business.             *)
ImplementsDelivery == Delivery!Spec

(* Every Coordinator returns or fails.                                      *)
EveryRunEnds == \A c \in Coordinators : <>(cpc[c] \in {"done", "failed"})

(* A registered task eventually leaves activeTasks, so that a retry on the  *)
(* same Worker is not refused for ever.                                     *)
TaskIsReleased ==
    \A c \in Coordinators, s \in Splits :
        tpc[c][s] \in TaskRegistered ~> tpc[c][s] = "gone"

-------------------------------------------------------------------------------
(* The inductive invariant behind the safety properties.                    *)

InSplit == {"load", "send", "await", "finish"}
HoldsContext == {"send", "await", "finish"}
HoldsBatch == {"lookup", "insert", "commit", "written"}

(* No Coordinator holds an epoch the store has not granted.                 *)
EpochsGranted ==
    \A c \in Coordinators :
        /\ coord[c].epoch < nextExecutionEpoch
        /\ cpc[c] \in InSplit => coord[c].split \in Splits
        /\ cpc[c] = "done" => coord[c].split = NumSplits + 1
        /\ \A s \in Splits : s < coord[c].split => completedSplits[s] # NoCompletion

(* In the active epoch the durable chain never forks: a Coordinator that    *)
(* knows the latest sequence knows the latest position.                     *)
ChainAgreement ==
    \A c \in Coordinators :
        cpc[c] \in HoldsContext /\ coord[c].epoch = activeEpoch =>
            LET r == records[coord[c].split] IN
            /\ coord[c].seq <= r.seq
            /\ coord[c].seq = r.seq => coord[c].pos = r.pos

(* Coordinator and task agree on the progress made, up to the one report    *)
(* that may be under way.                                                   *)
LinkOK(c) ==
    LET s == coord[c].split
        t == task[c][s]
        l == link[c][s]
    IN /\ tpc[c][s] # "idle"
       /\ tpc[c][s] = "accept" => l = "request"
       /\ tpc[c][s] \in (TaskWorking \ {"await"}) \cup {"register"} => l = "none"
       /\ tpc[c][s] = "await" => l \in {"progress", "ack"}
       /\ l = "progress" => t.seq = coord[c].seq + 1 /\ t.pos > coord[c].pos
       /\ l \in {"none", "request", "ack", "result"} =>
              t.seq = coord[c].seq /\ t.pos = coord[c].pos
       /\ l = "result" => t.pos = RowCount[s]

LinkAgreement == \A c \in Coordinators : cpc[c] = "await" => LinkOK(c)

FinishedAtEnd ==
    \A c \in Coordinators : cpc[c] = "finish" => coord[c].pos = RowCount[coord[c].split]

BoundsOK(c, s) ==
    LET t == task[c][s] IN
    /\ t.pos <= RowCount[s]
    /\ tpc[c][s] \in HoldsBatch =>
           /\ t.size > 0
           /\ t.pos + t.size <= RowCount[s]
           /\ t.end => t.pos + t.size = RowCount[s]
    /\ tpc[c][s] = "await" /\ t.end => t.pos = RowCount[s]
    /\ tpc[c][s] = "close" => t.pos = RowCount[s]

TaskBounds == \A c \in Coordinators, s \in Splits : BoundsOK(c, s)

(* The sink holds every row that a durable position, a Coordinator, a task  *)
(* or a marker claims, and nothing that is not a row of the split.          *)
SinkHolds ==
    /\ \A s \in Splits : inserted[s] \subseteq 1..RowCount[s]
    /\ \A c \in Coordinators :
           cpc[c] \in HoldsContext => 1..coord[c].pos \subseteq inserted[coord[c].split]
    /\ \A c \in Coordinators, s \in Splits :
           /\ 1..task[c][s].pos \subseteq inserted[s]
           /\ tpc[c][s] = "written" => BatchRows(c, s) \subseteq inserted[s]
    /\ \A m \in markers : ExactlyOnce /\ m[3][1]..m[3][2] \subseteq inserted[m[1]]

(* What makes NoRowLost, CompletionIsWhole and ReturnIsComplete inductive.  *)
IInv ==
    /\ TypeOK
    /\ NoRowLost /\ CompletionIsWhole
    /\ EpochsGranted /\ ChainAgreement /\ LinkAgreement
    /\ FinishedAtEnd /\ TaskBounds /\ SinkHolds

(* Every execution cuts a split into the same batches, with the same text.  *)
FixedBatches ==
    /\ \E size \in BatchSizes : BatchSizes = {size}
    /\ \E shown \in Renderings : Renderings = {shown}

BatchSize == CHOOSE size \in BatchSizes : TRUE
Rendering == CHOOSE shown \in Renderings : TRUE

(* The position that n batches reach, and the token of batch n.             *)
Reached(s, n) == IF n * BatchSize <= RowCount[s] THEN n * BatchSize ELSE RowCount[s]

BatchToken(s, n) ==
    <<s, n, Digest((n - 1) * BatchSize + 1, Reached(s, n), RowCount[s] < n * BatchSize, Rendering)>>

IsBatch(s, n) == n > 0 /\ (n - 1) * BatchSize < RowCount[s]

Aligned(s, seq, pos) == pos = Reached(s, seq) /\ (seq = 0 \/ IsBatch(s, seq))

AlignedTask(c, s) ==
    LET t == task[c][s]
        left == RowCount[s] - t.pos
    IN /\ Aligned(s, t.seq, t.pos)
       /\ tpc[c][s] \in HoldsBatch =>
              /\ t.size = IF BatchSize <= left THEN BatchSize ELSE left
              /\ t.end = (left < BatchSize)

(* With fixed batches every sequence number names one batch, for the store, *)
(* the Coordinators, the tasks and the marker table alike.                  *)
EveryoneAligned ==
    /\ \A s \in Splits : Aligned(s, records[s].seq, records[s].pos)
    /\ \A c \in Coordinators :
           cpc[c] \in HoldsContext => Aligned(coord[c].split, coord[c].seq, coord[c].pos)
    /\ \A c \in Coordinators, s \in Splits : AlignedTask(c, s)

HoldsToken(c, s) ==
    /\ NextToken(c, s) \notin markers
    /\ \A d \in Coordinators \ {c} :
           tpc[d][s] = "commit" => NextToken(d, s) # NextToken(c, s)

(* Rows are in the sink under the marker of their batch only, and a         *)
(* transaction about to commit holds a token nobody has committed or holds. *)
MarkersGuardRows ==
    /\ \A m \in markers : m = BatchToken(m[1], m[2]) /\ IsBatch(m[1], m[2])
    /\ \A s \in Splits : \A r \in inserted[s] :
           \E m \in markers : m[1] = s /\ r \in m[3][1]..m[3][2]
    /\ \A c \in Coordinators, s \in Splits : tpc[c][s] = "commit" => HoldsToken(c, s)

(* What makes NoRowRepeated inductive for an exactly-once job.              *)
ExactlyOnceInv ==
    ExactlyOnce /\ FixedBatches => NoRowRepeated /\ EveryoneAligned /\ MarkersGuardRows

===============================================================================
