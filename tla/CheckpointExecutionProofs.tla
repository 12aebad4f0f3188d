---------------------- MODULE CheckpointExecutionProofs -----------------------
(***************************************************************************)
(* Proofs about CheckpointExecution for every number of Coordinators,      *)
(* Workers, splits, rows and crashes.                                      *)
(*                                                                         *)
(* Every step preserves the types.  TaskMove reduces a task's step to what *)
(* it does to that task, CoordinatorMove a Coordinator's to what it does   *)
(* to the Coordinator and its task; each conjunct of IInv is shown to      *)
(* survive both, and the theorems follow.                                  *)
(*                                                                         *)
(* Last, an exactly-once execution with fixed batches repeats no row, and  *)
(* every execution implements BatchDelivery.                               *)
(***************************************************************************)
EXTENDS CheckpointExecution, TLAPS

(* No leaf depends on how busy the machine is: each prover may take longer  *)
(* than its default of a few seconds.                                       *)
USE SMTT(30), ZenonT(30)

(* Init, the empty manifest and no process started, is well typed.          *)
LEMMA InitType == Init => TypeOK
  BY NumSplitsAssumption, ExecutionAssumption
     DEF Init, StoreInit, TypeOK, Splits, NoRecord, NoCompletion, TokenSet, DigestSet,
         CoordinatorRunning, TaskOnWorker, TaskRegistered, TaskWorking, Messages,
         NoTask, RecordSet, CompletionSet, ContextSet, TaskSet

(* acquireEpoch grants a natural number.                                    *)
LEMMA GrantedType ==
  ASSUME TypeOK, NEW c \in Coordinators, AcquireAccepted(RequestedEpoch[c])
  PROVE  GrantedEpoch(RequestedEpoch[c]) \in Nat
  BY ExecutionAssumption DEF TypeOK, AcquireAccepted, GrantedEpoch

(* The CheckpointRecord made of a progress report is well typed.            *)
LEMMA ProgressType ==
  ASSUME TypeOK, NEW c \in Coordinators, NEW s \in Splits
  PROVE  Progress(c, s) \in RecordSet
<1> DEFINE t == task[c][s]
           d == Digest(t.pos - t.size + 1, t.pos, t.end, t.shown)
<1>1. t \in TaskSet
  BY DEF TypeOK
<1>2. d \in DigestSet
  BY <1>1 DEF Digest, DigestSet, TaskSet
<1>3. coord[c].epoch \in Nat
  BY DEF TypeOK, ContextSet
<1>4. CommitToken(c, s, t.seq, d) \in TokenSet
  BY <1>1, <1>2, <1>3 DEF CommitToken, TokenSet, TaskSet
<1> QED BY <1>1, <1>2, <1>3, <1>4 DEF Progress, RecordSet, TaskSet

(* Every step of CheckpointBatchCoordinator.run, a crash included, keeps    *)
(* every variable in its type.                                              *)
LEMMA CoordinatorType ==
  ASSUME TypeOK, NEW c \in Coordinators, CoordinatorStep(c) \/ CoordinatorCrash(c),
         cpc[c] \in InSplit => coord[c].split \in Splits
  PROVE  TypeOK'
<1> USE DEF Goto, store, sink
<1>a. coord \in [Coordinators -> ContextSet] /\ coord[c] \in ContextSet
  BY DEF TypeOK
<1>b. task \in [Coordinators -> [Splits -> TaskSet]]
  BY DEF TypeOK
<1>c. records \in [Splits -> RecordSet]
  BY DEF TypeOK
<1>1. CASE AcquireEpoch(c)
  <2>1. coord' \in [Coordinators -> ContextSet]
    BY <1>1, <1>a, GrantedType DEF AcquireEpoch, acquireEpoch, ContextSet
  <2> QED BY <1>1, <2>1, GrantedType DEF AcquireEpoch, acquireEpoch, TypeOK, CoordinatorRunning
<1>2. CASE AcquireFails(c)
  BY <1>2 DEF AcquireFails, TypeOK, CoordinatorRunning
<1>3. CASE LoadCompletion(c)
  <2>1. coord' \in [Coordinators -> ContextSet]
    BY <1>3, <1>a, NumSplitsAssumption DEF LoadCompletion, ContextSet, Splits
  <2>2. cpc' \in [Coordinators -> CoordinatorRunning \cup {"done", "failed"}]
    <3>1. cpc' = cpc \/ cpc' = [cpc EXCEPT ![c] = "load"]
      BY <1>3, Zenon DEF LoadCompletion, Goto
    <3> QED BY <3>1, Zenon DEF TypeOK, CoordinatorRunning
  <2> QED BY <1>3, <2>1, <2>2 DEF LoadCompletion, TypeOK
<1>4. CASE Load(c)
  <2>1. coord[c].split \in Splits
    BY <1>4 DEF Load, InSplit
  <2>2. records[coord[c].split].seq \in Nat /\ records[coord[c].split].pos \in Nat
    BY <2>1, <1>c DEF RecordSet
  <2>3. coord' \in [Coordinators -> ContextSet]
    BY <1>4, <1>a, <2>2, Zenon DEF Load, ContextSet
  <2> QED BY <1>4, <2>3 DEF Load, TypeOK, CoordinatorRunning
<1>5. CASE SendRequest(c)
  <2>1. [NoTask EXCEPT !.seq = coord[c].seq, !.pos = coord[c].pos, !.base = coord[c].seq] \in TaskSet
    BY <1>a, ExecutionAssumption, Zenon DEF NoTask, ContextSet, TaskSet
  <2>2. task' \in [Coordinators -> [Splits -> TaskSet]]
    BY <1>5, <1>b, <2>1, Zenon DEF SendRequest
  <2> QED BY <1>5, <2>2 DEF SendRequest, TypeOK, CoordinatorRunning, TaskOnWorker, Messages
<1>6. CASE RecordProgress(c)
  <2>1. coord[c].split \in Splits
    BY <1>6 DEF RecordProgress, InSplit
  <2>2. task[c][coord[c].split] \in TaskSet
    BY <1>b, <2>1
  <2>3. coord' \in [Coordinators -> ContextSet]
    BY <1>6, <1>a, <2>2, Zenon DEF RecordProgress, ContextSet, TaskSet
  <2>4. records' \in [Splits -> RecordSet]
    BY <1>6, <1>c, <2>1, ProgressType DEF RecordProgress, record
  <2> QED BY Zenon, <1>6, <2>3, <2>4 DEF RecordProgress, record, TypeOK, Messages
<1>7. CASE ProgressFails(c)
  BY <1>7, Zenon DEF ProgressFails, TypeOK, Messages
<1>8. CASE ReceiveResult(c)
  BY <1>8, Zenon DEF ReceiveResult, TypeOK, Messages, CoordinatorRunning
<1>9. CASE RecordCompletion(c)
  <2>1. coord[c].split \in Splits
    BY <1>9 DEF RecordCompletion, InSplit
  <2>2. coord' \in [Coordinators -> ContextSet]
    BY <1>9, <1>a, <2>1, NumSplitsAssumption DEF RecordCompletion, ContextSet, Splits
  <2>3. SplitCompletion(c) \in CompletionSet
    BY <1>a DEF SplitCompletion, CompletionSet, ContextSet
  <2> QED BY <1>9, <2>1, <2>2, <2>3 DEF RecordCompletion, recordCompletion, TypeOK, CoordinatorRunning
<1>10. CASE CompletionFails(c)
  BY <1>10 DEF CompletionFails, TypeOK
<1>11. CASE RunReturns(c)
  BY <1>11 DEF RunReturns, TypeOK
<1>12. CASE CoordinatorCrash(c)
  BY <1>12 DEF CoordinatorCrash, TypeOK, Messages
<1> QED BY <1>1, <1>2, <1>3, <1>4, <1>5, <1>6, <1>7, <1>8, <1>9, <1>10, <1>11, <1>12
        DEF CoordinatorStep

(* A handler's response leaves the links well typed.                        *)
LEMMA RespondType ==
  ASSUME TypeOK, NEW c \in Coordinators, NEW s \in Splits, NEW m \in Messages, Respond(c, s, m)
  PROVE  link' \in [Coordinators -> [Splits -> Messages]]
  BY DEF TypeOK, Respond

(* A task that throws or is rejected leaves the locations and links well    *)
(* typed.                                                                   *)
LEMMA LeaveType ==
  ASSUME TypeOK, NEW c \in Coordinators, NEW s \in Splits, Throw(c, s) \/ Reject(c, s)
  PROVE  /\ tpc' \in [Coordinators -> [Splits -> TaskOnWorker \cup {"idle", "gone"}]]
         /\ link' \in [Coordinators -> [Splits -> Messages]]
         /\ task' = task
<1>1. tpc \in [Coordinators -> [Splits -> TaskOnWorker \cup {"idle", "gone"}]]
  BY DEF TypeOK
<1>2. "ended" \in TaskOnWorker /\ "error" \in Messages
  BY DEF TaskOnWorker, TaskRegistered, Messages
<1>3. Respond(c, s, "error") /\ task' = task
  BY DEF Throw, Reject
<1>4. link' \in [Coordinators -> [Splits -> Messages]]
  BY <1>2, <1>3, RespondType
<1>5. CASE tpc' = [tpc EXCEPT ![c][s] = "ended"]
  BY <1>1, <1>2, <1>3, <1>4, <1>5
<1>6. CASE tpc' = [tpc EXCEPT ![c][s] = "gone"]
  BY <1>1, <1>3, <1>4, <1>6
<1> QED BY <1>5, <1>6 DEF Throw, Reject

(* Every step of WorkerServer's handler and of the task thread keeps every  *)
(* variable in its type.                                                    *)
LEMMA TaskType ==
  ASSUME TypeOK, NEW c \in Coordinators, NEW s \in Splits, TaskStep(c, s) \/ TaskFails(c, s),
         task[c][s].pos <= RowCount[s]
  PROVE  TypeOK'
<1> DEFINE TpcType == tpc' \in [Coordinators -> [Splits -> TaskOnWorker \cup {"idle", "gone"}]]
           LinkType == link' \in [Coordinators -> [Splits -> Messages]]
           DataType == task' \in [Coordinators -> [Splits -> TaskSet]]
<1>a. task \in [Coordinators -> [Splits -> TaskSet]] /\ task[c][s] \in TaskSet
  BY DEF TypeOK
<1>b. tpc \in [Coordinators -> [Splits -> TaskOnWorker \cup {"idle", "gone"}]]
  BY DEF TypeOK
<1>c. ASSUME TpcType, LinkType, DataType, WorkerUnchanged, UNCHANGED <<fence, sink>>
      PROVE  TypeOK'
  BY <1>c DEF TypeOK, WorkerUnchanged, store, sink
<1>d. link \in [Coordinators -> [Splits -> Messages]]
  BY DEF TypeOK
<1>e. ASSUME NEW pc \in TaskOnWorker, tpc' = [tpc EXCEPT ![c][s] = pc]
      PROVE  TpcType
  BY <1>b, <1>e
<1>g. ASSUME NEW data \in TaskSet, task' = [task EXCEPT ![c][s] = data]
      PROVE  DataType
  BY <1>a, <1>g
<1>f. ASSUME NEW pc \in TaskOnWorker, Asserting(c, s, pc)
      PROVE  TpcType /\ LinkType /\ DataType
  BY <1>a, <1>d, <1>e, <1>f, LeaveType DEF Asserting
<1> USE DEF TaskOnWorker, TaskRegistered, TaskWorking
<1>1. CASE ActivateFence(c, s)
  <2>1. CASE Reject(c, s) /\ UNCHANGED fence
    BY <1>1, <1>a, <1>c, <2>1, LeaveType DEF ActivateFence
  <2>2. CASE ~(coord[c].epoch < fence[WorkerFor[c][s]])
    <3>1. coord[c].epoch \in Nat
      BY DEF TypeOK, ContextSet
    <3>2. fence' \in [Workers -> Nat]
      <4>1. fence' = [fence EXCEPT ![WorkerFor[c][s]] = coord[c].epoch]
        BY <1>1, <2>2, Zenon DEF ActivateFence
      <4> QED BY <3>1, <4>1, Zenon DEF TypeOK
    <3>3. TpcType /\ LinkType /\ task' = task
      BY <1>1, <1>e, <2>2, RespondType DEF ActivateFence, Messages
    <3> QED BY Zenon, <1>1, <3>2, <3>3 DEF ActivateFence, TypeOK, WorkerUnchanged, store, sink
  <2> QED BY <1>1, <2>1, <2>2 DEF ActivateFence
<1>2. CASE RegisterTask(c, s)
  <2>1. CASE Reject(c, s)
    BY <1>2, <1>a, <1>c, <2>1, LeaveType, Zenon DEF RegisterTask
  <2>2. CASE tpc' = [tpc EXCEPT ![c][s] = "open"] /\ UNCHANGED <<task, link>>
    BY <1>2, <1>a, <1>c, <1>d, <1>e, <2>2, Zenon DEF RegisterTask
  <2> QED BY <1>2, <2>1, <2>2, Zenon DEF RegisterTask
<1>3. CASE OpenTask(c, s)
  BY Zenon, <1>3, <1>c, <1>f DEF OpenTask
<1>4. CASE ReadBatch(c, s)
  <2>1. PICK limit \in BatchSizes, shown \in Renderings : TakeBatch(c, s, limit, shown)
    BY <1>4 DEF ReadBatch
  <2>2. CASE Throw(c, s)
    BY <1>4, <1>a, <1>c, <2>2, LeaveType DEF ReadBatch
  <2>3. CASE ~Throw(c, s)
    <3> DEFINE left == RowCount[s] - task[c][s].pos
               size == IF limit <= left THEN limit ELSE left
    <3>1. task[c][s].pos \in Nat /\ limit \in Nat /\ RowCount[s] \in Nat
      BY <1>a, ExecutionAssumption DEF TaskSet
    <3>2. size \in Nat /\ (left < limit) \in BOOLEAN
      BY <3>1
    <3> HIDE DEF left, size
    <3>3. [task[c][s] EXCEPT !.size = size, !.end = left < limit, !.shown = shown] \in TaskSet
      BY <1>a, <3>2, Zenon DEF TaskSet
    <3> USE DEF left, size
    <3>4. task' = [task EXCEPT ![c][s] = [task[c][s] EXCEPT !.size = size, !.end = left < limit,
                                                           !.shown = shown]]
      BY <2>1, <2>3 DEF TakeBatch
    <3>5. DataType
      BY <1>g, <3>3, <3>4, Zenon
    <3>6. \/ tpc' = [tpc EXCEPT ![c][s] = "close"]
          \/ tpc' = [tpc EXCEPT ![c][s] = "lookup"]
          \/ tpc' = [tpc EXCEPT ![c][s] = "insert"]
      BY <2>1, <2>3 DEF TakeBatch
    <3>7. TpcType /\ LinkType
      BY <1>d, <1>e, <2>1, <2>3, <3>6 DEF TakeBatch
    <3> QED BY <1>4, <1>c, <3>5, <3>7 DEF ReadBatch
  <2> QED BY <2>2, <2>3
<1>5. CASE FindCommitDigest(c, s)
  BY Zenon, <1>5, <1>c, <1>f DEF FindCommitDigest
<1>6. CASE InsertRows(c, s)
  <2>1. CASE Throw(c, s)
    BY Zenon, <1>6, <1>a, <1>c, <2>1, LeaveType DEF InsertRows
  <2>2. CASE Asserting(c, s, "commit")
    BY <1>6, <1>c, <1>f, <2>2 DEF InsertRows
  <2> QED BY Zenon, <1>6, <2>1, <2>2 DEF InsertRows
<1>7. CASE CommitBatch(c, s)
  <2>1. inserted' \in [Splits -> SUBSET Nat] /\ repeated' \in [Splits -> SUBSET Nat]
    BY <1>7, <1>a DEF CommitBatch, BatchRows, TypeOK, TaskSet
  <2>2. BatchDigest(c, s) \in DigestSet
    BY <1>a DEF BatchDigest, Digest, DigestSet, TaskSet
  <2>3. NextToken(c, s) \in TokenSet
    <3>1. coord[c].epoch \in Nat /\ task[c][s].seq \in Nat /\ task[c][s].base \in Nat
      BY <1>a DEF TypeOK, ContextSet, TaskSet
    <3> QED BY <2>2, <3>1 DEF NextToken, CommitToken, TokenSet
  <2>4. markers' \subseteq TokenSet
    BY <1>7, <2>3 DEF CommitBatch, TypeOK
  <2>5. TpcType
    BY Zenon, <1>7, <1>e DEF CommitBatch
  <2> QED BY Zenon, <1>7, <2>1, <2>4, <2>5 DEF CommitBatch, TypeOK, WorkerUnchanged, store
<1>8. CASE ReportBatch(c, s)
  <2>1. CASE Throw(c, s)
    BY <1>8, <1>a, <1>c, <2>1, LeaveType DEF ReportBatch
  <2>2. CASE assertCurrent(c, s)
    <3> DEFINE seq == task[c][s].seq + 1
               pos == task[c][s].pos + task[c][s].size
    <3>0. seq \in Nat /\ pos \in Nat
      BY <1>a DEF TaskSet
    <3> HIDE DEF seq, pos
    <3>1. [task[c][s] EXCEPT !.seq = seq, !.pos = pos] \in TaskSet
      BY <1>a, <3>0, Zenon DEF TaskSet
    <3> USE DEF seq, pos
    <3>2. DataType
      BY <1>8, <1>g, <2>2, <3>1 DEF ReportBatch
    <3>3. TpcType /\ LinkType
      BY <1>8, <1>e, <2>2, RespondType DEF ReportBatch, Messages
    <3> QED BY <1>8, <1>c, <3>2, <3>3 DEF ReportBatch
  <2> QED BY <1>8, <2>1, <2>2 DEF ReportBatch
<1>9. CASE ReceiveAck(c, s)
  <2>1. CASE Throw(c, s)
    BY <1>9, <1>a, <1>c, <2>1, LeaveType DEF ReceiveAck
  <2>2. CASE assertCurrent(c, s)
    BY <1>9, <1>a, <1>c, <1>e, <2>2, RespondType DEF ReceiveAck, Messages
  <2> QED BY <1>9, <2>1, <2>2 DEF ReceiveAck
<1>10. CASE AckLost(c, s)
  BY Zenon, <1>10, <1>a, <1>c, LeaveType DEF AckLost
<1>11. CASE CloseTask(c, s)
  BY Zenon, <1>11, <1>a, <1>c, <1>e, RespondType DEF CloseTask, Messages
<1>12. CASE ReleaseTask(c, s)
  BY <1>12, <1>a, <1>b, <1>c, <1>d DEF ReleaseTask
<1>13. CASE TaskFails(c, s)
  BY <1>13, <1>a, <1>c, LeaveType DEF TaskFails
<1> QED BY <1>1, <1>2, <1>3, <1>4, <1>5, <1>6, <1>7, <1>8, <1>9, <1>10, <1>11, <1>12, <1>13
        DEF TaskStep

(* Replacing a Worker process keeps every variable in its type.             *)
LEMMA CrashType ==
  ASSUME TypeOK, NEW w \in Workers, WorkerCrash(w)
  PROVE  TypeOK'
<1>1. tpc' \in [Coordinators -> [Splits -> TaskOnWorker \cup {"idle", "gone"}]]
  BY DEF WorkerCrash, TypeOK
<1>2. fence' \in [Workers -> Nat] /\ crashes' \in Nat
  BY DEF WorkerCrash, TypeOK
<1> QED BY <1>1, <1>2 DEF WorkerCrash, TypeOK, store, sink
---------------------------------------------------------------------------

(* The record a coordinator writes is where its task stands.                *)
LEMMA ProgressIsTheTask ==
  ASSUME NEW c, NEW s
  PROVE  Progress(c, s).seq = task[c][s].seq /\ Progress(c, s).pos = task[c][s].pos
  BY DEF Progress

(* Batches are numbered from one.                                           *)
LEMMA BatchesFromOne ==
  ASSUME NEW s, NEW n \in Nat, IsBatch(s, n)
  PROVE  n \in Nat \ {0}
  BY DEF IsBatch

(* The token of a batch has its first and its last row.                     *)
LEMMA TokenHasItsRows ==
  ASSUME NEW s, NEW n, NEW m, m = BatchToken(s, n)
  PROVE  m[3][1] = (n - 1) * BatchSize + 1 /\ m[3][2] = Reached(s, n)
  BY DEF BatchToken, Digest

(* A task that stays as it was, and holds no batch unless it did, stays     *)
(* aligned.                                                                 *)
LEMMA StillAligned ==
  ASSUME NEW c, NEW s, AlignedTask(c, s), task'[c][s] = task[c][s],
         tpc'[c][s] \in HoldsBatch => tpc[c][s] \in HoldsBatch
  PROVE  AlignedTask(c, s)'
  BY DEF AlignedTask

(* A task step changes nothing of the store, the Coordinators and the other *)
(* tasks; only the commit of a batch changes the sink.                      *)
LEMMA TaskFrame ==
  ASSUME TypeOK, NEW c \in Coordinators, NEW s \in Splits, TaskStep(c, s) \/ TaskFails(c, s)
  PROVE  /\ UNCHANGED <<store, cpc, coord, crashes>>
         /\ \A d \in Coordinators, u \in Splits : d # c \/ u # s =>
               tpc'[d][u] = tpc[d][u] /\ task'[d][u] = task[d][u] /\ link'[d][u] = link[d][u]
         /\ UNCHANGED sink \/ CommitBatch(c, s)
<1> DEFINE Same == \A d \in Coordinators, u \in Splits : d # c \/ u # s =>
               tpc'[d][u] = tpc[d][u] /\ task'[d][u] = task[d][u] /\ link'[d][u] = link[d][u]
<1>t. /\ tpc \in [Coordinators -> [Splits -> TaskOnWorker \cup {"idle", "gone"}]]
      /\ task \in [Coordinators -> [Splits -> TaskSet]]
      /\ link \in [Coordinators -> [Splits -> Messages]]
  BY DEF TypeOK
<1>a. ASSUME Throw(c, s) \/ Reject(c, s) PROVE Same
  BY <1>a, <1>t DEF Throw, Reject, Respond
<1>b. ASSUME NEW pc, Asserting(c, s, pc) PROVE Same
  BY <1>b, <1>a, <1>t DEF Asserting
<1> USE DEF WorkerUnchanged
<1>1. CASE ActivateFence(c, s)
  BY <1>1, <1>a, <1>t DEF ActivateFence, Respond
<1>2. CASE RegisterTask(c, s)
  <2>1. /\ Reject(c, s) \/ (tpc' = [tpc EXCEPT ![c][s] = "open"] /\ UNCHANGED <<task, link>>)
        /\ UNCHANGED <<store, cpc, coord, crashes>> /\ UNCHANGED <<fence, sink>>
    BY Zenon, <1>2 DEF RegisterTask
  <2>2. ASSUME tpc' = [tpc EXCEPT ![c][s] = "open"] /\ UNCHANGED <<task, link>> PROVE Same
    BY <1>t, <2>2
  <2> QED BY <1>a, <2>1, <2>2
<1>3. CASE OpenTask(c, s)
  BY Zenon, <1>3, <1>b, <1>t DEF OpenTask
<1>4. CASE ReadBatch(c, s)
  BY <1>4, <1>a, <1>t DEF ReadBatch, TakeBatch
<1>5. CASE FindCommitDigest(c, s)
  BY Zenon, <1>5, <1>b, <1>t DEF FindCommitDigest
<1>6. CASE InsertRows(c, s)
  BY Zenon, <1>6, <1>a, <1>b, <1>t DEF InsertRows
<1>7. CASE CommitBatch(c, s)
  BY <1>7, <1>t DEF CommitBatch
<1>8. CASE ReportBatch(c, s)
  BY <1>8, <1>a, <1>t DEF ReportBatch, Respond
<1>9. CASE ReceiveAck(c, s)
  BY <1>9, <1>a, <1>t DEF ReceiveAck, Respond
<1>10. CASE AckLost(c, s)
  BY Zenon, <1>10, <1>a, <1>t DEF AckLost
<1>11. CASE CloseTask(c, s)
  BY <1>11, <1>t DEF CloseTask, Respond
<1>12. CASE ReleaseTask(c, s)
  BY <1>12, <1>t DEF ReleaseTask
<1>13. CASE TaskFails(c, s)
  BY Zenon, <1>13, <1>a, <1>t DEF TaskFails
<1> QED BY <1>1, <1>2, <1>3, <1>4, <1>5, <1>6, <1>7, <1>8, <1>9, <1>10, <1>11, <1>12, <1>13, Zenon
        DEF TaskStep

(* Other tasks stay where they are.                                         *)
LEMMA OtherTasks ==
  ASSUME TypeOK, NEW c \in Coordinators, NEW s \in Splits, TaskStep(c, s) \/ TaskFails(c, s),
         NEW d \in Coordinators, NEW u \in Splits, d # c \/ u # s
  PROVE  tpc'[d][u] = tpc[d][u] /\ task'[d][u] = task[d][u]
<1>1. \A e \in Coordinators, v \in Splits : e # c \/ v # s => tpc'[e][v] = tpc[e][v] /\ task'[e][v] = task[e][v]
  BY TaskFrame
<1> QED BY Zenon, <1>1

(* What a step of a task does to the task itself, location by location.     *)
Answered(c, s, message) ==
    link'[c][s] = IF link[c][s] \in {"closed", "progress"} THEN link[c][s] ELSE message

Gives(c, s, from, to) ==
    tpc[c][s] = from /\ tpc'[c][s] = to /\ task'[c][s] = task[c][s]

Stays(c, s) == link'[c][s] = link[c][s]

Leaves(c, s) ==
    /\ tpc[c][s] # "ended"
    /\ tpc'[c][s] \in {"ended", "gone"}
    /\ task'[c][s] = task[c][s]
    /\ Answered(c, s, "error")

Reads(c, s) ==
    LET t == task[c][s]
        u == task'[c][s]
    IN
    /\ tpc[c][s] = "read"
    /\ Stays(c, s)
    /\ u.seq = t.seq /\ u.pos = t.pos /\ u.size \in Nat
    /\ \E limit \in BatchSizes :
           /\ u.size = IF limit <= RowCount[s] - t.pos THEN limit ELSE RowCount[s] - t.pos
           /\ u.end = (RowCount[s] - t.pos < limit)
    /\ tpc'[c][s] \in {"close", "lookup", "insert"}
    /\ tpc'[c][s] = "close" <=> u.size = 0

Reports(c, s) ==
    /\ tpc[c][s] = "written"
    /\ tpc'[c][s] = "await"
    /\ Answered(c, s, "progress")
    /\ task'[c][s] = [task[c][s] EXCEPT !.seq = task[c][s].seq + 1,
                                       !.pos = task[c][s].pos + task[c][s].size]

(* The steps of a task, reduced to what they do to the task itself.         *)
LEMMA TaskMove ==
  ASSUME TypeOK, NEW c \in Coordinators, NEW s \in Splits, TaskStep(c, s) \/ TaskFails(c, s),
         task[c][s].pos <= RowCount[s]
  PROVE  \/ Leaves(c, s)
         \/ Gives(c, s, "accept", "register") /\ Answered(c, s, "none")
         \/ Gives(c, s, "register", "open") /\ Stays(c, s)
         \/ Gives(c, s, "open", "read") /\ Stays(c, s)
         \/ Reads(c, s)
         \/ Gives(c, s, "lookup", "written") /\ Stays(c, s) /\ NextToken(c, s) \in markers
         \/ Gives(c, s, "lookup", "insert") /\ Stays(c, s)
         \/ Gives(c, s, "insert", "commit") /\ Stays(c, s) /\ InsertRows(c, s)
         \/ Gives(c, s, "commit", "written") /\ Stays(c, s) /\ CommitBatch(c, s)
         \/ Reports(c, s)
         \/ Gives(c, s, "await", "close") /\ link[c][s] = "ack" /\ link'[c][s] = "none" /\ task[c][s].end
         \/ Gives(c, s, "await", "read") /\ link[c][s] = "ack" /\ link'[c][s] = "none"
         \/ Gives(c, s, "close", "ended") /\ Answered(c, s, "result")
         \/ Gives(c, s, "ended", "gone") /\ Stays(c, s)
<1>t. /\ tpc \in [Coordinators -> [Splits -> TaskOnWorker \cup {"idle", "gone"}]]
      /\ task \in [Coordinators -> [Splits -> TaskSet]]
      /\ link \in [Coordinators -> [Splits -> Messages]]
  BY DEF TypeOK
<1>r. ASSUME NEW m, Respond(c, s, m) PROVE Answered(c, s, m)
  BY <1>r, <1>t DEF Respond, Answered
<1>p. ASSUME NEW pc, tpc' = [tpc EXCEPT ![c][s] = pc] PROVE tpc'[c][s] = pc
  BY <1>p, <1>t
<1>a. ASSUME Throw(c, s) \/ Reject(c, s), tpc[c][s] # "ended" PROVE Leaves(c, s)
  <2>1. Answered(c, s, "error") /\ task' = task
    BY <1>a, <1>r DEF Throw, Reject
  <2>2. tpc'[c][s] \in {"ended", "gone"}
    BY <1>a, <1>p DEF Throw, Reject
  <2> QED BY <1>a, <2>1, <2>2 DEF Leaves
<1>b. ASSUME NEW pc, Asserting(c, s, pc), tpc[c][s] # "ended"
      PROVE  Leaves(c, s) \/ (Gives(c, s, tpc[c][s], pc) /\ Stays(c, s))
  <2>1. CASE Throw(c, s)
    BY Zenon, <1>a, <1>b, <2>1
  <2>2. CASE tpc' = [tpc EXCEPT ![c][s] = pc] /\ UNCHANGED <<task, link>>
    BY <1>p, <2>2, Zenon DEF Gives, Stays
  <2> QED BY <1>b, <2>1, <2>2 DEF Asserting
<1>1. CASE ActivateFence(c, s)
  BY Zenon, <1>1, <1>a, <1>p, <1>r DEF ActivateFence, Gives
<1>2. CASE RegisterTask(c, s)
  BY <1>2, <1>a, <1>p, Zenon DEF RegisterTask, Gives, Stays
<1>3. CASE OpenTask(c, s)
  BY <1>3, <1>b, Zenon DEF OpenTask
<1>4. CASE ReadBatch(c, s)
  <2>1. PICK limit \in BatchSizes, shown \in Renderings : TakeBatch(c, s, limit, shown)
    BY <1>4 DEF ReadBatch
  <2>2. CASE Throw(c, s)
    BY <1>4, <1>a, <2>2, Zenon DEF ReadBatch
  <2>3. CASE ~Throw(c, s)
    <3> DEFINE left == RowCount[s] - task[c][s].pos
               size == IF limit <= left THEN limit ELSE left
    <3>1. task[c][s].pos \in Nat /\ limit \in Nat \ {0} /\ RowCount[s] \in Nat
      BY <1>t, ExecutionAssumption DEF TaskSet
    <3>2. size \in Nat
      BY <3>1
    <3>3. task' = [task EXCEPT ![c][s] = [task[c][s] EXCEPT !.size = size, !.end = left < limit,
                                                           !.shown = shown]]
      BY <2>1, <2>3 DEF TakeBatch
    <3>4. task'[c][s] = [task[c][s] EXCEPT !.size = size, !.end = left < limit, !.shown = shown]
      BY <3>3, <1>t, Zenon
    <3>5. /\ task'[c][s].seq = task[c][s].seq /\ task'[c][s].pos = task[c][s].pos
          /\ task'[c][s].size = size /\ task'[c][s].end = (left < limit)
      BY <3>4, <1>t DEF TaskSet
    <3>6. tpc'[c][s] = IF size = 0 THEN "close" ELSE IF ExactlyOnce THEN "lookup" ELSE "insert"
      BY <2>1, <2>3, <1>p DEF TakeBatch
    <3>7. link' = link
      BY <2>1, <2>3 DEF TakeBatch
    <3>8. Reads(c, s)
      BY Zenon, <1>4, <3>2, <3>5, <3>6, <3>7 DEF ReadBatch, Reads, Stays
    <3> QED BY Zenon, <3>8
  <2> QED BY <2>2, <2>3, Zenon
<1>5. CASE FindCommitDigest(c, s)
  <2>1. CASE NextToken(c, s) \in markers
    BY <1>5, <1>b, <2>1, Zenon DEF FindCommitDigest
  <2>2. CASE NextToken(c, s) \notin markers
    BY Zenon, <1>5, <1>b, <2>2 DEF FindCommitDigest
  <2> QED BY <2>1, <2>2, Zenon
<1>6. CASE InsertRows(c, s)
  BY <1>6, <1>a, <1>b, Zenon DEF InsertRows
<1>7. CASE CommitBatch(c, s)
  BY <1>7, <1>p, Zenon DEF CommitBatch, Gives, Stays
<1>8. CASE ReportBatch(c, s)
  <2>1. CASE Throw(c, s)
    BY <1>8, <1>a, <2>1 DEF ReportBatch
  <2>2. CASE ~Throw(c, s)
    <3>1. task' = [task EXCEPT ![c][s] = [task[c][s] EXCEPT !.seq = task[c][s].seq + 1,
                                           !.pos = task[c][s].pos + task[c][s].size]]
      BY <1>8, <2>2 DEF ReportBatch
    <3>2. task'[c][s] = [task[c][s] EXCEPT !.seq = task[c][s].seq + 1,
                                           !.pos = task[c][s].pos + task[c][s].size]
      BY <3>1, <1>t, Zenon
    <3>3. tpc'[c][s] = "await" /\ Answered(c, s, "progress")
      BY <1>8, <1>p, <1>r, <2>2 DEF ReportBatch
    <3> QED BY <1>8, <3>2, <3>3 DEF Reports, ReportBatch
  <2> QED BY <2>1, <2>2, Zenon
<1>9. CASE ReceiveAck(c, s)
  <2>1. CASE Throw(c, s)
    BY <1>9, <1>a, <2>1 DEF ReceiveAck
  <2>2. CASE ~Throw(c, s)
    <3>1. Answered(c, s, "none") /\ task' = task
      BY <1>9, <1>r, <2>2 DEF ReceiveAck
    <3>2. tpc'[c][s] = IF task[c][s].end THEN "close" ELSE "read"
      BY <1>9, <1>p, <2>2 DEF ReceiveAck
    <3> QED BY Zenon, <1>9, <3>1, <3>2 DEF ReceiveAck, Answered, Gives
  <2> QED BY <2>1, <2>2, Zenon
<1>10. CASE AckLost(c, s)
  BY Zenon, <1>10, <1>a DEF AckLost
<1>11. CASE CloseTask(c, s)
  BY <1>11, <1>p, <1>r, Zenon DEF CloseTask, Gives
<1>12. CASE ReleaseTask(c, s)
  BY <1>12, <1>p, Zenon DEF ReleaseTask, Gives, Stays
<1>13. CASE TaskFails(c, s)
  BY <1>13, <1>a, Zenon DEF TaskFails, TaskWorking
<1> QED BY <1>1, <1>2, <1>3, <1>4, <1>5, <1>6, <1>7, <1>8, <1>9, <1>10, <1>11, <1>12, <1>13, Zenon
        DEF TaskStep

(* A task step keeps Coordinator and task in agreement on the progress      *)
(* made: sendProgressAndAwaitAck has at most one report under way.          *)
LEMMA TaskLink ==
  ASSUME TypeOK, LinkAgreement, TaskBounds, EpochsGranted,
         NEW c \in Coordinators, NEW s \in Splits, TaskStep(c, s) \/ TaskFails(c, s)
  PROVE  LinkAgreement'
<1>n. /\ task[c][s] \in TaskSet
      /\ coord[c].seq \in Nat /\ coord[c].pos \in Nat /\ RowCount[s] \in Nat
  BY ExecutionAssumption DEF TypeOK, ContextSet
<1>u. UNCHANGED <<cpc, coord>>
  BY TaskFrame, Zenon
<1>f. \A d \in Coordinators, u \in Splits : d # c \/ u # s =>
         tpc'[d][u] = tpc[d][u] /\ task'[d][u] = task[d][u] /\ link'[d][u] = link[d][u]
  BY TaskFrame, Zenon
<1>o. ASSUME NEW d \in Coordinators, d # c \/ coord[d].split # s, cpc'[d] = "await"
      PROVE  LinkOK(d)'
  <2>1. coord[d].split \in Splits
    BY Zenon, <1>o, <1>u DEF EpochsGranted, InSplit
  <2>2. /\ tpc'[d][coord[d].split] = tpc[d][coord[d].split]
        /\ task'[d][coord[d].split] = task[d][coord[d].split]
        /\ link'[d][coord[d].split] = link[d][coord[d].split]
    BY <1>f, <1>o, <2>1, Zenon
  <2>3. LinkOK(d)
    BY <1>o, <1>u, Zenon DEF LinkAgreement
  <2> QED BY <1>u, <2>2, <2>3, Zenon DEF LinkOK
<1> SUFFICES ASSUME cpc[c] = "await", coord[c].split = s
             PROVE  LinkOK(c)'
  BY <1>o, <1>u DEF LinkAgreement
<1>l. LinkOK(c) /\ BoundsOK(c, s)
  BY DEF LinkAgreement, TaskBounds
<1> DEFINE Same == task'[c][s].seq = task[c][s].seq /\ task'[c][s].pos = task[c][s].pos
<1>1. CASE Leaves(c, s)
  BY <1>1, <1>l, <1>u, Zenon DEF Leaves, Answered, LinkOK, TaskWorking
<1>2. CASE Gives(c, s, "accept", "register") /\ Answered(c, s, "none")
  BY <1>2, <1>l, <1>u, Zenon DEF Gives, Answered, LinkOK, TaskWorking
<1>3. CASE Reports(c, s)
  <2>1. task[c][s].size > 0 /\ link[c][s] = "none"
    BY <1>3, <1>l DEF Reports, BoundsOK, HoldsBatch, LinkOK, TaskWorking
  <2>2. /\ task'[c][s].pos = task[c][s].pos + task[c][s].size
        /\ task'[c][s].seq = task[c][s].seq + 1
    BY <1>3, <1>n DEF Reports, TaskSet
  <2>3. tpc'[c][s] = "await" /\ link'[c][s] = "progress"
    BY <1>3, <2>1 DEF Reports, Answered
  <2>4. task[c][s].seq = coord[c].seq /\ task[c][s].pos = coord[c].pos
    BY <2>1, <1>l, Zenon DEF LinkOK
  <2>5. task'[c][s].seq = coord[c].seq + 1 /\ task'[c][s].pos > coord[c].pos
    BY <2>1, <2>2, <2>4, <1>n DEF TaskSet
  <2> QED BY <2>3, <2>5, <1>u, ZenonT(60) DEF LinkOK, TaskWorking
<1>4. CASE Gives(c, s, "close", "ended") /\ Answered(c, s, "result")
  BY <1>4, <1>l, <1>u, Zenon DEF Gives, Answered, LinkOK, BoundsOK, TaskWorking
<1>5. CASE Reads(c, s)
  BY <1>5, <1>l, <1>u, Zenon DEF Reads, Stays, LinkOK, TaskWorking
<1>6. ASSUME link[c][s] = "ack", link'[c][s] = "none",
             Gives(c, s, "await", "close") \/ Gives(c, s, "await", "read")
      PROVE  LinkOK(c)'
  BY <1>6, <1>l, <1>u, Zenon DEF Gives, LinkOK, TaskWorking
<1>7. ASSUME NEW from, NEW to, Gives(c, s, from, to), Stays(c, s),
             <<from, to>> \in {<<"register", "open">>, <<"open", "read">>, <<"lookup", "written">>,
                               <<"lookup", "insert">>, <<"insert", "commit">>, <<"commit", "written">>,
                               <<"ended", "gone">>}
      PROVE  LinkOK(c)'
  BY <1>7, <1>l, <1>u, Zenon DEF Gives, Stays, LinkOK, TaskWorking
<1>b. task[c][s].pos <= RowCount[s]
  BY Zenon, <1>l DEF BoundsOK
<1> QED BY <1>b, <1>1, <1>2, <1>3, <1>4, <1>5, <1>6, <1>7, TaskMove, Zenon

(* A task step keeps a task within its split: readBatch ends at the last    *)
(* row.                                                                     *)
LEMMA TaskInBounds ==
  ASSUME TypeOK, TaskBounds,
         NEW c \in Coordinators, NEW s \in Splits, TaskStep(c, s) \/ TaskFails(c, s)
  PROVE  TaskBounds'
<1>n. task[c][s] \in TaskSet /\ RowCount[s] \in Nat
  BY ExecutionAssumption DEF TypeOK
<1>o. ASSUME NEW d \in Coordinators, NEW u \in Splits, d # c \/ u # s
      PROVE  BoundsOK(d, u)'
  BY <1>o, TaskFrame DEF TaskBounds, BoundsOK
<1> SUFFICES BoundsOK(c, s)'
  BY <1>o DEF TaskBounds
<1>l. BoundsOK(c, s)
  BY DEF TaskBounds
<1>1. CASE Leaves(c, s)
  BY Zenon, <1>1, <1>l DEF Leaves, BoundsOK, HoldsBatch
<1>2. CASE Reports(c, s)
  <2>1. /\ task'[c][s].pos = task[c][s].pos + task[c][s].size
        /\ task'[c][s].end = task[c][s].end
        /\ tpc'[c][s] = "await"
    BY <1>2, <1>n DEF Reports, TaskSet
  <2> QED BY <2>1, <1>2, <1>l, <1>n DEF Reports, BoundsOK, HoldsBatch, TaskSet
<1>3. CASE Reads(c, s)
  <2>1. PICK limit \in BatchSizes :
            /\ task'[c][s].size = IF limit <= RowCount[s] - task[c][s].pos
                                  THEN limit ELSE RowCount[s] - task[c][s].pos
            /\ task'[c][s].end = (RowCount[s] - task[c][s].pos < limit)
    BY Zenon, <1>3 DEF Reads
  <2>2. limit \in Nat \ {0} /\ task[c][s].pos \in Nat /\ task[c][s].pos <= RowCount[s]
    BY Zenon, <1>l, <1>n, ExecutionAssumption DEF BoundsOK, TaskSet
  <2>3. /\ task'[c][s].pos = task[c][s].pos
        /\ tpc'[c][s] \in {"close", "lookup", "insert"}
        /\ tpc'[c][s] = "close" <=> task'[c][s].size = 0
    BY Zenon, <1>3 DEF Reads
  <2>4. tpc'[c][s] = "close" => task[c][s].pos = RowCount[s]
    BY <2>1, <2>2, <2>3, <1>n
  <2>5. tpc'[c][s] # "close" =>
           /\ task'[c][s].size > 0
           /\ task[c][s].pos + task'[c][s].size <= RowCount[s]
    BY <2>1, <2>2, <2>3, <1>n
  <2>6. task'[c][s].end => RowCount[s] - task[c][s].pos < limit
    BY <2>1, Zenon
  <2>7. task'[c][s].end => task[c][s].pos + task'[c][s].size = RowCount[s]
    BY <2>1, <2>2, <2>6, <1>n
  <2> QED BY Zenon, <2>2, <2>3, <2>4, <2>5, <2>7 DEF BoundsOK, HoldsBatch
<1>4. CASE \/ Gives(c, s, "accept", "register") \/ Gives(c, s, "register", "open")
           \/ Gives(c, s, "open", "read") \/ Gives(c, s, "await", "read")
           \/ Gives(c, s, "lookup", "written") \/ Gives(c, s, "lookup", "insert")
           \/ Gives(c, s, "insert", "commit") \/ Gives(c, s, "commit", "written")
           \/ Gives(c, s, "close", "ended") \/ Gives(c, s, "ended", "gone")
  BY Zenon, <1>4, <1>l DEF Gives, BoundsOK, HoldsBatch
<1>5. CASE Gives(c, s, "await", "close") /\ task[c][s].end
  BY Zenon, <1>5, <1>l DEF Gives, BoundsOK, HoldsBatch
<1>b. task[c][s].pos <= RowCount[s]
  BY Zenon, <1>l DEF BoundsOK
<1> QED BY <1>b, <1>1, <1>2, <1>3, <1>4, <1>5, TaskMove, Zenon

(* A task step never removes a row from the sink.                           *)
LEMMA SinkGrows ==
  ASSUME TypeOK, NEW c \in Coordinators, NEW s \in Splits, TaskStep(c, s) \/ TaskFails(c, s)
  PROVE  \A u \in Splits : inserted[u] \subseteq inserted'[u]
<1>1. CASE UNCHANGED sink
  BY <1>1 DEF sink
<1>2. CASE CommitBatch(c, s)
  <2>1. inserted' = [inserted EXCEPT ![s] = inserted[s] \cup BatchRows(c, s)]
    BY <1>2 DEF CommitBatch
  <2> QED BY <2>1 DEF TypeOK
<1> QED BY Zenon, <1>1, <1>2, TaskFrame

(* A task step keeps what is claimed of the store and of the Coordinators.  *)
LEMMA TaskStore ==
  ASSUME TypeOK, NoRowLost, CompletionIsWhole, EpochsGranted, ChainAgreement, FinishedAtEnd,
         \A u \in Splits : inserted'[u] \subseteq 1..RowCount[u],
         NEW c \in Coordinators, NEW s \in Splits, TaskStep(c, s) \/ TaskFails(c, s)
  PROVE  NoRowLost' /\ CompletionIsWhole' /\ EpochsGranted' /\ ChainAgreement' /\ FinishedAtEnd'
<1>1. UNCHANGED <<store, cpc, coord>> /\ \A u \in Splits : inserted[u] \subseteq inserted'[u]
  BY Zenon, TaskFrame, SinkGrows
<1>2. NoRowLost'
  BY Zenon, <1>1 DEF NoRowLost, store
<1>3. CompletionIsWhole'
  BY <1>1, Zenon DEF CompletionIsWhole, store
<1>4. EpochsGranted' /\ ChainAgreement' /\ FinishedAtEnd'
  BY Zenon, <1>1 DEF EpochsGranted, ChainAgreement, FinishedAtEnd, activeEpoch, store
<1> QED BY <1>2, <1>3, <1>4

(* A task step keeps every claimed row in the sink: a batch is claimed      *)
(* after connection.commit, or after its marker was found.                  *)
LEMMA TaskSink ==
  ASSUME TypeOK, TaskBounds, SinkHolds, EpochsGranted,
         NEW c \in Coordinators, NEW s \in Splits, TaskStep(c, s) \/ TaskFails(c, s)
  PROVE  SinkHolds'
<1>n. task[c][s] \in TaskSet /\ RowCount[s] \in Nat /\ coord[c].epoch \in Nat
  BY ExecutionAssumption DEF TypeOK, ContextSet
<1>b. BoundsOK(c, s) /\ task[c][s].pos <= RowCount[s]
  BY Zenon DEF TaskBounds, BoundsOK
<1>f. \A d \in Coordinators, u \in Splits : d # c \/ u # s =>
         tpc'[d][u] = tpc[d][u] /\ task'[d][u] = task[d][u] /\ link'[d][u] = link[d][u]
  BY TaskFrame, Zenon
<1>g. \A u \in Splits : inserted[u] \subseteq inserted'[u]
  BY SinkGrows
<1>c. CASE CommitBatch(c, s)
  <2>1. BatchRows(c, s) \subseteq 1..RowCount[s]
    BY <1>n, <1>b, <1>c DEF CommitBatch, BoundsOK, HoldsBatch, BatchRows, TaskSet
  <2>2. inserted' = [inserted EXCEPT ![s] = inserted[s] \cup BatchRows(c, s)]
    BY <1>c DEF CommitBatch
  <2>3. inserted'[s] = inserted[s] \cup BatchRows(c, s)
    BY <2>2 DEF TypeOK
  <2>4. \A u \in Splits : inserted'[u] \subseteq 1..RowCount[u]
    BY Zenon, <2>1, <2>2, <2>3 DEF TypeOK, SinkHolds
  <2>5. ASSUME NEW m \in markers' PROVE ExactlyOnce /\ m[3][1]..m[3][2] \subseteq inserted'[m[1]]
    <3>1. CASE m \in markers
      <4>1. ExactlyOnce /\ m[3][1]..m[3][2] \subseteq inserted[m[1]]
        BY <3>1, Zenon DEF SinkHolds
      <4>2. m[1] \in Splits
        BY Zenon, <3>1, <4>1 DEF TypeOK, TokenSet
      <4> QED BY Zenon, <4>1, <4>2, <1>g
    <3>2. CASE ExactlyOnce /\ m = NextToken(c, s)
      <4>1. m[1] = s /\ m[3] = BatchDigest(c, s)
        <5> DEFINE digest == BatchDigest(c, s)
                   number == task[c][s].seq + 1
        <5>1. m = CommitToken(c, s, number, digest)
          BY <3>2 DEF NextToken
        <5> HIDE DEF digest, number
        <5>2. m[1] = s /\ m[3] = digest
          BY <3>2, <5>1 DEF CommitToken
        <5> QED
          BY <5>2 DEF digest
      <4>2. m[3][1]..m[3][2] = BatchRows(c, s)
        BY <4>1 DEF BatchDigest, Digest, BatchRows
      <4> QED BY <4>1, <4>2, <3>2, <2>3, Zenon
    <3> QED BY <1>c, <2>5, <3>1, <3>2 DEF CommitBatch
  <2>6. /\ BatchRows(c, s)' = BatchRows(c, s)
        /\ task' = task
    BY <1>c DEF CommitBatch, BatchRows
  <2>7. ASSUME NEW d \in Coordinators, NEW u \in Splits
        PROVE  /\ 1..task'[d][u].pos \subseteq inserted'[u]
               /\ tpc'[d][u] = "written" => BatchRows(d, u)' \subseteq inserted'[u]
    <3>1. CASE d = c /\ u = s
      BY Zenon, <2>3, <2>6, <3>1, <1>g DEF SinkHolds
    <3>2. CASE d # c \/ u # s
      <4>1. tpc'[d][u] = tpc[d][u] /\ task'[d][u] = task[d][u]
        BY <1>f, <3>2, Zenon
      <4>2. /\ 1..task[d][u].pos \subseteq inserted[u]
            /\ tpc[d][u] = "written" => BatchRows(d, u) \subseteq inserted[u]
        BY Zenon DEF SinkHolds
      <4> QED BY <4>1, <4>2, <1>g, Zenon DEF BatchRows
    <3> QED BY Zenon, <3>1, <3>2
  <2>8. ASSUME NEW d \in Coordinators, cpc'[d] \in HoldsContext
        PROVE  1..coord'[d].pos \subseteq inserted'[coord'[d].split]
    <3>1. cpc' = cpc /\ coord' = coord
      BY TaskFrame, Zenon
    <3>2. coord[d].split \in Splits
      BY Zenon, <2>8, <3>1 DEF EpochsGranted, InSplit, HoldsContext
    <3> QED BY <2>8, <3>1, <3>2, <1>g, Zenon DEF SinkHolds
  <2> QED BY <2>4, <2>5, <2>7, <2>8, Zenon DEF SinkHolds
<1>d. CASE ~CommitBatch(c, s)
  <2>1. UNCHANGED <<cpc, coord, inserted, markers>>
    BY <1>d, TaskFrame, Zenon DEF sink
  <2>2. ASSUME NEW d \in Coordinators, NEW u \in Splits, d # c \/ u # s
        PROVE  /\ 1..task'[d][u].pos \subseteq inserted'[u]
               /\ tpc'[d][u] = "written" => BatchRows(d, u)' \subseteq inserted'[u]
    <3>1. tpc'[d][u] = tpc[d][u] /\ task'[d][u] = task[d][u]
      BY <1>f, <2>2, Zenon
    <3>2. /\ 1..task[d][u].pos \subseteq inserted[u]
          /\ tpc[d][u] = "written" => BatchRows(d, u) \subseteq inserted[u]
      BY Zenon DEF SinkHolds
    <3> QED BY <2>1, <3>1, <3>2, Zenon DEF BatchRows
  <2>3. /\ 1..task'[c][s].pos \subseteq inserted'[s]
        /\ tpc'[c][s] = "written" => BatchRows(c, s)' \subseteq inserted'[s]
    <3>h. 1..task[c][s].pos \subseteq inserted[s]
      BY Zenon DEF SinkHolds
    <3>1. CASE Reports(c, s)
      <4>1. task'[c][s].pos = task[c][s].pos + task[c][s].size /\ tpc'[c][s] = "await"
        BY <3>1, <1>n DEF Reports, TaskSet
      <4>2. BatchRows(c, s) \subseteq inserted[s]
        BY <3>1 DEF Reports, SinkHolds
      <4>3. task[c][s].pos \in Nat /\ task[c][s].size \in Nat
        BY <1>n DEF TaskSet
      <4>4. \A r \in 1..(task[c][s].pos + task[c][s].size) :
               r \in 1..task[c][s].pos \/ r \in BatchRows(c, s)
        BY <4>3 DEF BatchRows
      <4> QED BY Zenon, <2>1, <3>h, <4>1, <4>2, <4>4
    <3>2. CASE Gives(c, s, "lookup", "written") /\ NextToken(c, s) \in markers
      <4>1. ExactlyOnce
        BY Zenon, <3>2 DEF SinkHolds
      <4>2. NextToken(c, s)[1] = s /\ NextToken(c, s)[3] = BatchDigest(c, s)
        BY Zenon, <4>1 DEF NextToken, CommitToken
      <4>3. BatchDigest(c, s)[1]..BatchDigest(c, s)[2] = BatchRows(c, s)
        BY DEF BatchDigest, Digest, BatchRows
      <4>4. BatchRows(c, s) \subseteq inserted[s]
        BY <3>2, <4>2, <4>3, Zenon DEF SinkHolds
      <4>5. BatchRows(c, s)' = BatchRows(c, s) /\ task'[c][s] = task[c][s]
        BY Zenon, <3>2 DEF Gives, BatchRows
      <4> QED BY Zenon, <2>1, <3>h, <4>4, <4>5
    <3>3. CASE task'[c][s].pos = task[c][s].pos /\ tpc'[c][s] # "written"
      BY Zenon, <2>1, <3>3, <3>h
    <3> QED BY <1>b, <1>d, <3>1, <3>2, <3>3, TaskMove, Zenon DEF Gives, Leaves, Reads
  <2> QED BY <2>1, <2>2, <2>3, Zenon DEF SinkHolds
<1> QED BY <1>c, <1>d

-------------------------------------------------------------------------------
(* A Coordinator step changes neither the Workers nor the sink nor another  *)
(* Coordinator.                                                             *)
LEMMA CoordinatorFrame ==
  ASSUME TypeOK, NEW c \in Coordinators, CoordinatorStep(c) \/ CoordinatorCrash(c)
  PROVE  /\ UNCHANGED <<fence, crashes, sink>>
         /\ \A d \in Coordinators : d # c =>
               /\ cpc'[d] = cpc[d] /\ coord'[d] = coord[d]
               /\ tpc'[d] = tpc[d] /\ task'[d] = task[d] /\ link'[d] = link[d]
<1>t. /\ cpc \in [Coordinators -> CoordinatorRunning \cup {"done", "failed"}]
      /\ coord \in [Coordinators -> ContextSet]
      /\ tpc \in [Coordinators -> [Splits -> TaskOnWorker \cup {"idle", "gone"}]]
      /\ task \in [Coordinators -> [Splits -> TaskSet]]
      /\ link \in [Coordinators -> [Splits -> Messages]]
  BY DEF TypeOK
<1> USE DEF Goto
<1>1. CASE AcquireEpoch(c)
  BY <1>1, <1>t DEF AcquireEpoch
<1>2. CASE AcquireFails(c)
  BY <1>2, <1>t DEF AcquireFails
<1>3. CASE LoadCompletion(c)
  BY <1>3, <1>t DEF LoadCompletion
<1>4. CASE Load(c)
  BY <1>4, <1>t DEF Load
<1>5. CASE SendRequest(c)
  BY <1>5, <1>t DEF SendRequest
<1>6. CASE RecordProgress(c)
  BY <1>6, <1>t DEF RecordProgress
<1>7. CASE ProgressFails(c)
  BY <1>7, <1>t DEF ProgressFails
<1>8. CASE ReceiveResult(c)
  BY Zenon, <1>8, <1>t DEF ReceiveResult
<1>9. CASE RecordCompletion(c)
  BY <1>9, <1>t DEF RecordCompletion
<1>10. CASE CompletionFails(c)
  BY <1>10, <1>t DEF CompletionFails
<1>11. CASE RunReturns(c)
  BY <1>11, <1>t DEF RunReturns
<1>12. CASE CoordinatorCrash(c)
  BY <1>12, <1>t DEF CoordinatorCrash
<1> QED BY <1>1, <1>2, <1>3, <1>4, <1>5, <1>6, <1>7, <1>8, <1>9, <1>10, <1>11, <1>12, Zenon
        DEF CoordinatorStep

(* What a step of a Coordinator does to itself, location by location.       *)
Moves(c, from, to) == cpc[c] = from /\ cpc'[c] = to

SameTasks(c) == tpc'[c] = tpc[c] /\ task'[c] = task[c] /\ link'[c] = link[c]

Acquires(c) ==
    /\ Moves(c, "start", "completion")
    /\ AcquireAccepted(RequestedEpoch[c])
    /\ nextExecutionEpoch' = GrantedEpoch(RequestedEpoch[c]) + 1
    /\ UNCHANGED <<records, completedSplits>>
    /\ coord'[c] = [coord[c] EXCEPT !.epoch = GrantedEpoch(RequestedEpoch[c])]
    /\ SameTasks(c)

Skips(c) ==
    /\ Moves(c, "completion", "completion")
    /\ coord[c].split \in Splits
    /\ completedSplits[coord[c].split] # NoCompletion
    /\ coord'[c] = [coord[c] EXCEPT !.split = coord[c].split + 1]
    /\ UNCHANGED store /\ SameTasks(c)

Loads(c) ==
    LET r == records[coord[c].split] IN
    /\ Moves(c, "load", "send")
    /\ coord'[c] = [coord[c] EXCEPT !.seq = r.seq, !.pos = r.pos]
    /\ UNCHANGED store /\ SameTasks(c)

Sends(c) ==
    LET s == coord[c].split IN
    /\ Moves(c, "send", "await")
    /\ coord'[c] = coord[c]
    /\ UNCHANGED store
    /\ tpc'[c][s] = "accept" /\ link'[c][s] = "request"
    /\ task'[c][s] = [NoTask EXCEPT !.seq = coord[c].seq, !.pos = coord[c].pos, !.base = coord[c].seq]
    /\ \A u \in Splits \ {s} :
           tpc'[c][u] = tpc[c][u] /\ link'[c][u] = link[c][u] /\ task'[c][u] = task[c][u]

Records(c) ==
    LET s == coord[c].split IN
    /\ Moves(c, "await", "await")
    /\ link[c][s] = "progress" /\ link'[c][s] = "ack"
    /\ record(s, Progress(c, s))
    /\ coord'[c] = [coord[c] EXCEPT !.seq = task[c][s].seq, !.pos = task[c][s].pos]
    /\ tpc' = tpc /\ task' = task

Receives(c) ==
    LET s == coord[c].split IN
    /\ Moves(c, "await", "finish")
    /\ link[c][s] = "result"
    /\ coord'[c] = coord[c]
    /\ UNCHANGED <<store, tpc, task>>

Completes(c) ==
    LET s == coord[c].split IN
    /\ Moves(c, "finish", "completion")
    /\ recordCompletion(s, SplitCompletion(c))
    /\ coord'[c] = [coord[c] EXCEPT !.split = s + 1]
    /\ SameTasks(c)

(* Every other step only moves on, fails or returns.                        *)
MovesOn(c) ==
    /\ \/ Moves(c, "completion", "load") /\ coord[c].split \in Splits
       \/ Moves(c, "completion", "done") /\ coord[c].split \notin Splits
       \/ cpc'[c] = "failed"
    /\ coord'[c] = coord[c]
    /\ UNCHANGED <<store, tpc, task>>

(* The steps of a Coordinator, reduced to what they do to it, its tasks and *)
(* the store.                                                               *)
LEMMA CoordinatorMove ==
  ASSUME TypeOK, NEW c \in Coordinators, CoordinatorStep(c) \/ CoordinatorCrash(c),
         cpc[c] \in InSplit => coord[c].split \in Splits
  PROVE  \/ Acquires(c) \/ Skips(c) \/ Loads(c) \/ Sends(c) \/ Records(c)
         \/ Receives(c) \/ Completes(c) \/ MovesOn(c)
<1>t. /\ cpc \in [Coordinators -> CoordinatorRunning \cup {"done", "failed"}]
      /\ coord \in [Coordinators -> ContextSet]
  BY DEF TypeOK
<1>k. /\ tpc \in [Coordinators -> [Splits -> TaskOnWorker \cup {"idle", "gone"}]]
      /\ task \in [Coordinators -> [Splits -> TaskSet]]
      /\ link \in [Coordinators -> [Splits -> Messages]]
  BY DEF TypeOK
<1>g. ASSUME NEW pc, Goto(c, pc) PROVE cpc'[c] = pc
  BY <1>g, <1>t DEF Goto
<1>1. CASE AcquireEpoch(c)
  <2>1. coord'[c] = [coord[c] EXCEPT !.epoch = GrantedEpoch(RequestedEpoch[c])]
    BY <1>1, <1>t DEF AcquireEpoch
  <2> QED BY <1>1, <1>g, <2>1 DEF AcquireEpoch, acquireEpoch, Acquires, Moves, SameTasks
<1>2. CASE AcquireFails(c)
  BY Zenon, <1>2, <1>g DEF AcquireFails, MovesOn
<1>3. CASE LoadCompletion(c)
  <2>1. CASE completedSplits[coord[c].split] = NoCompletion
    BY <1>3, <1>g, <2>1 DEF LoadCompletion, MovesOn, Moves
  <2>2. CASE completedSplits[coord[c].split] # NoCompletion
    <3>1. coord'[c] = [coord[c] EXCEPT !.split = coord[c].split + 1]
      BY <1>3, <1>t, <2>2 DEF LoadCompletion
    <3> QED BY <1>3, <2>2, <3>1 DEF LoadCompletion, Skips, Moves, SameTasks
  <2> QED BY Zenon, <2>1, <2>2
<1>4. CASE Load(c)
  <2>1. coord'[c] = [coord[c] EXCEPT !.seq = records[coord[c].split].seq,
                                     !.pos = records[coord[c].split].pos]
    BY <1>4, <1>t DEF Load
  <2> QED BY <1>4, <1>g, <2>1 DEF Load, Loads, Moves, SameTasks
<1>5. CASE SendRequest(c)
  <2> DEFINE s == coord[c].split
  <2>0. s \in Splits
    BY <1>5 DEF SendRequest, InSplit
  <2>1. /\ tpc'[c][s] = "accept" /\ link'[c][s] = "request"
        /\ \A u \in Splits \ {s} : tpc'[c][u] = tpc[c][u] /\ link'[c][u] = link[c][u]
    BY <1>5, <1>k, <2>0 DEF SendRequest
  <2>2. /\ task'[c][s] = [NoTask EXCEPT !.seq = coord[c].seq, !.pos = coord[c].pos, !.base = coord[c].seq]
        /\ \A u \in Splits \ {s} : task'[c][u] = task[c][u]
    BY <1>5, <1>k, <2>0 DEF SendRequest
  <2> QED BY <1>5, <1>g, <2>1, <2>2 DEF SendRequest, Sends, Moves
<1>6. CASE RecordProgress(c)
  <2>0. coord[c].split \in Splits
    BY <1>6 DEF RecordProgress, InSplit
  <2>1. coord'[c] = [coord[c] EXCEPT !.seq = task[c][coord[c].split].seq,
                                     !.pos = task[c][coord[c].split].pos]
    BY <1>6, <1>t DEF RecordProgress
  <2>2. link'[c][coord[c].split] = "ack"
    BY <1>6, <1>k, <2>0 DEF RecordProgress
  <2> QED BY <1>6, <2>1, <2>2, Zenon DEF RecordProgress, Records, Moves
<1>7. CASE ProgressFails(c)
  BY Zenon, <1>7, <1>g DEF ProgressFails, MovesOn
<1>8. CASE ReceiveResult(c)
  BY <1>8, <1>g DEF ReceiveResult, Receives, Moves
<1>9. CASE RecordCompletion(c)
  <2>1. coord'[c] = [coord[c] EXCEPT !.split = coord[c].split + 1]
    BY <1>9, <1>t DEF RecordCompletion
  <2> QED BY <1>9, <1>g, <2>1 DEF RecordCompletion, Completes, Moves, SameTasks
<1>10. CASE CompletionFails(c)
  BY Zenon, <1>10, <1>g DEF CompletionFails, MovesOn
<1>11. CASE RunReturns(c)
  BY Zenon, <1>11, <1>g DEF RunReturns, MovesOn, Moves
<1>12. CASE CoordinatorCrash(c)
  BY Zenon, <1>12, <1>g DEF CoordinatorCrash, MovesOn
<1> QED BY Zenon, <1>1, <1>2, <1>3, <1>4, <1>5, <1>6, <1>7, <1>8, <1>9, <1>10, <1>11, <1>12
        DEF CoordinatorStep

(* acquireEpoch and the split loop of run: no Coordinator holds an epoch    *)
(* that was not granted or passes a split that is not complete.             *)
LEMMA CoordinatorEpochs ==
  ASSUME TypeOK, EpochsGranted, NEW c \in Coordinators, CoordinatorStep(c) \/ CoordinatorCrash(c)
  PROVE  EpochsGranted'
<1> DEFINE Granted(d) ==
        /\ coord[d].epoch < nextExecutionEpoch
        /\ cpc[d] \in InSplit => coord[d].split \in Splits
        /\ cpc[d] = "done" => coord[d].split = NumSplits + 1
        /\ \A s \in Splits : s < coord[d].split => completedSplits[s] # NoCompletion
<1>n. /\ coord \in [Coordinators -> ContextSet] /\ coord[c] \in ContextSet
      /\ nextExecutionEpoch \in Nat \ {0}
      /\ RequestedEpoch[c] \in Nat
  BY ExecutionAssumption DEF TypeOK
<1>h. \A d \in Coordinators : Granted(d)
  BY DEF EpochsGranted
<1>m. \/ Acquires(c) \/ Skips(c) \/ Loads(c) \/ Sends(c) \/ Records(c)
      \/ Receives(c) \/ Completes(c) \/ MovesOn(c)
  BY Zenon, CoordinatorMove DEF EpochsGranted
<1>1. nextExecutionEpoch' \in {nextExecutionEpoch, nextExecutionEpoch + 1}
  <2>1. CASE Acquires(c)
    BY <2>1, <1>n DEF Acquires, AcquireAccepted, GrantedEpoch, activeEpoch
  <2>2. CASE ~Acquires(c)
    BY <2>2, <1>m, Zenon DEF Skips, Loads, Sends, Records, Receives, Completes, MovesOn, store,
                      record, recordCompletion
  <2> QED BY <2>1, <2>2
<1>2. \A s \in Splits : completedSplits[s] # NoCompletion => completedSplits'[s] # NoCompletion
  <2>1. CASE Completes(c)
    <3>1. SplitCompletion(c) # NoCompletion
      BY Zenon DEF SplitCompletion, NoCompletion
    <3> QED BY <2>1, <3>1 DEF Completes, recordCompletion, TypeOK
  <2>2. CASE ~Completes(c)
    BY Zenon, <2>2, <1>m DEF Acquires, Skips, Loads, Sends, Records, Receives, MovesOn, store, record
  <2> QED BY <2>1, <2>2
<1>3. ASSUME NEW d \in Coordinators, d # c PROVE Granted(d)'
  <2>1. coord'[d] = coord[d] /\ cpc'[d] = cpc[d]
    BY <1>3, CoordinatorFrame
  <2>2. coord[d].epoch \in Nat
    BY <1>n DEF ContextSet
  <2> QED BY <1>n, <1>h, <1>1, <1>2, <2>1, <2>2
<1>4. Granted(c)'
  <2>e. /\ coord[c].epoch \in Nat /\ coord[c].split \in 1..(NumSplits + 1)
        /\ coord[c].epoch < nextExecutionEpoch
    BY <1>n, <1>h DEF ContextSet
  <2>1. CASE Acquires(c)
    <3>1. /\ coord'[c].epoch = GrantedEpoch(RequestedEpoch[c])
          /\ coord'[c].split = coord[c].split
          /\ nextExecutionEpoch' = GrantedEpoch(RequestedEpoch[c]) + 1
          /\ cpc'[c] = "completion"
      BY <2>1, <1>n DEF Acquires, Moves, ContextSet
    <3>2. GrantedEpoch(RequestedEpoch[c]) \in Nat
      BY <1>n DEF GrantedEpoch
    <3> QED BY <3>1, <3>2, <1>h, <1>2 DEF InSplit
  <2>2. CASE Skips(c)
    <3>1. /\ coord'[c].epoch = coord[c].epoch /\ coord'[c].split = coord[c].split + 1
          /\ cpc'[c] = "completion" /\ completedSplits' = completedSplits
          /\ completedSplits[coord[c].split] # NoCompletion
      BY <2>2, <1>n DEF Skips, Moves, ContextSet, store
    <3>2. \A s \in Splits : s < coord[c].split + 1 => s < coord[c].split \/ s = coord[c].split
      BY <2>e DEF Splits
    <3> QED BY <3>1, <3>2, <1>h, <1>1, <1>n, <2>e DEF InSplit
  <2>3. CASE Completes(c)
    <3>1. /\ coord'[c].epoch = coord[c].epoch /\ coord'[c].split = coord[c].split + 1
          /\ cpc'[c] = "completion"
      BY <2>3, <1>n DEF Completes, Moves, ContextSet
    <3>2. \A s \in Splits : s < coord[c].split + 1 => s < coord[c].split \/ s = coord[c].split
      BY <2>e DEF Splits
    <3>3. coord[c].split \in Splits => completedSplits'[coord[c].split] # NoCompletion
      BY <2>3, Zenon DEF Completes, recordCompletion, SplitCompletion, NoCompletion, TypeOK
    <3>4. nextExecutionEpoch' = nextExecutionEpoch
      BY <2>3 DEF Completes, recordCompletion
    <3> QED BY Zenon, <3>1, <3>2, <3>3, <3>4, <1>h, <1>2, <2>e DEF InSplit
  <2>4. CASE Loads(c) \/ Sends(c) \/ Records(c) \/ Receives(c)
    <3>1. /\ coord'[c].epoch = coord[c].epoch /\ coord'[c].split = coord[c].split
          /\ cpc[c] \in InSplit /\ cpc'[c] \in InSplit
          /\ nextExecutionEpoch' = nextExecutionEpoch /\ completedSplits' = completedSplits
      BY <2>4, <1>n, Zenon DEF Loads, Sends, Records, record, Receives, Moves, ContextSet, InSplit, store
    <3> QED BY Zenon, <3>1, <1>h DEF InSplit
  <2>5. CASE MovesOn(c)
    <3>1. /\ coord'[c] = coord[c] /\ UNCHANGED store
          /\ \/ cpc'[c] = "load" /\ coord[c].split \in Splits
             \/ cpc'[c] = "done" /\ coord[c].split \notin Splits
             \/ cpc'[c] = "failed"
      BY Zenon, <2>5 DEF MovesOn, Moves
    <3>2. coord[c].split \notin Splits => coord[c].split = NumSplits + 1
      BY <2>e, NumSplitsAssumption DEF Splits
    <3> QED BY Zenon, <3>1, <3>2, <1>h DEF InSplit, store
  <2> QED BY Zenon, <1>m, <2>1, <2>2, <2>3, <2>4, <2>5
<1> QED BY Zenon, <1>3, <1>4 DEF EpochsGranted

(* Comparisons the steps below rest on.                                     *)
LEMMA Comparisons ==
  /\ \A a \in Nat : a <= a
  /\ \A a, b \in Nat : a <= b => a <= b + 1 /\ a # b + 1
  /\ \A a, b \in Nat : 1..a \subseteq 1..b => a <= b
  /\ \A a \in Nat : (a + 1) - 1 = a
  /\ \A a, b \in Nat : a + 1 = b + 1 => a = b
<1>1. ASSUME NEW a \in Nat, NEW b \in Nat, 1..a \subseteq 1..b PROVE a <= b
  <2>1. a = 0 \/ a \in 1..a
    OBVIOUS
  <2> QED BY <1>1, <2>1
<1> QED BY <1>1

(* The checks of FileCheckpointStore.record keep one chain of records per   *)
(* active epoch.                                                            *)
LEMMA CoordinatorChain ==
  ASSUME TypeOK, EpochsGranted, ChainAgreement, NEW c \in Coordinators,
         CoordinatorStep(c) \/ CoordinatorCrash(c)
  PROVE  ChainAgreement'
<1> DEFINE Chain(d) ==
        cpc[d] \in HoldsContext /\ coord[d].epoch = activeEpoch =>
            LET r == records[coord[d].split] IN
            /\ coord[d].seq <= r.seq
            /\ coord[d].seq = r.seq => coord[d].pos = r.pos
<1>n. /\ coord \in [Coordinators -> ContextSet] /\ coord[c] \in ContextSet
      /\ nextExecutionEpoch \in Nat \ {0}
      /\ RequestedEpoch[c] \in Nat
      /\ records \in [Splits -> RecordSet]
  BY ExecutionAssumption DEF TypeOK
<1>h. \A d \in Coordinators : Chain(d)
  BY Zenon DEF ChainAgreement
<1>m. \/ Acquires(c) \/ Skips(c) \/ Loads(c) \/ Sends(c) \/ Records(c)
      \/ Receives(c) \/ Completes(c) \/ MovesOn(c)
  BY Zenon, CoordinatorMove DEF EpochsGranted
<1>s. \A d \in Coordinators : /\ coord[d].epoch \in Nat /\ coord[d].seq \in Nat
                              /\ coord[d].epoch < nextExecutionEpoch
                              /\ cpc[d] \in HoldsContext => coord[d].split \in Splits
  BY Zenon, <1>n DEF ContextSet, EpochsGranted, InSplit, HoldsContext
<1>o. \A d \in Coordinators : d # c => cpc'[d] = cpc[d] /\ coord'[d] = coord[d]
  BY Zenon, CoordinatorFrame
<1>1. CASE Acquires(c)
  <2>1. ~(cpc'[c] \in HoldsContext) /\ records' = records
    BY <1>1 DEF Acquires, Moves, HoldsContext
  <2>2. nextExecutionEpoch' \in {nextExecutionEpoch, nextExecutionEpoch + 1}
    BY <1>1, <1>n DEF Acquires, AcquireAccepted, GrantedEpoch, activeEpoch
  <2>3. ASSUME NEW d \in Coordinators, d # c PROVE Chain(d)'
    <3>1. activeEpoch' = activeEpoch \/ activeEpoch' = nextExecutionEpoch
      BY Zenon, <2>2, <1>n, Comparisons DEF activeEpoch
    <3>2. coord[d].epoch # nextExecutionEpoch
      BY <1>n, <1>s
    <3> QED BY Zenon, <2>1, <2>3, <3>1, <3>2, <1>h, <1>o
  <2> QED BY Zenon, <2>1, <2>3 DEF ChainAgreement
<1>2. CASE Records(c)
  <2> DEFINE s == coord[c].split
             p == Progress(c, s)
  <2>1. s \in Splits
    BY <1>2, <1>s DEF Records, Moves, HoldsContext
  <2>2. task[c][s] \in TaskSet /\ p \in RecordSet
    BY Zenon, <2>1, ProgressType DEF TypeOK
  <2>3. p.seq = task[c][s].seq /\ p.pos = task[c][s].pos
    BY Zenon DEF Progress
  <2>4. /\ records' = [records EXCEPT ![s] = p] /\ nextExecutionEpoch' = nextExecutionEpoch
        /\ p = records[s] \/ p.seq = records[s].seq + 1
    BY <1>2 DEF Records, record, RecordAccepted
  <2>5. records[s].seq \in Nat
    BY <1>n, <2>1 DEF RecordSet
  <2> HIDE DEF p
  <2>6. records'[s] = p /\ \A u \in Splits : u # s => records'[u] = records[u]
    BY Zenon, <2>1, <2>4, <1>n
  <2>7. ASSUME NEW d \in Coordinators, d # c PROVE Chain(d)'
    <3>0. activeEpoch' = activeEpoch /\ cpc'[d] = cpc[d] /\ coord'[d] = coord[d]
      BY Zenon, <2>4, <2>7, <1>o DEF activeEpoch
    <3>1. CASE cpc[d] \in HoldsContext /\ coord[d].split = s
      <4>0. /\ coord[d].epoch = activeEpoch => coord[d].seq <= records[s].seq
            /\ coord[d].epoch = activeEpoch /\ coord[d].seq = records[s].seq => coord[d].pos = records[s].pos
        BY Zenon, <3>1, <1>h
      <4>1. /\ coord[d].epoch = activeEpoch => coord[d].seq <= p.seq
            /\ coord[d].epoch = activeEpoch /\ coord[d].seq = p.seq => coord[d].pos = p.pos
        <5>1. CASE p = records[s]
          BY Zenon, <4>0, <5>1
        <5>2. CASE p.seq = records[s].seq + 1
          <6>1. coord[d].seq \in Nat
            BY Zenon, <1>s
          <6>2. coord[d].epoch = activeEpoch =>
                    coord[d].seq <= records[s].seq + 1 /\ coord[d].seq # records[s].seq + 1
            BY Zenon, <4>0, <6>1, <2>5, Comparisons
          <6> QED BY Zenon, <6>2, <5>2
        <5> QED BY Zenon, <2>4, <5>1, <5>2
      <4>2. records'[coord'[d].split] = p
        BY Zenon, <3>0, <3>1, <2>6
      <4> QED BY Zenon, <3>0, <4>1, <4>2
    <3>2. CASE cpc[d] \in HoldsContext /\ coord[d].split # s
      <4>1. records'[coord[d].split] = records[coord[d].split]
        BY Zenon, <3>2, <2>6, <1>s
      <4> QED BY Zenon, <3>0, <4>1, <1>h
    <3>3. CASE ~(cpc[d] \in HoldsContext)
      BY Zenon, <3>3, <2>7, <1>o
    <3> QED BY Zenon, <3>1, <3>2, <3>3
  <2>8. coord'[c].seq = p.seq /\ coord'[c].pos = p.pos /\ coord'[c].split = s
    BY <1>2, <1>n, <2>3 DEF Records, ContextSet
  <2>9. Chain(c)'
    <3>1. p.seq \in Nat
      BY <2>2 DEF RecordSet
    <3> QED BY <2>6, <2>8, <3>1
  <2> QED BY Zenon, <2>7, <2>9 DEF ChainAgreement
<1>3. CASE ~Acquires(c) /\ ~Records(c)
  <2>1. nextExecutionEpoch' = nextExecutionEpoch /\ records' = records
    BY <1>3, <1>m DEF Skips, Loads, Sends, Receives, Completes, MovesOn, store, recordCompletion
  <2>2. ASSUME NEW d \in Coordinators, d # c PROVE Chain(d)'
    BY Zenon, <2>1, <2>2, <1>h, <1>o DEF activeEpoch
  <2>3. CASE Loads(c)
    <3>1. /\ coord'[c].split = coord[c].split /\ cpc[c] = "load"
          /\ coord'[c].seq = records[coord[c].split].seq
          /\ coord'[c].pos = records[coord[c].split].pos
      BY <2>3, <1>n DEF Loads, Moves, ContextSet
    <3>2. records[coord[c].split].seq \in Nat
      BY Zenon, <3>1, <1>n DEF EpochsGranted, InSplit, RecordSet
    <3>3. Chain(c)'
      BY Zenon, <2>1, <3>1, <3>2, Comparisons
    <3> QED BY Zenon, <2>2, <3>3 DEF ChainAgreement
  <2>4. CASE Sends(c) \/ Receives(c)
    BY <2>1, <2>2, <2>4, <1>h, ZenonT(60) DEF ChainAgreement, Sends, Receives, Moves, HoldsContext, activeEpoch
  <2>5. CASE Skips(c) \/ Completes(c) \/ MovesOn(c)
    BY Zenon, <2>2, <2>5 DEF ChainAgreement, Skips, Completes, MovesOn, Moves, HoldsContext
  <2> QED BY <1>m, <1>3, <2>3, <2>4, <2>5
<1> QED BY <1>1, <1>2, <1>3

(* A Coordinator step keeps the other conjuncts: a record is of delivered   *)
(* rows, a completion is at the last row.                                   *)
LEMMA CoordinatorRest ==
  ASSUME IInv, NEW c \in Coordinators, CoordinatorStep(c) \/ CoordinatorCrash(c)
  PROVE  /\ NoRowLost' /\ CompletionIsWhole' /\ LinkAgreement'
         /\ FinishedAtEnd' /\ TaskBounds' /\ SinkHolds'
<1>h. /\ TypeOK /\ EpochsGranted /\ NoRowLost /\ CompletionIsWhole /\ LinkAgreement
      /\ FinishedAtEnd /\ TaskBounds /\ SinkHolds /\ ChainAgreement
  BY DEF IInv
<1>n. /\ coord \in [Coordinators -> ContextSet] /\ coord[c] \in ContextSet
      /\ records \in [Splits -> RecordSet]
      /\ completedSplits \in [Splits -> CompletionSet]
  BY Zenon, <1>h DEF TypeOK
<1>m. \/ Acquires(c) \/ Skips(c) \/ Loads(c) \/ Sends(c) \/ Records(c)
      \/ Receives(c) \/ Completes(c) \/ MovesOn(c)
  BY Zenon, <1>h, CoordinatorMove DEF EpochsGranted
<1>f. /\ UNCHANGED <<inserted, markers>>
      /\ \A d \in Coordinators : d # c =>
               /\ cpc'[d] = cpc[d] /\ coord'[d] = coord[d]
               /\ tpc'[d] = tpc[d] /\ task'[d] = task[d] /\ link'[d] = link[d]
  BY Zenon, <1>h, CoordinatorFrame DEF sink
<1> DEFINE s == coord[c].split
<1>s. cpc[c] \in InSplit => s \in Splits
  BY Zenon, <1>h DEF EpochsGranted
<1>r. ASSUME Records(c)
      PROVE  /\ s \in Splits
             /\ records' = [records EXCEPT ![s] = Progress(c, s)]
             /\ Progress(c, s).pos = task[c][s].pos
             /\ completedSplits[s] = NoCompletion
             /\ completedSplits' = completedSplits
  BY <1>r, <1>s, Zenon DEF Records, Moves, InSplit, record, RecordAccepted, Progress
<1>a. ASSUME ~Records(c) PROVE records' = records
  BY <1>a, <1>m DEF Acquires, Skips, Loads, Sends, Receives, Completes, MovesOn, store, recordCompletion
<1>b. ASSUME ~Completes(c) PROVE completedSplits' = completedSplits
  BY <1>b, <1>m, Zenon DEF Acquires, Skips, Loads, Sends, Records, Receives, MovesOn, store, record
<1>1. NoRowLost'
  <2>1. CASE Records(c)
    <3>1. 1..task[c][s].pos \subseteq inserted[s]
      BY <1>h, <1>r, <2>1, Zenon DEF SinkHolds
    <3> QED BY <1>h, <1>n, <1>f, <1>r, <2>1, <3>1, Zenon DEF NoRowLost
  <2>2. CASE ~Records(c)
    BY Zenon, <2>2, <1>a, <1>f, <1>h DEF NoRowLost
  <2> QED BY <2>1, <2>2
<1>2. CompletionIsWhole'
  <2>1. CASE Records(c)
    <3>1. \A u \in Splits : completedSplits'[u] # NoCompletion => records'[u] = records[u]
      BY Zenon, <1>n, <1>r, <2>1
    <3> QED BY Zenon, <1>h, <1>f, <1>r, <2>1, <3>1 DEF CompletionIsWhole
  <2>2. CASE Completes(c)
    <3>1. s \in Splits /\ coord[c].pos = RowCount[s]
      BY <2>2, <1>s, <1>h DEF Completes, Moves, InSplit, FinishedAtEnd
    <3>2. /\ records' = records /\ completedSplits' = [completedSplits EXCEPT ![s] = SplitCompletion(c)]
          /\ coord[c].epoch = activeEpoch
          /\ completedSplits[s] = SplitCompletion(c) \/ coord[c].seq = records[s].seq
      BY <2>2 DEF Completes, recordCompletion, CompletionAccepted, SplitCompletion
    <3>3. records[s].pos = RowCount[s] /\ inserted[s] = 1..RowCount[s]
      <4>1. CASE completedSplits[s] = SplitCompletion(c)
        <5>1. SplitCompletion(c) # NoCompletion
          BY Zenon DEF SplitCompletion, NoCompletion
        <5> QED BY Zenon, <1>h, <3>1, <4>1, <5>1 DEF CompletionIsWhole
      <4>2. CASE coord[c].seq = records[s].seq
        <5>1. records[s].pos = RowCount[s]
          BY <1>h, <2>2, <3>1, <3>2, <4>2 DEF Completes, Moves, ChainAgreement, HoldsContext
        <5> QED BY <1>h, <3>1, <5>1, Zenon DEF NoRowLost, SinkHolds
      <4> QED BY <3>2, <4>1, <4>2, Zenon
    <3> QED BY <1>h, <1>n, <1>f, <3>1, <3>2, <3>3, Zenon DEF CompletionIsWhole
  <2>3. CASE ~Records(c) /\ ~Completes(c)
    BY Zenon, <2>3, <1>a, <1>b, <1>f, <1>h DEF CompletionIsWhole
  <2> QED BY <2>1, <2>2, <2>3
<1>3. LinkAgreement'
  <2>1. ASSUME NEW d \in Coordinators, d # c, cpc'[d] = "await" PROVE LinkOK(d)'
    <3>1. cpc[d] = "await" /\ coord'[d] = coord[d]
          /\ tpc'[d] = tpc[d] /\ task'[d] = task[d] /\ link'[d] = link[d]
      BY <2>1, <1>f, Zenon
    <3>2. LinkOK(d)
      BY <3>1, <1>h, Zenon DEF LinkAgreement
    <3> QED BY <3>1, <3>2, Zenon DEF LinkOK
  <2>2. ASSUME cpc'[c] = "await" PROVE LinkOK(c)'
    <3>1. CASE Sends(c)
      <4>1. task'[c][s].seq = coord[c].seq /\ task'[c][s].pos = coord[c].pos
        BY <3>1 DEF Sends, NoTask
      <4>2. coord'[c] = coord[c] /\ tpc'[c][s] = "accept" /\ link'[c][s] = "request"
        BY <3>1 DEF Sends
      <4> QED BY Zenon, <4>1, <4>2 DEF LinkOK, TaskWorking
    <3>2. CASE Records(c)
      <4>1. LinkOK(c) /\ link[c][s] = "progress"
        BY <3>2, <1>h DEF Records, Moves, LinkAgreement
      <4>2. /\ coord'[c].split = s /\ coord'[c].seq = task[c][s].seq /\ coord'[c].pos = task[c][s].pos
            /\ tpc' = tpc /\ task' = task /\ link'[c][s] = "ack"
        BY <3>2, <1>n DEF Records, ContextSet
      <4> QED BY <4>1, <4>2, Zenon DEF LinkOK, TaskWorking
    <3> QED BY <1>m, <2>2, <3>1, <3>2 DEF Acquires, Skips, Loads, Receives, Completes, MovesOn, Moves
  <2> QED BY <2>1, <2>2 DEF LinkAgreement
<1>4. FinishedAtEnd'
  <2>1. CASE Receives(c)
    <3>1. LinkOK(c) /\ link[c][s] = "result" /\ coord'[c] = coord[c]
      BY Zenon, <2>1, <1>h DEF Receives, Moves, LinkAgreement
    <3>2. coord[c].pos = RowCount[s]
      BY <3>1, Zenon DEF LinkOK
    <3> QED BY <1>f, <1>h, <3>1, <3>2, ZenonT(60) DEF FinishedAtEnd
  <2>2. CASE ~Receives(c)
    <3>1. cpc'[c] # "finish"
      BY Zenon, <2>2, <1>m DEF Acquires, Skips, Loads, Sends, Records, Completes, MovesOn, Moves
    <3> QED BY <1>f, <1>h, <3>1, Zenon DEF FinishedAtEnd
  <2> QED BY <2>1, <2>2
<1>5. ASSUME Sends(c)
      PROVE  /\ s \in Splits /\ 1..coord[c].pos \subseteq inserted[s]
             /\ task'[c][s].pos = coord[c].pos /\ tpc'[c][s] = "accept"
             /\ coord[c].pos <= RowCount[s]
  <2>1. s \in Splits /\ 1..coord[c].pos \subseteq inserted[s]
    BY <1>5, <1>h, <1>s DEF Sends, Moves, InSplit, SinkHolds, HoldsContext
  <2>2. task'[c][s].pos = coord[c].pos /\ tpc'[c][s] = "accept"
    BY <1>5 DEF Sends, NoTask
  <2>3. coord[c].pos \in Nat /\ RowCount[s] \in Nat
    BY Zenon, <1>n, <2>1, ExecutionAssumption DEF ContextSet
  <2>4. 1..coord[c].pos \subseteq 1..RowCount[s]
    BY <2>1, <1>h, Zenon DEF SinkHolds
  <2>5. coord[c].pos <= RowCount[s]
    BY Zenon, <2>3, <2>4, Comparisons
  <2> QED BY Zenon, <2>1, <2>2, <2>5
<1>6. ASSUME ~Sends(c) PROVE tpc'[c] = tpc[c] /\ task'[c] = task[c]
  BY <1>6, <1>m DEF Acquires, Skips, Loads, Records, Receives, Completes, MovesOn, SameTasks
<1>7. TaskBounds'
  <2>1. ASSUME NEW d \in Coordinators, NEW u \in Splits PROVE BoundsOK(d, u)'
    <3>1. CASE Sends(c) /\ d = c /\ u = s
      <4>1. task'[d][u].pos = coord[c].pos /\ tpc'[d][u] = "accept" /\ coord[c].pos <= RowCount[u]
        BY <3>1, <1>5, Zenon
      <4>2. task'[d][u].pos <= RowCount[u]
        BY <4>1, Zenon
      <4>3. tpc'[d][u] \notin HoldsBatch /\ tpc'[d][u] # "await" /\ tpc'[d][u] # "close"
        BY <4>1 DEF HoldsBatch
      <4> QED BY <4>2, <4>3, Zenon DEF BoundsOK
    <3>2. CASE ~(Sends(c) /\ d = c /\ u = s)
      <4>1. tpc'[d][u] = tpc[d][u] /\ task'[d][u] = task[d][u]
        BY <3>2, <1>f, <1>6 DEF Sends
      <4>2. BoundsOK(d, u)
        BY Zenon, <1>h DEF TaskBounds
      <4> QED BY Zenon, <4>1, <4>2 DEF BoundsOK
    <3> QED BY <3>1, <3>2
  <2> QED BY <2>1 DEF TaskBounds
<1>8. SinkHolds'
  <2>1. ASSUME NEW d \in Coordinators, NEW u \in Splits
        PROVE  /\ 1..task'[d][u].pos \subseteq inserted'[u]
               /\ tpc'[d][u] = "written" => BatchRows(d, u)' \subseteq inserted'[u]
    <3>1. CASE Sends(c) /\ d = c /\ u = s
      BY <3>1, <1>5, <1>f, Zenon
    <3>2. CASE ~(Sends(c) /\ d = c /\ u = s)
      <4>1. tpc'[d][u] = tpc[d][u] /\ task'[d][u] = task[d][u]
        BY <3>2, <1>f, <1>6 DEF Sends
      <4> QED BY <4>1, <1>f, <1>h, ZenonT(60) DEF SinkHolds, BatchRows
    <3> QED BY <3>1, <3>2, Zenon
  <2>2. ASSUME NEW d \in Coordinators, cpc'[d] \in HoldsContext
        PROVE  1..coord'[d].pos \subseteq inserted'[coord'[d].split]
    <3>1. CASE d # c
      BY <2>2, <3>1, <1>f, <1>h, Zenon DEF SinkHolds
    <3>2. CASE d = c /\ Loads(c)
      <4>1. s \in Splits /\ coord'[c].split = s /\ coord'[c].pos = records[s].pos
        BY <3>2, <1>n, <1>s DEF Loads, Moves, InSplit, ContextSet
      <4> QED BY <3>2, <4>1, <1>f, <1>h, Zenon DEF NoRowLost
    <3>3. CASE d = c /\ Records(c)
      <4>1. s \in Splits /\ coord'[c].split = s /\ coord'[c].pos = task[c][s].pos
        BY <3>3, <1>n, <1>r DEF Records, ContextSet
      <4>2. 1..task[c][s].pos \subseteq inserted[s]
        BY Zenon, <4>1, <1>h DEF SinkHolds
      <4> QED BY Zenon, <3>3, <4>1, <4>2, <1>f
    <3>4. CASE d = c /\ (Sends(c) \/ Receives(c))
      BY Zenon, <3>4, <1>f, <1>h DEF Sends, Receives, Moves, HoldsContext, SinkHolds
    <3> QED BY <1>m, <2>2, <3>1, <3>2, <3>3, <3>4
            DEF Acquires, Skips, Completes, MovesOn, Moves, HoldsContext
  <2> QED BY <2>1, <2>2, <1>f, <1>h, Zenon DEF SinkHolds
<1> QED BY <1>1, <1>2, <1>3, <1>4, <1>7, <1>8

(* Replacing a Worker process keeps the invariant.                          *)
LEMMA CrashRest ==
  ASSUME IInv, NEW w \in Workers, WorkerCrash(w)
  PROVE  IInv'
<1>h. /\ TypeOK /\ EpochsGranted /\ NoRowLost /\ CompletionIsWhole /\ LinkAgreement
      /\ FinishedAtEnd /\ TaskBounds /\ SinkHolds /\ ChainAgreement
  BY DEF IInv
<1>f. UNCHANGED <<store, cpc, coord, task, link, inserted, markers>>
  BY DEF WorkerCrash, sink
<1>t. \A c \in Coordinators, s \in Splits : tpc'[c][s] \in {tpc[c][s], "gone"}
  BY DEF WorkerCrash
<1>1. NoRowLost' /\ CompletionIsWhole' /\ FinishedAtEnd'
  BY Zenon, <1>f, <1>h DEF NoRowLost, CompletionIsWhole, FinishedAtEnd, store
<1>2. EpochsGranted' /\ ChainAgreement'
  BY <1>f, <1>h, Zenon DEF EpochsGranted, ChainAgreement, activeEpoch, store
<1>3. LinkAgreement'
  <2>1. ASSUME NEW c \in Coordinators, cpc[c] = "await" PROVE LinkOK(c)'
    <3>1. LinkOK(c) /\ coord[c].split \in Splits
      BY Zenon, <2>1, <1>h DEF LinkAgreement, EpochsGranted, InSplit
    <3> QED BY <3>1, <1>f, <1>t, Zenon DEF LinkOK, TaskWorking
  <2> QED BY <2>1, <1>f DEF LinkAgreement
<1>4. TaskBounds'
  <2>1. ASSUME NEW c \in Coordinators, NEW s \in Splits PROVE BoundsOK(c, s)'
    <3>1. BoundsOK(c, s) /\ task'[c][s] = task[c][s]
      BY Zenon, <1>f, <1>h DEF TaskBounds
    <3>2. CASE tpc'[c][s] = tpc[c][s]
      BY Zenon, <3>1, <3>2 DEF BoundsOK
    <3>3. CASE tpc'[c][s] = "gone"
      <4>1. "gone" \notin HoldsBatch
        BY DEF HoldsBatch
      <4> QED BY Zenon, <3>1, <3>3, <4>1 DEF BoundsOK
    <3> QED BY Zenon, <1>t, <3>2, <3>3
  <2> QED BY Zenon, <2>1 DEF TaskBounds
<1>5. SinkHolds'
  BY Zenon, <1>f, <1>t, <1>h DEF SinkHolds, BatchRows
<1> QED BY <1>1, <1>2, <1>3, <1>4, <1>5, <1>h, CrashType DEF IInv

(* The invariant holds of the empty manifest with nothing started.          *)
LEMMA InitInv == Init => IInv
<1> SUFFICES ASSUME Init PROVE IInv
  OBVIOUS
<1> USE DEF Init, StoreInit
<1>1. NoRowLost /\ CompletionIsWhole
  BY DEF NoRowLost, CompletionIsWhole, NoRecord
<1>2. EpochsGranted /\ ChainAgreement /\ LinkAgreement /\ FinishedAtEnd
  BY DEF EpochsGranted, ChainAgreement, LinkAgreement, FinishedAtEnd, HoldsContext, InSplit, Splits
<1>3. TaskBounds
  <2>1. ASSUME NEW c \in Coordinators, NEW s \in Splits PROVE BoundsOK(c, s)
    <3>1. task[c][s].pos = 0 /\ tpc[c][s] = "idle"
      BY Zenon DEF NoTask
    <3>2. 0 <= RowCount[s] /\ "idle" \notin HoldsBatch
      BY ExecutionAssumption DEF HoldsBatch
    <3> QED BY Zenon, <3>1, <3>2 DEF BoundsOK
  <2> QED BY Zenon, <2>1 DEF TaskBounds
<1>4. SinkHolds
  <2>1. \A c \in Coordinators, s \in Splits :
           task[c][s].pos = 0 /\ tpc[c][s] = "idle" /\ inserted[s] = {}
    BY Zenon DEF NoTask
  <2>2. markers = {} /\ \A c \in Coordinators : cpc[c] \notin HoldsContext
    BY Zenon DEF HoldsContext
  <2>3. 1..0 = {}
    OBVIOUS
  <2> QED BY <2>1, <2>2, <2>3, Zenon DEF SinkHolds
<1> QED BY Zenon, <1>1, <1>2, <1>3, <1>4, InitType DEF IInv

(* A step that changes nothing keeps the invariant.                         *)
LEMMA StutterInv == IInv /\ UNCHANGED vars => IInv'
<1> SUFFICES ASSUME IInv, UNCHANGED vars PROVE IInv'
  OBVIOUS
<1> USE DEF vars, store, sink
<1>1. TypeOK'
  BY Zenon DEF IInv, TypeOK
<1>2. NoRowLost' /\ CompletionIsWhole' /\ FinishedAtEnd'
  BY Zenon DEF IInv, NoRowLost, CompletionIsWhole, FinishedAtEnd
<1>3. EpochsGranted' /\ ChainAgreement'
  BY Zenon DEF IInv, EpochsGranted, ChainAgreement, activeEpoch
<1>4. LinkAgreement'
  BY ZenonT(60) DEF IInv, LinkAgreement, LinkOK
<1>5. TaskBounds'
  BY ZenonT(60) DEF IInv, TaskBounds, BoundsOK
<1>6. SinkHolds'
  BY Zenon DEF IInv, SinkHolds, BatchRows
<1> QED BY <1>1, <1>2, <1>3, <1>4, <1>5, <1>6 DEF IInv

(* Every step keeps the invariant.                                          *)
LEMMA StepInv == IInv /\ [Next]_vars => IInv'
<1> SUFFICES ASSUME IInv, [Next]_vars PROVE IInv'
  OBVIOUS
<1>h. /\ TypeOK /\ EpochsGranted /\ NoRowLost /\ CompletionIsWhole /\ LinkAgreement
      /\ FinishedAtEnd /\ TaskBounds /\ SinkHolds /\ ChainAgreement
  BY DEF IInv
<1>1. ASSUME NEW c \in Coordinators, CoordinatorStep(c) \/ CoordinatorCrash(c) PROVE IInv'
  <2>1. TypeOK'
    BY Zenon, <1>h, <1>1, CoordinatorType DEF EpochsGranted
  <2>2. EpochsGranted' /\ ChainAgreement'
    BY <1>h, <1>1, CoordinatorEpochs, CoordinatorChain
  <2> QED BY <1>1, <2>1, <2>2, CoordinatorRest DEF IInv
<1>2. ASSUME NEW c \in Coordinators, NEW s \in Splits, TaskStep(c, s) \/ TaskFails(c, s) PROVE IInv'
  <2>1. TypeOK'
    BY <1>h, <1>2, TaskType, Zenon DEF TaskBounds, BoundsOK
  <2>2. LinkAgreement' /\ TaskBounds' /\ SinkHolds'
    BY <1>h, <1>2, TaskLink, TaskInBounds, TaskSink
  <2>3. NoRowLost' /\ CompletionIsWhole' /\ EpochsGranted' /\ ChainAgreement' /\ FinishedAtEnd'
    BY <1>h, <1>2, <2>2, TaskStore, Zenon DEF SinkHolds
  <2> QED BY <2>1, <2>2, <2>3 DEF IInv
<1>3. ASSUME NEW w \in Workers, WorkerCrash(w) PROVE IInv'
  BY <1>3, CrashRest
<1> QED BY <1>1, <1>2, <1>3, StutterInv DEF Next

(* The inductive invariant of a checkpointed execution holds for any number *)
(* of Coordinators, Workers, splits, rows and crashes.                      *)
THEOREM InvariantHolds == Spec => []IInv
  BY InitInv, StepInv, PTL DEF Spec

(* Resuming from the store loses no row, a completed split is whole, and    *)
(* CheckpointBatchCoordinator.run returns only when every split is          *)
(* complete.                                                                *)
THEOREM SafetyHolds == Spec => [](TypeOK /\ NoRowLost /\ CompletionIsWhole /\ ReturnIsComplete)
<1>1. IInv => TypeOK /\ NoRowLost /\ CompletionIsWhole
  BY DEF IInv
<1>2. IInv => ReturnIsComplete
  BY NumSplitsAssumption DEF IInv, EpochsGranted, ReturnIsComplete, Splits
<1> QED BY <1>1, <1>2, InvariantHolds, PTL

(* A Coordinator returns only when every split is durably complete, also if *)
(* others completed some of them, for any splits, rows and failures.        *)
THEOREM RunsReturnComplete == Spec => []ReturnIsComplete
<1> QED BY SafetyHolds, PTL

(* A Coordinator changes a record only by moving it forward to its task's   *)
(* position, and never that of a completed split.                           *)
LEMMA CoordinatorAdvances ==
  ASSUME IInv, NEW c \in Coordinators, CoordinatorStep(c) \/ CoordinatorCrash(c), NEW s \in Splits
  PROVE  \/ records'[s] = records[s]
         \/ /\ Records(c) /\ s = coord[c].split
            /\ completedSplits[s] = NoCompletion
            /\ records'[s] = Progress(c, s)
            /\ records'[s].pos = task[c][s].pos
            /\ task[c][s].pos > records[s].pos
<1>h. TypeOK /\ EpochsGranted /\ LinkAgreement /\ ChainAgreement
  BY DEF IInv
<1>n. records \in [Splits -> RecordSet] /\ coord[c] \in ContextSet
  BY <1>h DEF TypeOK
<1>m. \/ Acquires(c) \/ Skips(c) \/ Loads(c) \/ Sends(c) \/ Records(c)
      \/ Receives(c) \/ Completes(c) \/ MovesOn(c)
  BY <1>h, CoordinatorMove, Zenon DEF EpochsGranted
<1>1. CASE Records(c) /\ s = coord[c].split
  <2>1. /\ records' = [records EXCEPT ![s] = Progress(c, s)]
        /\ completedSplits[s] = NoCompletion
        /\ Progress(c, s).epoch = activeEpoch
        /\ Progress(c, s) = records[s] \/ Progress(c, s).seq = records[s].seq + 1
    BY <1>1 DEF Records, record, RecordAccepted
  <2>2. /\ Progress(c, s).pos = task[c][s].pos /\ Progress(c, s).seq = task[c][s].seq
        /\ Progress(c, s).epoch = coord[c].epoch
    BY Zenon DEF Progress
  <2>3. task[c][s].seq = coord[c].seq + 1 /\ task[c][s].pos > coord[c].pos
    BY <1>1, <1>h, Zenon DEF Records, Moves, LinkAgreement, LinkOK
  <2>4. coord[c].seq = records[s].seq => coord[c].pos = records[s].pos
    BY <1>1, <1>h, <2>1, <2>2, Zenon DEF Records, Moves, ChainAgreement, HoldsContext
  <2>5. records'[s] = Progress(c, s)
    BY <2>1, <1>n
  <2>6. coord[c].seq \in Nat /\ records[s].seq \in Nat
    BY <1>n, Zenon DEF ContextSet, RecordSet
  <2>7. Progress(c, s) # records[s] => task[c][s].pos > records[s].pos
    BY Zenon, <2>1, <2>2, <2>3, <2>4, <2>6, Comparisons
  <2>8. CASE Progress(c, s) = records[s]
    BY <2>5, <2>8, Zenon
  <2>9. CASE Progress(c, s) # records[s]
    BY <1>1, <2>1, <2>2, <2>5, <2>7, <2>9, Zenon
  <2> QED BY <2>8, <2>9, Zenon
<1>2. CASE Records(c) /\ s # coord[c].split
  BY <1>2, <1>n DEF Records, record
<1>3. CASE ~Records(c)
  BY Zenon, <1>3, <1>m DEF Acquires, Skips, Loads, Sends, Receives, Completes, MovesOn, store, recordCompletion
<1> QED BY <1>1, <1>2, <1>3, Zenon

(* A Coordinator never changes a recorded completion.                       *)
LEMMA CoordinatorKeeps ==
  ASSUME IInv, NEW c \in Coordinators, CoordinatorStep(c) \/ CoordinatorCrash(c), NEW s \in Splits
  PROVE  \/ completedSplits'[s] = completedSplits[s]
         \/ /\ completedSplits[s] = NoCompletion
            /\ completedSplits'[s] # NoCompletion
            /\ records' = records
<1>h. TypeOK /\ EpochsGranted
  BY DEF IInv
<1>n. completedSplits \in [Splits -> CompletionSet]
  BY <1>h DEF TypeOK
<1>m. \/ Acquires(c) \/ Skips(c) \/ Loads(c) \/ Sends(c) \/ Records(c)
      \/ Receives(c) \/ Completes(c) \/ MovesOn(c)
  BY <1>h, CoordinatorMove, Zenon DEF EpochsGranted
<1>1. CASE Completes(c)
  <2>1. /\ completedSplits' = [completedSplits EXCEPT ![coord[c].split] = SplitCompletion(c)]
        /\ \/ completedSplits[coord[c].split] = SplitCompletion(c)
           \/ completedSplits[coord[c].split] = NoCompletion
        /\ records' = records
    BY <1>1 DEF Completes, recordCompletion, CompletionAccepted
  <2>2. SplitCompletion(c) # NoCompletion
    BY Zenon DEF SplitCompletion, NoCompletion
  <2> QED BY <2>1, <2>2, <1>n
<1>2. CASE ~Completes(c)
  BY Zenon, <1>2, <1>m DEF Acquires, Skips, Loads, Sends, Records, Receives, MovesOn, store, record
<1> QED BY Zenon, <1>1, <1>2

(* Only Coordinators write the store.                                       *)
LEMMA OnlyCoordinatorsRecord ==
  ASSUME IInv, [Next]_vars
  PROVE  \/ UNCHANGED store
         \/ \E c \in Coordinators : CoordinatorStep(c) \/ CoordinatorCrash(c)
<1>1. TypeOK
  BY DEF IInv
<1>2. ASSUME NEW c \in Coordinators, NEW s \in Splits, TaskStep(c, s) \/ TaskFails(c, s)
      PROVE  UNCHANGED store
  BY Zenon, <1>1, <1>2, TaskFrame
<1>3. ASSUME NEW w \in Workers, WorkerCrash(w) PROVE UNCHANGED store
  BY Zenon, <1>3 DEF WorkerCrash
<1> QED BY Zenon, <1>2, <1>3 DEF Next, vars

(* FileCheckpointStore.record and recordCompletion only move forward,       *)
(* whichever Coordinators call them.                                        *)
THEOREM ProgressIsDurable == Spec => DurableProgress
<1> DEFINE Forward ==
        \A s \in Splits :
          /\ records'[s].pos >= records[s].pos
          /\ records'[s].pos = records[s].pos => records'[s].seq = records[s].seq
          /\ completedSplits[s] # NoCompletion =>
                 records'[s] = records[s] /\ completedSplits'[s] = completedSplits[s]
<1>1. IInv /\ [Next]_vars => [Forward]_vars
  <2> SUFFICES ASSUME IInv, [Next]_vars PROVE Forward
    BY Zenon
  <2>n. \A s \in Splits : records[s].pos \in Nat
    BY Zenon DEF IInv, TypeOK, RecordSet
  <2>1. CASE UNCHANGED store
    BY <2>1, <2>n DEF store
  <2>2. ASSUME NEW c \in Coordinators, CoordinatorStep(c) \/ CoordinatorCrash(c) PROVE Forward
    <3> SUFFICES ASSUME NEW s \in Splits
                 PROVE  /\ records'[s].pos >= records[s].pos
                        /\ records'[s].pos = records[s].pos => records'[s].seq = records[s].seq
                        /\ completedSplits[s] # NoCompletion =>
                               records'[s] = records[s] /\ completedSplits'[s] = completedSplits[s]
      BY Zenon
    <3>1. task[c][s].pos \in Nat
      BY <2>2 DEF IInv, TypeOK, TaskSet
    <3>2. completedSplits[s] # NoCompletion => completedSplits'[s] = completedSplits[s]
      BY Zenon, <2>2, CoordinatorKeeps
    <3>3. CASE records'[s] = records[s]
      BY <3>2, <3>3, <2>n
    <3>4. CASE records'[s] # records[s]
      <4>1. /\ completedSplits[s] = NoCompletion
            /\ records'[s].pos = task[c][s].pos /\ task[c][s].pos > records[s].pos
        BY <2>2, <3>4, CoordinatorAdvances, Zenon
      <4> QED BY <3>1, <4>1, <2>n
    <3> QED BY <3>3, <3>4, Zenon
  <2> QED BY <2>1, <2>2, OnlyCoordinatorsRecord, Zenon
<1> QED BY <1>1, InvariantHolds, PTL DEF Spec, DurableProgress

---------------------------------------------------------------------------
(* Exactly once.  The argument is arithmetic: with one batch size a         *)
(* sequence number fixes the batch, hence its token; two batches that share *)
(* a row have the same number, so the second transaction finds the first    *)
(* one's marker.                                                            *)

(* Fixed batches have one size and one rendering.                           *)
LEMMA BatchConstants ==
  ASSUME FixedBatches
  PROVE  /\ BatchSize \in Nat \ {0} /\ BatchSizes = {BatchSize}
         /\ Renderings = {Rendering}
<1>1. BatchSize \in BatchSizes /\ BatchSizes = {BatchSize}
  BY DEF FixedBatches, BatchSize
<1>2. Renderings = {Rendering}
  BY DEF FixedBatches, Rendering
<1> QED BY <1>1, <1>2, ExecutionAssumption

(* Multiples of the batch size, one batch apart.                            *)
LEMMA Multiples ==
  ASSUME NEW b \in Nat \ {0}, NEW n \in Nat
  PROVE  /\ n * b \in Nat /\ (n + 1) * b = n * b + b /\ (n + 1 - 1) * b = n * b
         /\ 0 * b = 0
  OBVIOUS

(* Multiples of the batch size are ordered as their factors.                *)
LEMMA MultiplesGrow ==
  ASSUME NEW b \in Nat \ {0}, NEW m \in Nat, NEW n \in Nat, m <= n
  PROVE  m * b <= n * b
  OBVIOUS

(* The batch readBatch takes after an aligned position is the one the next  *)
(* sequence number names, and CommitTokens gives it that batch's token.     *)
LEMMA NextBatch ==
  ASSUME FixedBatches, NEW s \in Splits, NEW seq \in Nat, NEW pos \in Nat, Aligned(s, seq, pos),
         pos < RowCount[s],
         NEW size, size = IF BatchSize <= RowCount[s] - pos THEN BatchSize ELSE RowCount[s] - pos
  PROVE  /\ pos = seq * BatchSize
         /\ Aligned(s, seq + 1, pos + size)
         /\ BatchToken(s, seq + 1) =
               <<s, seq + 1, Digest(pos + 1, pos + size, RowCount[s] - pos < BatchSize, Rendering)>>
<1>1. BatchSize \in Nat \ {0} /\ RowCount[s] \in Nat
  BY BatchConstants, ExecutionAssumption
<1>2. /\ seq * BatchSize \in Nat /\ (seq + 1) * BatchSize = seq * BatchSize + BatchSize
      /\ (seq + 1 - 1) * BatchSize = seq * BatchSize
  BY <1>1, Multiples
<1>3. pos = seq * BatchSize
  BY <1>1, <1>2 DEF Aligned, Reached
<1>4. Reached(s, seq + 1) = pos + size
  BY <1>1, <1>2, <1>3 DEF Reached
<1>5. IsBatch(s, seq + 1)
  BY <1>1, <1>2, <1>3 DEF IsBatch
<1>6. (RowCount[s] < (seq + 1) * BatchSize) = (RowCount[s] - pos < BatchSize)
  BY <1>1, <1>2, <1>3
<1> QED BY <1>2, <1>3, <1>4, <1>5, <1>6 DEF Aligned, BatchToken

(* Two batches that share a row are the same batch.                         *)
LEMMA BatchesDisjoint ==
  ASSUME FixedBatches, NEW s \in Splits, NEW p \in Nat \ {0}, NEW q \in Nat \ {0}, NEW r \in Nat,
         r \in ((p - 1) * BatchSize + 1)..Reached(s, p),
         r \in ((q - 1) * BatchSize + 1)..Reached(s, q)
  PROVE  p = q
<1>1. BatchSize \in Nat \ {0} /\ RowCount[s] \in Nat
  BY BatchConstants, ExecutionAssumption
<1>2. ASSUME NEW m \in Nat \ {0}, NEW n \in Nat \ {0}, m < n, r > (n - 1) * BatchSize, r <= m * BatchSize
      PROVE  FALSE
  <2>1. m \in Nat /\ n - 1 \in Nat /\ m <= n - 1
    BY <1>2
  <2>2. m * BatchSize <= (n - 1) * BatchSize
    BY <1>1, <2>1, MultiplesGrow
  <2>3. m * BatchSize \in Nat /\ (n - 1) * BatchSize \in Nat
    BY <1>1, <2>1, Multiples
  <2> QED BY <1>2, <2>2, <2>3
<1>3. /\ p * BatchSize \in Nat /\ q * BatchSize \in Nat
      /\ (p - 1) * BatchSize \in Nat /\ (q - 1) * BatchSize \in Nat
  <2>1. p \in Nat /\ q \in Nat /\ p - 1 \in Nat /\ q - 1 \in Nat
    OBVIOUS
  <2> QED BY <1>1, <2>1, Multiples
<1>4. r <= p * BatchSize /\ r <= q * BatchSize /\ r > (p - 1) * BatchSize /\ r > (q - 1) * BatchSize
  BY <1>1, <1>3 DEF Reached
<1>5. ~(p < q) /\ ~(q < p)
  BY <1>2, <1>4
<1> QED BY <1>5

(* A batch that a task holds is one that a sequence number names.           *)
LEMMA HeldBatch ==
  ASSUME FixedBatches, NEW s \in Splits, NEW seq \in Nat, NEW pos \in Nat, NEW size \in Nat, Aligned(s, seq, pos),
         size > 0, pos + size <= RowCount[s],
         size = IF BatchSize <= RowCount[s] - pos THEN BatchSize ELSE RowCount[s] - pos
  PROVE  /\ pos = seq * BatchSize
         /\ Aligned(s, seq + 1, pos + size)
         /\ BatchToken(s, seq + 1) =
               <<s, seq + 1, Digest(pos + 1, pos + size, RowCount[s] - pos < BatchSize, Rendering)>>
         /\ IsBatch(s, seq + 1) /\ pos + size = Reached(s, seq + 1)
<1>1. RowCount[s] \in Nat
  BY Zenon, ExecutionAssumption
<1>2. pos < RowCount[s]
  BY <1>1
<1>3. /\ pos = seq * BatchSize
      /\ Aligned(s, seq + 1, pos + size)
      /\ BatchToken(s, seq + 1) =
            <<s, seq + 1, Digest(pos + 1, pos + size, RowCount[s] - pos < BatchSize, Rendering)>>
  BY Zenon, <1>2, NextBatch
<1>4. IsBatch(s, seq + 1) /\ pos + size = Reached(s, seq + 1)
  <2>1. seq + 1 # 0
    OBVIOUS
  <2> QED BY Zenon, <1>3, <2>1 DEF Aligned
<1> QED BY Zenon, <1>3, <1>4

(* The token a task computes is the token of the batch its sequence number  *)
(* names.                                                                   *)
LEMMA NextTokenIsBatchToken ==
  ASSUME TypeOK, TaskBounds, ExactlyOnce, FixedBatches,
         NEW c \in Coordinators, NEW s \in Splits, AlignedTask(c, s), tpc[c][s] \in HoldsBatch
  PROVE  LET t == task[c][s] IN
         /\ NextToken(c, s) = BatchToken(s, t.seq + 1)
         /\ Aligned(s, t.seq + 1, t.pos + t.size)
         /\ IsBatch(s, t.seq + 1)
         /\ BatchRows(c, s) = (t.seq * BatchSize + 1)..Reached(s, t.seq + 1)
<1> DEFINE t == task[c][s]
<1>1. t \in TaskSet
  BY Zenon DEF TypeOK
<1>2. t.seq \in Nat /\ t.pos \in Nat /\ t.size \in Nat /\ t.shown \in Renderings
  BY Zenon, <1>1 DEF TaskSet
<1>3. t.size > 0 /\ t.pos + t.size <= RowCount[s]
  BY Zenon DEF TaskBounds, BoundsOK
<1>4. /\ Aligned(s, t.seq, t.pos)
      /\ t.size = IF BatchSize <= RowCount[s] - t.pos THEN BatchSize ELSE RowCount[s] - t.pos
      /\ t.end = (RowCount[s] - t.pos < BatchSize)
  BY Zenon DEF AlignedTask
<1>5. t.shown = Rendering
  BY <1>2, BatchConstants
<1> HIDE DEF t
<1>7. /\ t.pos = t.seq * BatchSize
      /\ Aligned(s, t.seq + 1, t.pos + t.size)
      /\ BatchToken(s, t.seq + 1) =
            <<s, t.seq + 1, Digest(t.pos + 1, t.pos + t.size, RowCount[s] - t.pos < BatchSize, Rendering)>>
      /\ IsBatch(s, t.seq + 1) /\ t.pos + t.size = Reached(s, t.seq + 1)
  <2> DEFINE seq == t.seq
             pos == t.pos
             size == t.size
  <2>1. /\ seq \in Nat /\ pos \in Nat /\ size \in Nat /\ Aligned(s, seq, pos) /\ size > 0 /\ pos + size <= RowCount[s]
        /\ size = IF BatchSize <= RowCount[s] - pos THEN BatchSize ELSE RowCount[s] - pos
    BY Zenon, <1>2, <1>3, <1>4
  <2> HIDE DEF seq, pos, size
  <2>2. /\ pos = seq * BatchSize
        /\ Aligned(s, seq + 1, pos + size)
        /\ BatchToken(s, seq + 1) =
              <<s, seq + 1, Digest(pos + 1, pos + size, RowCount[s] - pos < BatchSize, Rendering)>>
        /\ IsBatch(s, seq + 1) /\ pos + size = Reached(s, seq + 1)
    BY <2>1, HeldBatch
  <2> QED BY Zenon, <2>2 DEF seq, pos, size
<1>9. NextToken(c, s) = <<s, t.seq + 1, Digest(t.pos + 1, t.pos + t.size, t.end, t.shown)>>
  BY Zenon DEF NextToken, CommitToken, BatchDigest, t
<1>10. BatchRows(c, s) = (t.pos + 1)..(t.pos + t.size)
  BY DEF BatchRows, t
<1> QED BY <1>4, <1>5, <1>7, <1>9, <1>10, Zenon DEF t

(* A task step keeps sequence numbers and positions aligned.                *)
LEMMA TaskAligned ==
  ASSUME IInv, ExactlyOnce, FixedBatches, EveryoneAligned,
         NEW c \in Coordinators, NEW s \in Splits, TaskStep(c, s) \/ TaskFails(c, s)
  PROVE  EveryoneAligned'
<1>h. TypeOK /\ TaskBounds /\ BoundsOK(c, s) /\ AlignedTask(c, s)
  BY Zenon DEF IInv, TaskBounds, EveryoneAligned
<1>n. task[c][s] \in TaskSet /\ RowCount[s] \in Nat
  BY <1>h, ExecutionAssumption DEF TypeOK
<1>f. UNCHANGED <<store, cpc, coord>>
  BY Zenon, <1>h, TaskFrame
<1>o. ASSUME NEW d \in Coordinators, NEW u \in Splits, d # c \/ u # s PROVE AlignedTask(d, u)'
  <2>1. tpc'[d][u] = tpc[d][u] /\ task'[d][u] = task[d][u]
    BY Zenon, <1>o, <1>h, TaskFrame
  <2>2. AlignedTask(d, u)
    BY Zenon DEF EveryoneAligned
  <2> QED BY Zenon, <2>1, <2>2, StillAligned
<1>1. AlignedTask(c, s)'
  <2>1. CASE Reads(c, s)
    <3>1. PICK limit \in BatchSizes :
              /\ task'[c][s].size = IF limit <= RowCount[s] - task[c][s].pos
                                    THEN limit ELSE RowCount[s] - task[c][s].pos
              /\ task'[c][s].end = (RowCount[s] - task[c][s].pos < limit)
      BY Zenon, <2>1 DEF Reads
    <3>2. limit = BatchSize
      BY BatchConstants
    <3> QED BY <1>h, <2>1, <3>1, <3>2, Zenon DEF Reads, AlignedTask
  <2>2. CASE Reports(c, s)
    <3>1. tpc[c][s] \in HoldsBatch
      BY <2>2 DEF Reports, HoldsBatch
    <3>2. Aligned(s, task[c][s].seq + 1, task[c][s].pos + task[c][s].size)
      BY Zenon, <1>h, <3>1, NextTokenIsBatchToken
    <3>3. /\ task'[c][s].pos = task[c][s].pos + task[c][s].size
          /\ task'[c][s].seq = task[c][s].seq + 1
          /\ tpc'[c][s] = "await"
      BY <2>2, <1>n DEF Reports, TaskSet
    <3> QED BY Zenon, <3>2, <3>3 DEF AlignedTask, HoldsBatch
  <2>3. CASE task'[c][s] = task[c][s] /\ (tpc'[c][s] \in HoldsBatch => tpc[c][s] \in HoldsBatch)
    BY Zenon, <1>h, <2>3, StillAligned
  <2>4. task[c][s].pos <= RowCount[s]
    BY Zenon, <1>h DEF BoundsOK
  <2> QED BY <1>h, <2>1, <2>2, <2>3, <2>4, TaskMove, Zenon DEF Gives, Leaves, HoldsBatch
<1> QED BY Zenon, <1>1, <1>o, <1>f DEF EveryoneAligned, store

(* A Coordinator step keeps sequence numbers and positions aligned: they    *)
(* are loaded, recorded and sent together.                                  *)
LEMMA CoordinatorAligned ==
  ASSUME IInv, EveryoneAligned, FixedBatches, NEW c \in Coordinators, CoordinatorStep(c) \/ CoordinatorCrash(c)
  PROVE  EveryoneAligned'
<1> DEFINE s == coord[c].split
<1>h. TypeOK /\ EpochsGranted
  BY DEF IInv
<1>n. coord[c] \in ContextSet
  BY <1>h DEF TypeOK
<1>m. \/ Acquires(c) \/ Skips(c) \/ Loads(c) \/ Sends(c) \/ Records(c)
      \/ Receives(c) \/ Completes(c) \/ MovesOn(c)
  BY Zenon, <1>h, CoordinatorMove DEF EpochsGranted
<1>f. \A d \in Coordinators : d # c =>
               /\ cpc'[d] = cpc[d] /\ coord'[d] = coord[d]
               /\ tpc'[d] = tpc[d] /\ task'[d] = task[d]
  BY Zenon, <1>h, CoordinatorFrame
<1>s. cpc[c] \in InSplit => s \in Splits
  BY Zenon, <1>h DEF EpochsGranted
<1>1. \A u \in Splits : Aligned(u, records'[u].seq, records'[u].pos)
  <2> TAKE u \in Splits
  <2>1. CASE records'[u] = records[u]
    BY Zenon, <2>1 DEF EveryoneAligned
  <2>2. CASE records'[u] # records[u]
    <3>1. records'[u] = Progress(c, u)
      BY Zenon, <2>2, CoordinatorAdvances
    <3>2. records'[u].seq = task[c][u].seq /\ records'[u].pos = task[c][u].pos
      BY Zenon, <3>1, ProgressIsTheTask
    <3> QED BY Zenon, <3>2 DEF EveryoneAligned, AlignedTask
  <2> QED BY <2>1, <2>2
<1>2. ASSUME NEW d \in Coordinators, cpc'[d] \in HoldsContext
      PROVE  Aligned(coord'[d].split, coord'[d].seq, coord'[d].pos)
  <2>1. CASE d # c
    BY Zenon, <1>2, <1>f, <2>1 DEF EveryoneAligned
  <2>2. CASE d = c /\ Loads(c)
    <3>1. s \in Splits /\ coord'[c].split = s /\ coord'[c].seq = records[s].seq /\ coord'[c].pos = records[s].pos
      BY <2>2, <1>n, <1>s DEF Loads, Moves, InSplit, ContextSet
    <3> QED BY Zenon, <2>2, <3>1 DEF EveryoneAligned
  <2>3. CASE d = c /\ Records(c)
    <3>1. s \in Splits /\ coord'[c].split = s /\ coord'[c].seq = task[c][s].seq /\ coord'[c].pos = task[c][s].pos
      BY <2>3, <1>n, <1>s DEF Records, Moves, InSplit, ContextSet
    <3> QED BY <2>3, <3>1, Zenon DEF EveryoneAligned, AlignedTask
  <2>4. CASE d = c /\ (Sends(c) \/ Receives(c))
    BY <2>4 DEF Sends, Receives, Moves, HoldsContext, EveryoneAligned
  <2> QED BY <1>m, <1>2, <2>1, <2>2, <2>3, <2>4
          DEF Acquires, Skips, Completes, MovesOn, Moves, HoldsContext
<1>3. ASSUME NEW d \in Coordinators, NEW u \in Splits PROVE AlignedTask(d, u)'
  <2>1. CASE Sends(c) /\ d = c /\ u = s
    <3>1. /\ task'[c][s].seq = coord[c].seq /\ task'[c][s].pos = coord[c].pos /\ tpc'[c][s] = "accept"
      BY <2>1 DEF Sends, NoTask
    <3>2. Aligned(s, coord[c].seq, coord[c].pos)
      BY <2>1 DEF Sends, Moves, HoldsContext, EveryoneAligned
    <3> QED BY Zenon, <2>1, <3>1, <3>2 DEF AlignedTask, HoldsBatch
  <2>2. CASE ~(Sends(c) /\ d = c /\ u = s)
    <3>1. tpc'[d][u] = tpc[d][u] /\ task'[d][u] = task[d][u]
      <4>1. CASE d # c
        BY <4>1, <1>f
      <4>2. CASE d = c /\ Sends(c)
        BY <4>2, <2>2 DEF Sends
      <4>3. CASE d = c /\ ~Sends(c)
        BY <4>3, <1>m DEF Acquires, Skips, Loads, Records, Receives, Completes, MovesOn, SameTasks
      <4> QED BY Zenon, <4>1, <4>2, <4>3
    <3> QED BY Zenon, <3>1 DEF AlignedTask, EveryoneAligned
  <2> QED BY <2>1, <2>2
<1> QED BY Zenon, <1>1, <1>2, <1>3 DEF EveryoneAligned

(* A task whose locals do not change keeps its token.                       *)
LEMMA SameToken ==
  ASSUME ExactlyOnce, NEW c \in Coordinators, NEW s \in Splits, task'[c][s] = task[c][s]
  PROVE  NextToken(c, s)' = NextToken(c, s)
  BY Zenon DEF NextToken, CommitToken, BatchDigest, Digest

(* A step that leaves the sink alone and lets no task reach its commit      *)
(* keeps the marker table's guarantee.                                      *)
LEMMA MarkersKept ==
  ASSUME ExactlyOnce, MarkersGuardRows, UNCHANGED <<inserted, markers>>,
         \A d \in Coordinators, u \in Splits :
             tpc'[d][u] = "commit" => tpc[d][u] = "commit" /\ task'[d][u] = task[d][u]
  PROVE  MarkersGuardRows'
<1>1. ASSUME NEW c \in Coordinators, NEW s \in Splits, tpc'[c][s] = "commit" PROVE HoldsToken(c, s)'
  <2>1. HoldsToken(c, s) /\ NextToken(c, s)' = NextToken(c, s)
    BY Zenon, <1>1, SameToken DEF MarkersGuardRows
  <2>2. ASSUME NEW d \in Coordinators \ {c}, tpc'[d][s] = "commit" PROVE NextToken(d, s)' # NextToken(c, s)'
    <3>1. tpc[d][s] = "commit" /\ NextToken(d, s)' = NextToken(d, s)
      BY Zenon, <2>2, SameToken
    <3> QED BY Zenon, <2>1, <3>1 DEF HoldsToken
  <2> QED BY Zenon, <2>1, <2>2 DEF HoldsToken
<1> QED BY Zenon, <1>1 DEF MarkersGuardRows, BatchToken, IsBatch, Digest, Reached

(* A transaction about to commit holds rows that are not in the sink: its   *)
(* token would have been found.                                             *)
LEMMA CommitIsNew ==
  ASSUME IInv, ExactlyOnce, FixedBatches, EveryoneAligned, MarkersGuardRows,
         NEW c \in Coordinators, NEW s \in Splits, tpc[c][s] = "commit"
  PROVE  inserted[s] \cap BatchRows(c, s) = {}
<1> DEFINE n == task[c][s].seq + 1
<1>1. TypeOK /\ TaskBounds /\ AlignedTask(c, s) /\ tpc[c][s] \in HoldsBatch
  BY Zenon DEF IInv, EveryoneAligned, HoldsBatch
<1>2. task[c][s].seq \in Nat /\ n \in Nat \ {0} /\ n - 1 = task[c][s].seq
  BY <1>1 DEF TypeOK, TaskSet
<1>3. /\ NextToken(c, s) = BatchToken(s, n)
      /\ BatchRows(c, s) = ((n - 1) * BatchSize + 1)..Reached(s, n)
  BY <1>1, <1>2, NextTokenIsBatchToken, Zenon
<1>4. SUFFICES ASSUME NEW r \in inserted[s], r \in BatchRows(c, s) PROVE FALSE
  BY Zenon
<1>5. PICK m \in markers : m[1] = s /\ r \in m[3][1]..m[3][2]
  BY Zenon DEF MarkersGuardRows
<1>6. m = BatchToken(s, m[2]) /\ IsBatch(s, m[2])
  BY Zenon, <1>5 DEF MarkersGuardRows
<1>7. m[2] \in Nat
  BY <1>1 DEF TypeOK, TokenSet
<1>8. m[2] \in Nat \ {0}
  BY Zenon, <1>6, <1>7, BatchesFromOne
<1>9. m[3][1] = (m[2] - 1) * BatchSize + 1 /\ m[3][2] = Reached(s, m[2])
  BY Zenon, <1>6, TokenHasItsRows
<1>10. r \in Nat
  BY <1>1, <1>4 DEF TypeOK
<1> HIDE DEF n
<1>11. m[2] = n
  BY <1>2, <1>3, <1>4, <1>5, <1>8, <1>9, <1>10, BatchesDisjoint, Zenon
<1>12. NextToken(c, s) \in markers
  BY Zenon, <1>3, <1>5, <1>6, <1>11
<1> QED BY Zenon, <1>12 DEF MarkersGuardRows, HoldsToken

(* A task step repeats no row and keeps the marker table's guarantee.       *)
LEMMA TaskMarkers ==
  ASSUME IInv, ExactlyOnce, FixedBatches, NoRowRepeated, EveryoneAligned, MarkersGuardRows,
         NEW c \in Coordinators, NEW s \in Splits, TaskStep(c, s) \/ TaskFails(c, s)
  PROVE  NoRowRepeated' /\ MarkersGuardRows'
<1>h. TypeOK /\ TaskBounds /\ AlignedTask(c, s) /\ task[c][s].pos <= RowCount[s]
  BY Zenon DEF IInv, TaskBounds, BoundsOK, EveryoneAligned
<1>f. \A d \in Coordinators, u \in Splits : d # c \/ u # s =>
          tpc'[d][u] = tpc[d][u] /\ task'[d][u] = task[d][u]
  BY Zenon, <1>h, OtherTasks
<1>c. CASE CommitBatch(c, s)
  <2>0. tpc[c][s] = "commit" /\ tpc[c][s] \in HoldsBatch /\ task' = task
    BY <1>c DEF CommitBatch, HoldsBatch
  <2>1. inserted[s] \cap BatchRows(c, s) = {}
    BY Zenon, <2>0, CommitIsNew
  <2>2. /\ inserted' = [inserted EXCEPT ![s] = inserted[s] \cup BatchRows(c, s)]
        /\ repeated' = [repeated EXCEPT ![s] = repeated[s] \cup (inserted[s] \cap BatchRows(c, s))]
        /\ markers' = markers \cup {NextToken(c, s)}
    BY <1>c DEF CommitBatch
  <2>3. NoRowRepeated'
    BY Zenon, <2>1, <2>2, <1>h DEF NoRowRepeated, TypeOK
  <2>4. /\ NextToken(c, s) = BatchToken(s, task[c][s].seq + 1)
        /\ IsBatch(s, task[c][s].seq + 1)
    BY <1>h, <2>0, NextTokenIsBatchToken, Zenon
  <2>5. NextToken(c, s)[1] = s /\ NextToken(c, s)[2] = task[c][s].seq + 1
    BY Zenon DEF NextToken, CommitToken
  <2>6. NextToken(c, s)[3][1]..NextToken(c, s)[3][2] = BatchRows(c, s)
    BY Zenon DEF NextToken, CommitToken, BatchDigest, Digest, BatchRows
  <2>7. \A m \in markers' : m = BatchToken(m[1], m[2]) /\ IsBatch(m[1], m[2])
    BY <2>2, <2>4, <2>5, ZenonT(60) DEF MarkersGuardRows
  <2>8. ASSUME NEW u \in Splits, NEW r \in inserted'[u]
        PROVE  \E m \in markers' : m[1] = u /\ r \in m[3][1]..m[3][2]
    <3>1. CASE r \in inserted[u]
      BY Zenon, <2>2, <3>1 DEF MarkersGuardRows
    <3>2. CASE u = s /\ r \in BatchRows(c, s)
      BY <2>2, <2>5, <2>6, <3>2, Zenon
    <3> QED BY <2>2, <2>8, <3>1, <3>2, <1>h, Zenon DEF TypeOK
  <2>9. ASSUME NEW d \in Coordinators, NEW u \in Splits, tpc'[d][u] = "commit" PROVE HoldsToken(d, u)'
    <3>1. d # c \/ u # s
      BY Zenon, <2>9, <1>c, <1>h DEF CommitBatch, TypeOK
    <3>2. tpc[d][u] = "commit" /\ HoldsToken(d, u)
      BY <2>9, <3>1, <1>f, ZenonT(60) DEF MarkersGuardRows
    <3>3. \A e \in Coordinators : NextToken(e, u)' = NextToken(e, u)
      BY <2>0, SameToken, Zenon
    <3>4. NextToken(d, u) # NextToken(c, s)
      <4>1. CASE u = s
        BY Zenon, <2>0, <3>1, <3>2, <4>1 DEF HoldsToken
      <4>2. CASE u # s
        BY Zenon, <4>2 DEF NextToken, CommitToken
      <4> QED BY <4>1, <4>2
    <3>5. \A e \in Coordinators : tpc'[e][u] = "commit" => tpc[e][u] = "commit"
      BY Zenon, <2>0, <1>f
    <3> QED BY Zenon, <2>2, <3>2, <3>3, <3>4, <3>5 DEF HoldsToken
  <2>10. MarkersGuardRows'
    BY Zenon, <2>7, <2>8, <2>9 DEF MarkersGuardRows, BatchToken, IsBatch, Digest, Reached
  <2> QED BY <2>3, <2>10
<1>i. CASE Gives(c, s, "insert", "commit") /\ InsertRows(c, s)
  <2>1. UNCHANGED <<inserted, repeated, markers>> /\ task'[c][s] = task[c][s] /\ tpc'[c][s] = "commit"
    BY <1>i, Zenon DEF InsertRows, Gives, sink
  <2>2. /\ NextToken(c, s) \notin markers
        /\ \A d \in Coordinators \ {c} : tpc[d][s] = "commit" => NextToken(d, s) # NextToken(c, s)
    <3>0. Throw(c, s) => tpc'[c][s] = "ended"
      <4>1. tpc \in [Coordinators -> [Splits -> TaskOnWorker \cup {"idle", "gone"}]]
        BY Zenon, <1>h DEF TypeOK
      <4> QED BY Zenon, <4>1 DEF Throw
    <3>1. ~Throw(c, s)
      <4>1. "ended" # "commit"
        OBVIOUS
      <4> QED BY Zenon, <2>1, <3>0, <4>1
    <3> QED BY <1>i, <3>1, Zenon DEF InsertRows
  <2>3. \A d \in Coordinators, u \in Splits : NextToken(d, u)' = NextToken(d, u)
    BY <2>1, <1>f, SameToken, Zenon
  <2>4. ASSUME NEW d \in Coordinators, NEW u \in Splits, tpc'[d][u] = "commit" PROVE HoldsToken(d, u)'
    <3>1. CASE d = c /\ u = s
      BY ZenonT(60), <2>1, <2>2, <2>3, <3>1, <1>f DEF HoldsToken
    <3>2. CASE d # c \/ u # s
      <4>1. tpc[d][u] = "commit" /\ HoldsToken(d, u)
        BY ZenonT(60), <2>4, <3>2, <1>f DEF MarkersGuardRows
      <4>2. CASE u = s
        <5>1. d # c /\ NextToken(d, s) # NextToken(c, s) /\ tpc[d][s] = "commit" /\ HoldsToken(d, s)
          BY Zenon, <2>2, <3>2, <4>1, <4>2
        <5>2. \A e \in Coordinators : e # c => tpc'[e][s] = tpc[e][s]
          BY Zenon, <1>f
        <5>3. NextToken(d, s)' = NextToken(d, s) /\ NextToken(d, s) \notin markers'
          BY Zenon, <2>1, <2>3, <5>1 DEF HoldsToken
        <5>4. ASSUME NEW e \in Coordinators \ {d}, tpc'[e][s] = "commit" PROVE NextToken(e, s)' # NextToken(d, s)'
          BY Zenon, <2>3, <5>1, <5>2, <5>4 DEF HoldsToken
        <5> QED BY Zenon, <4>2, <5>3, <5>4 DEF HoldsToken
      <4>3. CASE u # s
        BY Zenon, <2>1, <2>3, <4>1, <4>3, <1>f DEF HoldsToken
      <4> QED BY <4>2, <4>3
    <3> QED BY <3>1, <3>2
  <2> QED BY Zenon, <2>1, <2>4 DEF MarkersGuardRows, NoRowRepeated, BatchToken, IsBatch, Digest, Reached
<1>e. CASE ~CommitBatch(c, s) /\ tpc'[c][s] # "commit"
  <2>1. UNCHANGED <<inserted, repeated, markers>>
    BY <1>e, <1>h, TaskFrame, Zenon DEF sink
  <2>2. MarkersGuardRows'
    BY <2>1, <1>e, <1>f, MarkersKept, Zenon
  <2> QED BY Zenon, <2>1, <2>2 DEF NoRowRepeated
<1> QED BY <1>h, <1>c, <1>i, <1>e, TaskMove, Zenon DEF Gives, Leaves, Reads, Reports

(* A Coordinator step repeats no row and keeps the marker table's           *)
(* guarantee.                                                               *)
LEMMA CoordinatorMarkers ==
  ASSUME IInv, ExactlyOnce, NoRowRepeated, MarkersGuardRows,
         NEW c \in Coordinators, CoordinatorStep(c) \/ CoordinatorCrash(c)
  PROVE  NoRowRepeated' /\ MarkersGuardRows'
<1>h. TypeOK /\ EpochsGranted
  BY DEF IInv
<1>m. \/ Acquires(c) \/ Skips(c) \/ Loads(c) \/ Sends(c) \/ Records(c)
      \/ Receives(c) \/ Completes(c) \/ MovesOn(c)
  BY <1>h, CoordinatorMove, Zenon DEF EpochsGranted
<1>f. /\ UNCHANGED <<inserted, repeated, markers>>
      /\ \A d \in Coordinators : d # c => tpc'[d] = tpc[d] /\ task'[d] = task[d]
  BY <1>h, CoordinatorFrame, Zenon DEF sink
<1>1. ASSUME NEW u \in Splits, tpc'[c][u] = "commit" PROVE tpc[c][u] = "commit" /\ task'[c][u] = task[c][u]
  <2>1. CASE Sends(c)
    BY <1>1, <2>1 DEF Sends
  <2>2. CASE ~Sends(c)
    BY <1>1, <2>2, <1>m DEF Acquires, Skips, Loads, Records, Receives, Completes, MovesOn, SameTasks
  <2> QED BY Zenon, <2>1, <2>2
<1>2. MarkersGuardRows'
  BY <1>f, <1>1, MarkersKept, Zenon
<1> QED BY <1>2, <1>f, Zenon DEF NoRowRepeated

(* The exactly-once invariant holds of an empty sink.                       *)
LEMMA InitExactlyOnce == Init => ExactlyOnceInv
<1> SUFFICES ASSUME Init, ExactlyOnce, FixedBatches
             PROVE  NoRowRepeated /\ EveryoneAligned /\ MarkersGuardRows
  BY DEF ExactlyOnceInv
<1>1. \A s \in Splits : Aligned(s, 0, 0)
  BY BatchConstants, Multiples, ExecutionAssumption DEF Aligned, Reached
<1> USE DEF Init, StoreInit
<1>2. NoRowRepeated /\ MarkersGuardRows
  BY Zenon DEF NoRowRepeated, MarkersGuardRows
<1>3. EveryoneAligned
  BY <1>1, Zenon DEF EveryoneAligned, AlignedTask, NoRecord, NoTask, HoldsContext, HoldsBatch
<1> QED BY <1>2, <1>3

(* Every step keeps the exactly-once invariant.                             *)
LEMMA StepExactlyOnce == IInv /\ ExactlyOnceInv /\ [Next]_vars => ExactlyOnceInv'
<1> SUFFICES ASSUME IInv, ExactlyOnce, FixedBatches, NoRowRepeated, EveryoneAligned, MarkersGuardRows,
                    [Next]_vars
             PROVE  NoRowRepeated' /\ EveryoneAligned' /\ MarkersGuardRows'
  BY DEF ExactlyOnceInv, FixedBatches
<1>1. ASSUME NEW c \in Coordinators, CoordinatorStep(c) \/ CoordinatorCrash(c)
      PROVE  NoRowRepeated' /\ EveryoneAligned' /\ MarkersGuardRows'
  BY <1>1, CoordinatorAligned, CoordinatorMarkers
<1>2. ASSUME NEW c \in Coordinators, NEW s \in Splits, TaskStep(c, s) \/ TaskFails(c, s)
      PROVE  NoRowRepeated' /\ EveryoneAligned' /\ MarkersGuardRows'
  BY <1>2, TaskAligned, TaskMarkers
<1>3. ASSUME UNCHANGED <<store, cpc, coord, task, sink>>,
             \A c \in Coordinators, s \in Splits : tpc'[c][s] \in {tpc[c][s], "gone"}
      PROVE  NoRowRepeated' /\ EveryoneAligned' /\ MarkersGuardRows'
  <2>1. MarkersGuardRows'
    BY <1>3, MarkersKept DEF sink
  <2>2. EveryoneAligned'
    BY <1>3, ZenonT(60) DEF EveryoneAligned, AlignedTask, HoldsBatch, store
  <2> QED BY <1>3, <2>1, <2>2 DEF NoRowRepeated, sink
<1>4. ASSUME NEW w \in Workers, WorkerCrash(w)
      PROVE  NoRowRepeated' /\ EveryoneAligned' /\ MarkersGuardRows'
  <2>1. \A c \in Coordinators, s \in Splits : tpc'[c][s] \in {tpc[c][s], "gone"}
    BY <1>4 DEF WorkerCrash
  <2> QED BY Zenon, <1>3, <1>4, <2>1 DEF WorkerCrash
<1>5. CASE UNCHANGED vars
  BY Zenon, <1>3, <1>5 DEF vars
<1> QED BY <1>1, <1>2, <1>4, <1>5 DEF Next

(* The exactly-once invariant holds for any number of Coordinators,         *)
(* Workers, splits, rows and crashes.                                       *)
THEOREM ExactlyOnceHolds == Spec => []ExactlyOnceInv
  BY InitExactlyOnce, StepExactlyOnce, InvariantHolds, PTL DEF Spec

(* With fixed batches, JdbcBatchSink never commits a row of an exactly-once *)
(* job twice.                                                               *)
THEOREM NeverRepeated == FixedBatches => (Spec => []NoRowRepeated)
<1>1. FixedBatches /\ ExactlyOnceInv => NoRowRepeated
  BY DEF ExactlyOnceInv, NoRowRepeated
<1>2. ASSUME FixedBatches PROVE Spec => []NoRowRepeated
  <2>1. ExactlyOnceInv => NoRowRepeated
    BY <1>1, <1>2
  <2> QED BY <2>1, ExactlyOnceHolds, PTL
<1> QED BY <1>2

(* The first and the last row of a batch are rows of the split.             *)
LEMMA BatchEnds ==
  ASSUME NEW pos \in Nat, NEW size \in Nat, NEW rows \in Nat, size > 0, pos + size <= rows
  PROVE  pos + 1 \in 1..rows /\ pos + size \in 1..rows
  OBVIOUS

(* A position past an earlier one is that of a row.                         *)
LEMMA PositionAdvanced ==
  ASSUME NEW pos \in Nat, NEW earlier \in Nat, NEW rows \in Nat, pos > earlier, pos <= rows
  PROVE  pos \in 1..rows
  OBVIOUS

(* The initial state maps to an initial state of BatchDelivery.             *)
LEMMA DeliveryInit == Init => Delivery!Init
<1> SUFFICES ASSUME Init PROVE Delivery!Init
  OBVIOUS
<1>1. Delivery!Splits = Splits
  BY DEF Delivery!Splits, Splits
<1>2. [s \in Splits |-> records[s].pos] = [s \in Splits |-> 0]
  BY Zenon DEF Init, StoreInit, NoRecord
<1>3. \A s \in Splits : (completedSplits[s] # NoCompletion) = FALSE
  BY Zenon DEF Init, StoreInit
<1>4. [s \in Splits |-> completedSplits[s] # NoCompletion] = [s \in Splits |-> FALSE]
  BY <1>3, Zenon
<1> QED BY <1>1, <1>2, <1>4, Zenon DEF Init, Delivery!Init

(* Every step maps to a step of BatchDelivery or to none.                   *)
LEMMA DeliveryStep ==
  ASSUME ExactlyOnce => FixedBatches, IInv, IInv', ExactlyOnceInv, [Next]_vars
  PROVE  [Delivery!Next]_(Delivery!vars)
<1>h. TypeOK /\ TypeOK' /\ TaskBounds
  BY DEF IInv
<1>s. Delivery!Splits = Splits
  BY DEF Delivery!Splits, Splits
<1>1. CASE UNCHANGED <<store, inserted, repeated>>
  BY <1>1 DEF Delivery!vars, store
<1>2. ASSUME NEW c \in Coordinators, NEW s \in Splits, CommitBatch(c, s)
      PROVE  Delivery!Next
  <2> DEFINE first == task[c][s].pos + 1
             last == task[c][s].pos + task[c][s].size
  <2>1. task[c][s].pos \in Nat /\ task[c][s].size \in Nat /\ RowCount[s] \in Nat
    <3>1. task[c][s] \in TaskSet
      BY Zenon, <1>h DEF TypeOK
    <3>2. RowCount[s] \in Nat
      BY Zenon, ExecutionAssumption
    <3> QED BY Zenon, <3>1, <3>2 DEF TaskSet
  <2>2. task[c][s].size > 0 /\ last <= RowCount[s]
    BY Zenon, <1>h, <1>2 DEF TaskBounds, BoundsOK, CommitBatch, HoldsBatch
  <2>3. first \in 1..RowCount[s] /\ last \in 1..RowCount[s]
    BY <2>1, <2>2, BatchEnds, Zenon
  <2>4. BatchRows(c, s) = first..last
    BY Zenon DEF BatchRows
  <2>5. ExactlyOnce => BatchRows(c, s) \cap inserted[s] = {}
    BY <1>2, CommitIsNew DEF CommitBatch, ExactlyOnceInv
  <2> HIDE DEF first, last
  <2>6. /\ inserted' = [inserted EXCEPT ![s] = @ \cup first..last]
        /\ repeated' = [repeated EXCEPT ![s] = @ \cup (first..last \cap inserted[s])]
        /\ UNCHANGED store
    BY <1>2, <2>4, Zenon DEF CommitBatch, WorkerUnchanged
  <2>7. Delivery!Deliver(s, first..last)
    BY Zenon, <2>4, <2>5, <2>6 DEF Delivery!Deliver, store
  <2> QED BY <2>3, <2>7, <1>s DEF Delivery!Next
<1>3. ASSUME NEW c \in Coordinators, CoordinatorStep(c) \/ CoordinatorCrash(c)
      PROVE  [Delivery!Next]_(Delivery!vars)
  <2> DEFINE s == coord[c].split
             durable == [u \in Splits |-> records[u].pos]
             complete == [u \in Splits |-> completedSplits[u] # NoCompletion]
  <2>f. UNCHANGED <<inserted, repeated>>
    BY <1>3, <1>h, CoordinatorFrame, Zenon DEF sink
  <2>1. CASE \E u \in Splits : records'[u] # records[u]
    <3>1. PICK u \in Splits : records'[u] # records[u]
      BY <2>1
    <3>2. /\ u = s /\ Records(c) /\ completedSplits[u] = NoCompletion
          /\ records'[u].pos = task[c][u].pos /\ task[c][u].pos > records[u].pos
      BY <1>3, <3>1, CoordinatorAdvances, Zenon
    <3>3. \A v \in Splits : v # u => records'[v] = records[v]
      BY <1>3, <3>2, CoordinatorAdvances, Zenon
    <3>4. completedSplits' = completedSplits
      BY <3>2 DEF Records, record
    <3>5. durable' = [durable EXCEPT ![u] = task[c][u].pos]
      BY <3>2, <3>3, Zenon
    <3>6. complete' = complete
      BY <3>4
    <3>7. task[c][u].pos \in 1..RowCount[u] /\ 1..task[c][u].pos \subseteq inserted[u]
      <4>0. task[c][u] \in TaskSet /\ records[u] \in RecordSet
        BY Zenon, <1>3, <1>h DEF TypeOK
      <4>1. task[c][u].pos \in Nat /\ records[u].pos \in Nat /\ RowCount[u] \in Nat
        BY <4>0, ExecutionAssumption, Zenon DEF TaskSet, RecordSet
      <4>2. task[c][u].pos <= RowCount[u]
        BY <1>3, <1>h, Zenon DEF TaskBounds, BoundsOK
      <4>3. 1..task[c][u].pos \subseteq inserted[u]
        BY <1>3, Zenon DEF IInv, SinkHolds
      <4>4. task[c][u].pos \in 1..RowCount[u]
        BY <3>2, <4>1, <4>2, PositionAdvanced, Zenon
      <4> QED BY <4>3, <4>4
    <3>8. PICK position \in 1..RowCount[u] : position = task[c][u].pos
      BY <3>7, Zenon
    <3>9. Delivery!Advance(u, position)
      BY <2>f, <3>2, <3>5, <3>6, <3>7, <3>8, Zenon DEF Delivery!Advance
    <3>10. Delivery!Next
      BY <3>9, <1>s DEF Delivery!Next
    <3> QED BY <3>10
  <2>2. CASE \A u \in Splits : records'[u] = records[u]
    <3>1. durable' = durable
      BY <2>2
    <3>2. CASE \E u \in Splits : completedSplits'[u] # completedSplits[u]
      <4>1. PICK u \in Splits : completedSplits'[u] # completedSplits[u]
        BY <3>2
      <4>2. completedSplits[u] = NoCompletion /\ completedSplits'[u] # NoCompletion
        BY Zenon, <1>3, <4>1, CoordinatorKeeps
      <4>3. \A v \in Splits : v # u => completedSplits'[v] = completedSplits[v]
        <5>1. TypeOK /\ EpochsGranted
          BY DEF IInv
        <5>2. \/ Acquires(c) \/ Skips(c) \/ Loads(c) \/ Sends(c) \/ Records(c)
              \/ Receives(c) \/ Completes(c) \/ MovesOn(c)
          BY <1>3, <5>1, CoordinatorMove, Zenon DEF EpochsGranted
        <5>3. Completes(c)
          BY Zenon, <4>1, <5>2 DEF Acquires, Skips, Loads, Sends, Records, Receives, MovesOn, store, record
        <5>4. completedSplits' = [completedSplits EXCEPT ![s] = SplitCompletion(c)]
          BY <5>3 DEF Completes, recordCompletion
        <5>5. completedSplits \in [Splits -> CompletionSet]
          BY Zenon, <1>h DEF TypeOK
        <5> HIDE DEF s
        <5> QED BY <4>1, <5>4, <5>5
      <4>4. complete' = [complete EXCEPT ![u] = TRUE]
        BY <4>2, <4>3, Zenon
      <4>w. CompletionIsWhole'
        BY Zenon DEF IInv
      <4>5. records'[u].pos = RowCount[u]
        BY <4>2, <4>w, Zenon DEF CompletionIsWhole
      <4>6. Delivery!Complete(u)
        BY <2>2, <2>f, <3>1, <4>4, <4>5, Zenon DEF Delivery!Complete
      <4> QED BY <4>6, <1>s DEF Delivery!Next
    <3>3. CASE \A u \in Splits : completedSplits'[u] = completedSplits[u]
      <4>1. complete' = complete
        BY <3>3
      <4> QED BY Zenon, <2>f, <3>1, <4>1 DEF Delivery!vars
    <3> QED BY <3>2, <3>3
  <2> QED BY Zenon, <2>1, <2>2
<1>4. ASSUME NEW c \in Coordinators, NEW s \in Splits, TaskStep(c, s) \/ TaskFails(c, s)
      PROVE  [Delivery!Next]_(Delivery!vars)
  BY <1>1, <1>2, <1>4, <1>h, TaskFrame, Zenon DEF sink
<1>5. ASSUME NEW w \in Workers, WorkerCrash(w) PROVE [Delivery!Next]_(Delivery!vars)
  BY <1>1, <1>5, Zenon DEF WorkerCrash, sink
<1> QED BY <1>1, <1>3, <1>4, <1>5 DEF Next, vars, sink

(* A checkpointed execution implements the delivery a job promises: at      *)
(* least once always, exactly once with fixed batches.                      *)
THEOREM DeliveryImplemented == (ExactlyOnce => FixedBatches) => (Spec => ImplementsDelivery)
<1> SUFFICES ASSUME ExactlyOnce => FixedBatches PROVE Spec => Delivery!Spec
  BY DEF ImplementsDelivery
<1>1. IInv /\ IInv' /\ ExactlyOnceInv /\ [Next]_vars => [Delivery!Next]_(Delivery!vars)
  BY DeliveryStep
<1> QED BY <1>1, DeliveryInit, InvariantHolds, ExactlyOnceHolds, PTL DEF Spec, Delivery!Spec

===============================================================================
