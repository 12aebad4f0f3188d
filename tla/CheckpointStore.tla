---------------------------- MODULE CheckpointStore ----------------------------
(***************************************************************************)
(* The durable checkpoint manifest of one job (FileCheckpointStore).       *)
(*                                                                         *)
(* Every operation runs under the store's monitor and the job's file lock  *)
(* and ends in at most one atomic rename, so each is one atomic step.  The *)
(* split plan is the same in every execution.                              *)
(***************************************************************************)
EXTENDS Integers

CONSTANT NumSplits  \* splits of the enumerated plan

ASSUME NumSplitsAssumption == NumSplits \in Nat

VARIABLES
    nextExecutionEpoch,  \* manifest.nextExecutionEpoch
    records,             \* manifest.records, by split
    completedSplits      \* manifest.completedSplits, by split

store == <<nextExecutionEpoch, records, completedSplits>>

Splits == 1..NumSplits

(* A missing record; sequences of real records are positive.                *)
NoRecord == [epoch |-> 0, seq |-> 0, pos |-> 0, token |-> <<>>, digest |-> <<>>]

(* A missing completion; "by" holds the execution whose result it carries,  *)
(* which tells completions of two executions apart as their timings do.     *)
NoCompletion == [epoch |-> 0, seq |-> 0, by |-> {}]

activeEpoch == nextExecutionEpoch - 1

StoreInit ==
    /\ nextExecutionEpoch = 1
    /\ records = [s \in Splits |-> NoRecord]
    /\ completedSplits = [s \in Splits |-> NoCompletion]

(* A request of 0 allocates the next epoch; an explicit epoch is idempotent *)
(* for the active epoch and may otherwise only be the next one.             *)
AcquireAccepted(requested) ==
    requested = 0 \/ requested \in {activeEpoch, nextExecutionEpoch}

GrantedEpoch(requested) ==
    IF requested = 0 THEN nextExecutionEpoch ELSE requested

acquireEpoch(requested) ==
    /\ AcquireAccepted(requested)
    /\ nextExecutionEpoch' = GrantedEpoch(requested) + 1
    /\ UNCHANGED <<records, completedSplits>>

(* A mistake the properties must notice: a store that takes any sequence of *)
(* the active epoch.                                                        *)
RecordAcceptedAnySequence(s, checkpoint) ==
    /\ checkpoint.epoch = activeEpoch
    /\ completedSplits[s] = NoCompletion

RecordAccepted(s, checkpoint) ==
    /\ checkpoint.epoch = activeEpoch
    /\ completedSplits[s] = NoCompletion
    /\ checkpoint.epoch >= records[s].epoch
    /\ \/ checkpoint = records[s]
       \/ checkpoint.seq = records[s].seq + 1

record(s, checkpoint) ==
    /\ RecordAccepted(s, checkpoint)
    /\ records' = [records EXCEPT ![s] = checkpoint]
    /\ UNCHANGED <<nextExecutionEpoch, completedSplits>>

CompletionAccepted(s, completion) ==
    /\ completion.epoch = activeEpoch
    /\ \/ completedSplits[s] = completion
       \/ completedSplits[s] = NoCompletion /\ completion.seq = records[s].seq

recordCompletion(s, completion) ==
    /\ CompletionAccepted(s, completion)
    /\ completedSplits' = [completedSplits EXCEPT ![s] = completion]
    /\ UNCHANGED <<nextExecutionEpoch, records>>

===============================================================================
