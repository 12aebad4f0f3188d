------------------------- MODULE MCCheckpointExecution -------------------------
(* Instances of CheckpointExecution for TLC.                                *)
EXTENDS CheckpointExecution, TLC

CONSTANTS c1, c2, c3, w1, w2

(* Explicit epochs, as the scheduler passes them: an execution of epoch 1,  *)
(* the retry of its pod, and an execution of epoch 2.                       *)
RetryEpochs == (c1 :> 1) @@ (c2 :> 1) @@ (c3 :> 2)
RetrySymmetry == Permutations({c1, c2})
TwoEpochs == (c1 :> 1) @@ (c2 :> 2)

(* A Coordinator started by hand, whose epoch the store allocates, and one  *)
(* the scheduler started with the epoch after it.                           *)
MixedEpochs == (c1 :> 0) @@ (c2 :> 2)

(* The scheduler gives every epoch Workers of its own.                      *)
WorkerPerEpoch == [c \in Coordinators |->
                      [s \in Splits |-> IF RequestedEpoch[c] = 1 THEN w1 ELSE w2]]

(* One Coordinator configured with both Workers, which takes them in turn,  *)
(* and one with w1 alone: split 2 runs on w1 for both.                      *)
OverlappingWorkers == [c \in Coordinators |->
    [s \in Splits |-> IF c = c2 /\ s % 2 = 1 THEN w2 ELSE w1]]

ThreeRows == [s \in Splits |-> 3]
TwoRows == [s \in Splits |-> 2]
RowsBySplit == [s \in Splits |-> s]
===============================================================================
