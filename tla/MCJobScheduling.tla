--------------------------- MODULE MCJobScheduling ----------------------------
(* Instances of JobScheduling for TLC.                                      *)
EXTENDS JobScheduling, TLC

MCExecutions == Jobs \X (1..MaxEpoch)

Replicas == Permutations(Schedulers)

===============================================================================
