------------------------------- MODULE MCReplicas ------------------------------
(* Replicas of the Scheduler for TLC: two that take one execution from each  *)
(* other, or one and a Job that is started again.                            *)
EXTENDS MCJobScheduling

VARIABLE resting        \* the replicas that are never started

ReplicaSpec ==
    /\ Init /\ resting \in SUBSET Schedulers \ {Schedulers}
    /\ [][/\ Next /\ UNCHANGED resting
          /\ \A s \in resting : ticks'[s].at = "idle"
          /\ resting = {} => \A j \in Jobs : jobs'[j].epoch <= 1]_<<vars, resting>>

===============================================================================
