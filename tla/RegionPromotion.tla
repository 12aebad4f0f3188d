---------------------------- MODULE RegionPromotion ----------------------------
(***************************************************************************)
(* Promoting a standby region for a Job (replication/promotion), the       *)
(* revalidation of the sink's capability (replication/capability) and the  *)
(* recovery of the Job's last checkpoint at the target                     *)
(* (replication/recovery and its adapters).  Managers are API servers of   *)
(* the source region that share one PostgreSQL; a call is one PromoteRegion*)
(* request.  A promotion lives in the memory of its manager and as a row,  *)
(* and the row is written only when it is created and when it ends.        *)
(***************************************************************************)
EXTENDS ReplicationLog, RegionTopology

CONSTANTS
    Managers,           \* API servers of the source region
    Keys,               \* idempotency keys of requests
    Targets,            \* regions named by requests
    MaxRetries,         \* Revalidator.MaxRetries
    MaxCalls,           \* bound: requests of a behaviour
    MaxPromotionFaults  \* bound: failed statements, lost answers, crashes

VARIABLES
    calls,              \* requests in progress, numbered
    begun,              \* requests so far
    tracked,            \* manager -> Job -> the promotion it has in memory
    promotions,         \* rows of astrasync_replication_promotions
    revalidator,        \* whether one is configured, and what the sinks need
    standbyLog,         \* sequence -> entry of the target's own log
    manifests,          \* URI -> what the manifest there says
    active,             \* RecoveryManagerBackend.active of the target
    completed,          \* promotions reported complete, with what they used
    promotionFaults

promotionVars == <<calls, begun, tracked, promotions, revalidator, standbyLog, manifests, active, completed, promotionFaults>>
environment == <<revalidator, standbyLog, manifests>>

PromotionFault == promotionFaults < MaxPromotionFaults /\ promotionFaults' = promotionFaults + 1
NoPromotionFault == UNCHANGED promotionFaults

At(c, phase) == c \in calls /\ c.phase = phase
Step(c, next) == calls' = (calls \ {c}) \union {next}
To(c, phase) == Step(c, [c EXCEPT !.phase = phase])
Return(c) == calls' = calls \ {c}

---------------------------------------------------------------------------
(* Until the promotion exists, every error just returns.                    *)

Promote(m, job, target, key, expected) ==
    /\ begun < MaxCalls /\ begun' = begun + 1
    /\ IsStandby(target)
    /\ \A p \in tracked[m][job] : p.complete
    /\ calls' = calls \union {[number |-> begun + 1, manager |-> m, job |-> job, target |-> target, key |-> key,
                               expected |-> expected, epoch |-> expected + 1, capability |-> 0, phase |-> "get"]}
    /\ NoPromotionFault /\ UNCHANGED <<epochs, tracked, promotions, environment, active, completed>>

(* An error of Get counts as no row.                                        *)
Get(c) ==
    /\ At(c, "get")
    /\ LET found == \E p \in promotions : p.key = c.key /\ p.job = c.job
       IN  \/ found /\ Return(c) /\ NoPromotionFault
           \/ ~found /\ To(c, "version") /\ NoPromotionFault
           \/ found /\ To(c, "version") /\ PromotionFault
    /\ UNCHANGED <<epochs, begun, tracked, promotions, environment, active, completed>>

GetEpoch(c) ==
    /\ At(c, "version")
    /\ \/ epochs[c.job] = c.expected /\ To(c, "track") /\ NoPromotionFault
       \/ epochs[c.job] # c.expected /\ Return(c) /\ NoPromotionFault
       \/ Return(c) /\ PromotionFault
    /\ UNCHANGED <<epochs, begun, tracked, promotions, environment, active, completed>>

Track(c) ==
    /\ At(c, "track") /\ To(c, "create")
    /\ tracked' = [tracked EXCEPT ![c.manager][c.job] = {[number |-> c.number, complete |-> FALSE]}]
    /\ NoPromotionFault /\ UNCHANGED <<epochs, begun, promotions, environment, active, completed>>

(* The key is the row's primary key; the promotion that could not be stored *)
(* stays tracked.                                                           *)
(* Mutant: a row of that key is no obstacle.                                *)
CreateAnyway(c) ==
    /\ At(c, "create") /\ To(c, "fence") /\ NoPromotionFault
    /\ promotions' = IF \E p \in promotions : p.key = c.key THEN promotions
                     ELSE promotions \union {[key |-> c.key, job |-> c.job, target |-> c.target,
                                              epoch |-> c.epoch, state |-> "PENDING"]}
    /\ UNCHANGED <<epochs, begun, tracked, environment, active, completed>>
Create(c) ==
    /\ At(c, "create")
    /\ \/ /\ \A p \in promotions : p.key # c.key
          /\ promotions' = promotions \union {[key |-> c.key, job |-> c.job, target |-> c.target,
                                               epoch |-> c.epoch, state |-> "PENDING"]}
          /\ \/ To(c, "fence") /\ NoPromotionFault
             \/ Return(c) /\ PromotionFault
       \/ (\E p \in promotions : p.key = c.key) /\ Return(c) /\ NoPromotionFault /\ UNCHANGED promotions
       \/ Return(c) /\ PromotionFault /\ UNCHANGED promotions
    /\ UNCHANGED <<epochs, begun, tracked, environment, active, completed>>

---------------------------------------------------------------------------
(* From here on the promotion ends in memory and in its row; the write of   *)
(* the row may be lost.                                                     *)

Settled(c) ==
    [tracked EXCEPT ![c.manager][c.job] = {[p EXCEPT !.complete = @ \/ p.number = c.number] : p \in @}]
Update(c, state) ==
    {IF p.key = c.key THEN [p EXCEPT !.epoch = c.epoch, !.state = state] ELSE p : p \in promotions}
(* A step of a promotion that succeeds, is refused or fails.                *)
Proceeds(c, next) == Step(c, next) /\ NoPromotionFault /\ UNCHANGED <<tracked, promotions, completed>>
Ends(c) == Return(c) /\ tracked' = Settled(c) /\ UNCHANGED completed
Refused(c) ==
    /\ Ends(c)
    /\ \/ promotions' = Update(c, "FAILED") /\ NoPromotionFault
       \/ PromotionFault /\ UNCHANGED promotions
Breaks(c) == Ends(c) /\ PromotionFault /\ promotions' \in {Update(c, "FAILED"), promotions}

Fence(c) ==
    /\ At(c, "fence")
    /\ \/ epochs[c.job] = c.expected /\ Proceeds(c, [c EXCEPT !.phase = "assign"])
       \/ epochs[c.job] # c.expected /\ Refused(c)
       \/ Breaks(c)
    /\ UNCHANGED <<epochs, begun, environment, active>>

Assign(c) ==
    /\ At(c, "assign")
    /\ \/ /\ epochs' = [epochs EXCEPT ![c.job] = @ + 1]
          /\ Proceeds(c, [c EXCEPT !.phase = "write", !.epoch = epochs[c.job] + 1])
       \/ Breaks(c) /\ epochs' \in {epochs, [epochs EXCEPT ![c.job] = @ + 1]}
    /\ UNCHANGED <<begun, environment, active>>

(* Mutant: the epoch is written whatever the row holds.                     *)
UpdateEpochAnyway(c) ==
    /\ At(c, "write") /\ epochs' = [epochs EXCEPT ![c.job] = c.epoch]
    /\ Proceeds(c, [c EXCEPT !.phase = "revalidate"]) /\ UNCHANGED <<begun, environment, active>>
UpdateEpoch(c) ==
    /\ At(c, "write")
    /\ \/ /\ epochs[c.job] \in {c.expected, c.epoch} /\ epochs' = [epochs EXCEPT ![c.job] = c.epoch]
          /\ Proceeds(c, [c EXCEPT !.phase = "revalidate"])
       \/ epochs[c.job] \notin {c.expected, c.epoch} /\ Refused(c) /\ UNCHANGED epochs
       \/ Breaks(c) /\ UNCHANGED epochs
    /\ UNCHANGED <<begun, environment, active>>

(* Levels of capability: 0 is the strongest, 3 stands for a failed attempt. *)
Suffices(capability, required) == capability < 3 /\ \A r \in required : capability <= r
Revalidate(c) ==
    /\ At(c, "revalidate")
    /\ \/ /\ revalidator.configured /\ revalidator.reachable
          /\ \E attempts \in [0 .. MaxRetries -> 0 .. 3] :
                LET good == {i \in 0 .. MaxRetries : Suffices(attempts[i], revalidator.required)}
                IN  \/ good = {} /\ Refused(c)
                    \/ \E i \in good : /\ \A j \in good : i <= j
                                       /\ Proceeds(c, [c EXCEPT !.phase = "recover", !.capability = attempts[i]])
       \/ ~(revalidator.configured /\ revalidator.reachable) /\ Refused(c)
    /\ UNCHANGED <<epochs, begun, environment, active>>

---------------------------------------------------------------------------
(* Recovery at the target takes the latest entry of its own log, whatever   *)
(* Job it is of, and the manifest it names.                                 *)

Latest == standbyLog[HighestKey(DOMAIN standbyLog)]
GetLatestCheckpoint ==
    /\ DOMAIN standbyLog # {}
    /\ \A f \in {"job", "epoch", "sequence"} : manifests[Latest.uri][f] = Latest[f]
Validate(manifest) == manifest.sequence > 0 /\ manifest.files = "whole"
(* Mutant: the checkpoint may be another Job's.                             *)
RecoverAny(job, epoch) == GetLatestCheckpoint /\ Latest.epoch <= epoch /\ Validate(manifests[Latest.uri])
Recover(job, epoch) ==
    /\ GetLatestCheckpoint
    /\ Latest.epoch <= epoch /\ Latest.job = job
    /\ Validate(manifests[Latest.uri])

RecoverForPromotion(c) ==
    /\ At(c, "recover")
    /\ LET known == <<c.job, c.key>> \in active
           recovered == known \/ Recover(c.job, c.epoch)
       IN  /\ active' = IF recovered THEN active \union {<<c.job, c.key>>} ELSE active
           /\ \/ recovered /\ Proceeds(c, [c EXCEPT !.phase = "complete"])
              \/ ~recovered /\ Refused(c)
              \/ Breaks(c)
    /\ UNCHANGED <<epochs, begun, environment>>

Complete(c) ==
    /\ At(c, "complete") /\ Return(c) /\ tracked' = Settled(c)
    /\ completed' = completed \union {[job |-> c.job, key |-> c.key, epoch |-> c.epoch,
                                       expected |-> c.expected, capability |-> c.capability]}
    /\ \/ promotions' = Update(c, "COMPLETE") /\ NoPromotionFault
       \/ PromotionFault /\ UNCHANGED promotions
    /\ UNCHANGED <<epochs, begun, environment, active>>

(* A manager's process ends; the target's restarts.                         *)
ManagerRestarts(m) ==
    /\ PromotionFault /\ calls' = {c \in calls : c.manager # m}
    /\ tracked' = [tracked EXCEPT ![m] = [j \in Jobs |-> {}]]
    /\ UNCHANGED <<epochs, begun, promotions, environment, active, completed>>
TargetRestarts ==
    /\ PromotionFault /\ active' = {}
    /\ UNCHANGED <<epochs, calls, begun, tracked, promotions, environment, completed>>

PromotionInit ==
    /\ calls = {} /\ begun = 0 /\ promotions = {} /\ active = {} /\ completed = {} /\ promotionFaults = 0
    /\ tracked = [m \in Managers |-> [j \in Jobs |-> {}]]
PromotionStep(c) ==
    \/ Get(c) \/ GetEpoch(c) \/ Track(c) \/ Create(c) \/ Fence(c) \/ Assign(c) \/ UpdateEpoch(c)
    \/ Revalidate(c) \/ RecoverForPromotion(c) \/ Complete(c)

(* Requests expect one of the given epochs.                                 *)
PromotionNext(expectations) ==
    \/ \E m \in Managers, j \in Jobs, t \in Targets, k \in Keys, e \in expectations : Promote(m, j, t, k, e)
    \/ \E c \in calls : PromotionStep(c)
    \/ \E m \in Managers : ManagerRestarts(m)
    \/ TargetRestarts
PromotionSpec ==
    /\ PromotionInit /\ epochs \in [Jobs -> Nat]
    /\ [][PromotionNext(Nat)]_<<epochs, promotionVars>>

---------------------------------------------------------------------------
(* A row that says how a promotion ended says the truth, and for ever       *)
(* (promotion.go:316-440, postgres.go:138-153).                             *)
RowsAreFinal ==
    [][\A p \in promotions, q \in promotions' :
          p.key = q.key =>
             /\ p.job = q.job /\ (p.state # "PENDING" => q = p)
             /\ q.state = "COMPLETE" => \E r \in completed' : r.key = q.key /\ r.epoch = q.epoch]_promotionVars

(* The epoch of a Job never goes back, and no two promotions complete with  *)
(* the same epoch, whichever managers run them (postgres.go:73-123); and    *)
(* what they have recorded of an end they leave alone (see RowsAreFinal).   *)
EpochsOnlyGrow ==
    /\ RowsAreFinal
    /\ [][\A j \in Jobs : epochs[j] <= epochs'[j]]_<<epochs, promotionVars>>
    /\ [](\A p, q \in completed : p.job = q.job /\ p.epoch = q.epoch => p.key = q.key)

(* A promotion is reported complete only after the target recovered a whole *)
(* checkpoint of that Job no newer than the promotion's epoch, and a sink   *)
(* gave the capability the Job needs (promotion.go:398-422, recovery.go).   *)
CompletionIsEarned ==
    \A p \in completed :
       /\ revalidator.configured /\ Suffices(p.capability, revalidator.required)
       /\ DOMAIN standbyLog # {} /\ Latest.job = p.job /\ Latest.epoch <= p.epoch
       /\ manifests[Latest.uri].job = p.job /\ manifests[Latest.uri].files = "whole"

===============================================================================
