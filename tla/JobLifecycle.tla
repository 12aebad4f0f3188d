----------------------------- MODULE JobLifecycle -----------------------------
(***************************************************************************)
(* The lifecycle of a stored Job: what Start, Stop, an observation of the  *)
(* execution, a new spec and a deletion make of it, and the optimistic     *)
(* write every caller ends in.  Times, restart count and failure details   *)
(* follow from the state and the epoch and are left out.                   *)
(***************************************************************************)
EXTENDS Naturals

Desired == {"STOPPED", "RUNNING"}
JobStates == {"CREATED", "INITIALIZING", "RUNNING", "CANCELING",
              "CANCELED", "FINISHED", "FAILED"}

JobTerminal(state) == state \in {"CANCELED", "FINISHED", "FAILED"}
JobActive(state) == state \in {"INITIALIZING", "RUNNING", "CANCELING"}

(* A Job that does not exist; versions of stored Jobs are positive.         *)
NoJob == [version |-> 0, desired |-> "STOPPED", state |-> "CREATED", epoch |-> 0]

NewJob == [NoJob EXCEPT !.version = 1]

(* RequestStart answers an unchanged Job when it is already starting or     *)
(* running, an error when it is being canceled, else a new epoch.           *)
StartSatisfied(j) ==
    j.desired = "RUNNING" /\ j.state \in {"INITIALIZING", "RUNNING"}

StartRefused(j) == j.state = "CANCELING"

StartAccepted(j) == ~StartSatisfied(j) /\ ~StartRefused(j)

Started(j) ==
    [j EXCEPT !.epoch = @ + 1, !.desired = "RUNNING", !.state = "INITIALIZING"]

(* RequestStop answers an unchanged Job when STOPPED is already desired.    *)
StopSatisfied(j) == j.desired = "STOPPED"

StopAccepted(j) ==
    /\ ~StopSatisfied(j)
    /\ j.state \in {"INITIALIZING", "RUNNING", "CANCELED", "FINISHED", "FAILED"}

Stopped(j) ==
    [j EXCEPT !.desired = "STOPPED",
              !.state = IF JobTerminal(j.state) THEN j.state ELSE "CANCELING"]

(* A mistake the properties must notice: a canceled Job cannot end.         *)
allowedTransitionNoCancel(current, next) ==
    \/ current = "INITIALIZING" /\ next \in {"RUNNING", "FAILED"}
    \/ current = "RUNNING" /\ next \in {"FINISHED", "FAILED"}

allowedTransition(current, next) ==
    \/ current = "INITIALIZING" /\ next \in {"RUNNING", "FAILED"}
    \/ current = "RUNNING" /\ next \in {"FINISHED", "FAILED"}
    \/ current = "CANCELING" /\ next \in {"CANCELED", "FAILED"}

AdvanceAccepted(j, epoch, state) ==
    epoch = j.epoch /\ allowedTransition(j.state, state)

Advanced(j, state) ==
    [j EXCEPT !.state = state,
              !.desired = IF JobTerminal(state) THEN "STOPPED" ELSE @]

(* What Validate asks of a Job before it is written and after it is read.   *)
StatusValid(j) ==
    /\ j.desired \in Desired /\ j.state \in JobStates
    /\ (j.state = "CREATED") = (j.epoch = 0)
    /\ (j.state \in {"INITIALIZING", "RUNNING"}) = (j.desired = "RUNNING")

JobValid(j) == j.version > 0 /\ StatusValid(j)

(* A mistake the properties must notice: the version is not compared.       *)
UpdateAcceptedUnversioned(stored, candidate) ==
    stored # NoJob /\ stored.epoch <= candidate.epoch

(* Repository.Update: a compare-and-set on the version that also refuses an *)
(* older epoch.                                                             *)
UpdateAccepted(stored, candidate) ==
    /\ JobValid(candidate)
    /\ stored # NoJob
    /\ stored.version = candidate.version
    /\ stored.epoch <= candidate.epoch

Updated(candidate) == [candidate EXCEPT !.version = @ + 1]

===============================================================================
