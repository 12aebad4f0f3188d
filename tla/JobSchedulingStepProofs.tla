----------------------- MODULE JobSchedulingStepProofs -----------------------
(***************************************************************************)
(* Proofs about JobScheduling, for any Jobs, replicas, epochs and          *)
(* capacity.  Each goroutine acts on what it read of a Job or a row some   *)
(* steps ago; the invariant says what is still true of it, and why: an     *)
(* epoch only grows, a version names one content of a Job, and an end is   *)
(* kept until the next start.                                              *)
(***************************************************************************)
EXTENDS JobScheduling, TLAPS

(* No leaf depends on how busy the machine is: each prover may take longer  *)
(* than its default of a few seconds.                                       *)
USE SMTT(30), ZenonT(30)

-------------------------------------------------------------------------------
(* The invariant.  Its parts take the state they speak of as arguments: j   *)
(* is a Job, t a goroutine, g a group and d the executions that ran to      *)
(* their end.                                                               *)

(* The epoch of i has been started, unless its Job is gone.                 *)
Begun(i, j) == j = NoJob \/ EpochOf(i) <= j.epoch

(* A version names one content: what was read is the Job, or an older one.  *)
Outdated(read, j) == j = NoJob \/ read = j \/ read.version < j.version

(* The decision of a goroutine that is about to write a state.              *)
Decided(i, t, d) ==
    \/ t.flow = "run" /\ t.target \in {"RUNNING", "FAILED"}
    \/ t.flow = "run" /\ t.target = "FINISHED" /\ i \in d
    \/ t.flow = "cancel" /\ t.target = "CANCELED"
    \/ t.flow = "heartbeat" /\ t.target = "FAILED"

(* If i is still the current execution its Job has ended, in the state the  *)
(* goroutine is going to record.                                            *)
EndKnown(i, j, t) ==
    JobTerminal(t.target) /\ (j.epoch = EpochOf(i) => j.state = t.target)

(* What a goroutine t for i knows of the Job j, by its location.            *)
Knows(i, j, t, d) ==
    /\ t.at # "idle" => Begun(i, j)
    /\ t.at \in {"get", "keep", "observe", "ensure", "create"} => t.flow = "run"
    /\ t.at = "halt" => t.flow = "cancel" /\ t.target = "CANCELED"
    /\ t.at \in {"read", "write"} => Decided(i, t, d)
    /\ t.at = "write" =>
         /\ t.read.epoch = EpochOf(i)
         /\ allowedTransition(t.read.state, NextState(t.read, t))
         /\ Outdated(t.read, j)
    /\ t.at \in {"stop", "gone"} =>
         \/ t.flow = "cancel" /\ t.target = "CANCELED"
         \/ t.flow \in {"stale", "ended", "heartbeat"} /\ EndKnown(i, j, t)
    /\ t.at = "cleanup" => t.flow = "ended" /\ EndKnown(i, j, t)
    /\ t.at = "complete" => EndKnown(i, j, t)

(* The goroutine of the owner of a row that is being stopped knows it is.   *)
Heeds(s, row, t) ==
    /\ t.at = "keep" => t.phase # "STOPPING"
    /\ row.owner = {s} /\ row.phase = "STOPPING" =>
         \/ t.at \in {"idle", "complete"}
         \/ /\ t.phase = "STOPPING"
            /\ t.at \notin {"keep", "observe", "ensure", "create", "fence"}
            /\ t.at \in {"read", "write"} => t.flow # "run"

(* A row belongs to an epoch that was started, and ends as the Job did.     *)
RowTrue(i, row, j) ==
    /\ row # NoRow => EpochOf(i) <= j.epoch
    /\ j.epoch = EpochOf(i) /\ row.phase \in TerminalPhases =>
          JobTerminal(j.state) /\ row.phase = phaseForTerminalState(j.state)

FinishEarned(i, j, d) == j.epoch = EpochOf(i) /\ j.state = "FINISHED" => i \in d

(* So does a group, and what its checkpoint store has granted.              *)
GroupTrue(i, g, j, e, d) ==
    /\ g # NoGroup => Begun(i, j)
    /\ g.coordinator = "complete" => i \in d
    /\ j = NoJob \/ e <= j.epoch

IInv ==
    /\ TypeOK
    /\ \A j \in Jobs : jobs[j] = NoJob \/ JobValid(jobs[j])
    /\ \A i \in Executions :
         /\ RowTrue(i, rows[i], jobs[JobOf(i)])
         /\ FinishEarned(i, jobs[JobOf(i)], done)
         /\ GroupTrue(i, kube[i], jobs[JobOf(i)], epochs[JobOf(i)], done)
    /\ \A s \in Schedulers, i \in Executions :
         /\ Knows(i, jobs[JobOf(i)], work[s][i], done)
         /\ Heeds(s, rows[i], work[s][i])

-------------------------------------------------------------------------------
(* The operators.                                                           *)

(* What was read of a Job and has its version is the Job.                   *)
LEMMA SameVersion ==
    ASSUME NEW read, NEW j, Outdated(read, j), j # NoJob, j.version \in Nat, read.version = j.version
    PROVE  read = j
BY DEF Outdated

(* An execution is a Job and one of the epochs it may be started with, and  *)
(* is given by the two.                                                     *)
LEMMA ExecutionParts ==
    ASSUME NEW i \in Executions
    PROVE  /\ JobOf(i) \in Jobs
           /\ EpochOf(i) \in Nat \ {0} /\ EpochOf(i) <= MaxEpoch /\ MaxEpoch \in Nat
           /\ \A k \in Executions : JobOf(k) = JobOf(i) /\ EpochOf(k) = EpochOf(i) => k = i
BY SchedulingAssumption DEF JobOf, EpochOf

(* The goroutine that does nothing is one.                                  *)
LEMMA IdleType ==
    /\ NoJob \in JobSet /\ NoJob.version = 0 /\ NoJob.epoch = 0
    /\ Idle \in GoroutineSet
    /\ Idle.at = "idle" /\ Idle.flow = "run" /\ Idle.target = "RUNNING"
    /\ Idle.phase = "CLAIMED" /\ Idle.beat = "fresh" /\ Idle.first = FALSE
    /\ Idle.seen = "absent" /\ Idle.read = NoJob
<1>1. NoJob \in JobSet /\ NoJob.version = 0 /\ NoJob.epoch = 0
  BY SchedulingAssumption DEF NoJob, JobSet, Desired, JobStates
<1> QED
  BY <1>1 DEF Idle, GoroutineSet, Locations, JobStates, Coordinators, ActivePhases, BeatingPhases

(* One that begins with a row copies its phase.                             *)
LEMMA BeginType ==
    ASSUME NEW row \in RowSet, row.phase \in ActivePhases
    PROVE  /\ Begin(row) \in GoroutineSet
           /\ Begin(row).at = "get" /\ Begin(row).flow = "run" /\ Begin(row).phase = row.phase
BY Zenon, IdleType DEF Begin, GoroutineSet, RowSet, Locations

(* Go moves a goroutine to a location and keeps the locals used from there. *)
LEMMA GoMoves ==
    ASSUME NEW t \in GoroutineSet, NEW at \in Locations \ {"idle", "get"}
    PROVE  /\ Go(t, at) \in GoroutineSet
           /\ Go(t, at).at = at
           /\ at \in {"keep", "observe", "ensure", "create"} =>
                Go(t, at) = [t EXCEPT !.at = at]
           /\ at \in {"halt", "renew"} => Go(t, at).phase = t.phase
           /\ at = "halt" => Go(t, at).flow = t.flow /\ Go(t, at).target = t.target
           /\ at \in {"read", "write", "stop", "gone", "cleanup"} =>
                /\ Go(t, at).flow = t.flow /\ Go(t, at).target = t.target
                /\ Go(t, at).read = t.read
                /\ t.flow # "run" => Go(t, at).phase = t.phase
           /\ at = "complete" => Go(t, at).target = t.target
<1> USE IdleType DEF Locations
<1>1. CASE at \in {"keep", "observe", "ensure", "create"}
  BY <1>1 DEF Go, GoroutineSet
<1>2. CASE at \in {"halt", "renew"}
  <2>1. Go(t, at) = [Idle EXCEPT !.at = at, !.phase = t.phase,
                         !.flow = IF at = "halt" THEN t.flow ELSE @,
                         !.target = IF at = "halt" THEN t.target ELSE @]
    BY <1>2 DEF Go
  <2> QED
    BY ZenonT(60), <1>2, <2>1 DEF GoroutineSet
<1>3. CASE at \in {"read", "write", "stop", "gone", "cleanup"}
  <2>1. Go(t, at) = [t EXCEPT !.at = at, !.phase = IF t.flow = "run" THEN Idle.phase ELSE @,
                              !.beat = Idle.beat, !.first = FALSE, !.seen = Idle.seen]
    BY <1>3 DEF Go
  <2>2. Go(t, at).read = t.read /\ Go(t, at).flow = t.flow /\ Go(t, at).target = t.target
        /\ Go(t, at).at = at
        /\ (t.flow # "run" => Go(t, at).phase = t.phase)
    BY <1>3, <2>1 DEF GoroutineSet
  <2>3. Go(t, at) \in GoroutineSet
    BY ZenonT(60), <1>3, <2>1 DEF GoroutineSet
  <2> QED
    BY <1>3, <2>2, <2>3
<1>4. CASE at = "complete"
  BY ZenonT(60), <1>4 DEF Go, GoroutineSet
<1>5. CASE at = "fence"
  BY <1>5 DEF Go, GoroutineSet
<1> QED
  BY <1>1, <1>2, <1>3, <1>4, <1>5

-------------------------------------------------------------------------------
(* How a stored Job changes.                                                *)

(* A Job is removed, or gets a newer version whose epoch is no older and    *)
(* which, in the same epoch, keeps an end.                                  *)
Evolves(a, b) ==
    \/ b = a
    \/ b = NoJob
    \/ /\ a # NoJob /\ b # NoJob
       /\ a.version < b.version /\ a.epoch <= b.epoch
       /\ a.epoch = b.epoch /\ JobTerminal(a.state) => b.state = a.state

(* A step lets every Job evolve.                                            *)
JobsEvolve == \A j \in Jobs : Evolves(jobs[j], jobs'[j])

(* What a goroutine knows of a Job stays true when the Job changes.         *)
LEMMA KnowledgeLasts ==
    ASSUME NEW i \in Executions, NEW t \in GoroutineSet, NEW d,
           NEW a \in JobSet, NEW b \in JobSet,
           Evolves(a, b), Knows(i, a, t, d)
    PROVE  Knows(i, b, t, d)
<1> USE ExecutionParts, IdleType
<1>0. /\ a.version \in Nat /\ b.version \in Nat /\ t.read.version \in Nat
      /\ a.epoch \in Nat /\ b.epoch \in Nat
  BY DEF JobSet, GoroutineSet
<1>1. t.at # "idle" => Begun(i, b)
  BY <1>0 DEF Evolves, Knows, Begun
<1>2. Outdated(t.read, a) => Outdated(t.read, b)
  BY <1>0 DEF Evolves, Outdated
<1>3. Begun(i, a) /\ EndKnown(i, a, t) => EndKnown(i, b, t)
  BY <1>0 DEF Evolves, Begun, EndKnown
<1> QED
  BY <1>1, <1>2, <1>3 DEF Knows

(* And so does what is recorded of it in its rows and in the cluster.       *)
LEMMA RecordsLast ==
    ASSUME NEW i \in Executions, NEW a \in JobSet, NEW b \in JobSet, Evolves(a, b)
    PROVE  /\ \A row : RowTrue(i, row, a) /\ (b # NoJob \/ row = NoRow) => RowTrue(i, row, b)
           /\ \A g, d : \A e \in Nat : GroupTrue(i, g, a, e, d) => GroupTrue(i, g, b, e, d)
<1> USE ExecutionParts, IdleType
<1>0. a.version \in Nat /\ b.version \in Nat /\ a.epoch \in Nat /\ b.epoch \in Nat
  BY DEF JobSet
<1>1. ASSUME NEW row, RowTrue(i, row, a), b # NoJob \/ row = NoRow
      PROVE  RowTrue(i, row, b)
  BY <1>0, <1>1 DEF RowTrue, Evolves, NoRow, TerminalPhases
<1>2. ASSUME NEW g, NEW d, NEW e \in Nat, GroupTrue(i, g, a, e, d)
      PROVE  GroupTrue(i, g, b, e, d)
  BY <1>0, <1>2 DEF GroupTrue, Evolves, Begun
<1> QED
  BY <1>1, <1>2

(* Start, Stop and an observation make a valid Job evolve into another one. *)
LEMMA JobEvolves ==
    ASSUME NEW j \in JobSet, JobValid(j)
    PROVE  /\ StartAccepted(j) /\ j.epoch < MaxEpoch =>
                /\ Updated(Started(j)) \in JobSet /\ JobValid(Updated(Started(j)))
                /\ Updated(Started(j)).state = "INITIALIZING"
                /\ Evolves(j, Updated(Started(j)))
           /\ StopAccepted(j) =>
                /\ Updated(Stopped(j)) \in JobSet /\ JobValid(Updated(Stopped(j)))
                /\ Updated(Stopped(j)).state = "FINISHED" => j.state = "FINISHED"
                /\ Updated(Stopped(j)).epoch = j.epoch
                /\ Evolves(j, Updated(Stopped(j)))
           /\ \A state \in JobStates :
                allowedTransition(j.state, state) /\ JobValid(Advanced(j, state)) =>
                  /\ Updated(Advanced(j, state)) \in JobSet
                  /\ JobValid(Updated(Advanced(j, state)))
                  /\ Updated(Advanced(j, state)).state = state
                  /\ Updated(Advanced(j, state)).epoch = j.epoch
                  /\ Evolves(j, Updated(Advanced(j, state)))
<1>0. /\ j.version \in Nat /\ j.epoch \in Nat /\ j.state \in JobStates
      /\ j # NoJob
      /\ \A b \in JobSet : JobValid(b) => b # NoJob
  BY IdleType DEF JobSet, JobValid
<1>1. ASSUME NEW c \in JobSet
      PROVE  /\ Updated(c) \in JobSet
             /\ Updated(c).version = c.version + 1
             /\ Updated(c).state = c.state /\ Updated(c).epoch = c.epoch
             /\ Updated(c).desired = c.desired
  BY DEF Updated, JobSet
<1>2. ASSUME NEW c \in JobSet, c.version = j.version, StatusValid(c)
      PROVE  JobValid(Updated(c)) /\ Updated(c).version > j.version
  BY <1>0, <1>1, <1>2 DEF JobValid, StatusValid
<1>3. ASSUME StartAccepted(j), j.epoch < MaxEpoch
      PROVE  /\ Started(j) \in JobSet /\ Started(j).version = j.version
             /\ Started(j).state = "INITIALIZING" /\ Started(j).epoch = j.epoch + 1
             /\ StatusValid(Started(j))
  <2>1. j.epoch + 1 \in 0..MaxEpoch
    BY <1>3, SchedulingAssumption DEF JobSet
  <2>2. Started(j) = [j EXCEPT !.epoch = j.epoch + 1, !.desired = "RUNNING", !.state = "INITIALIZING"]
    BY DEF Started
  <2>3. /\ Started(j) \in JobSet /\ Started(j).version = j.version
        /\ Started(j).state = "INITIALIZING" /\ Started(j).epoch = j.epoch + 1
        /\ Started(j).desired = "RUNNING"
    BY Zenon, <2>1, <2>2 DEF JobSet, Desired, JobStates
  <2> QED
    BY <1>0, <2>3 DEF StatusValid, Desired, JobStates
<1>4. ASSUME StopAccepted(j)
      PROVE  /\ Stopped(j) \in JobSet /\ Stopped(j).version = j.version
             /\ Stopped(j).state = IF JobTerminal(j.state) THEN j.state ELSE "CANCELING"
             /\ Stopped(j).epoch = j.epoch
             /\ StatusValid(Stopped(j))
  <2> DEFINE end == IF JobTerminal(j.state) THEN j.state ELSE "CANCELING"
  <2>1. end \in JobStates
    BY <1>0 DEF JobStates
  <2>2. Stopped(j) = [j EXCEPT !.desired = "STOPPED", !.state = end]
    BY DEF Stopped
  <2> HIDE DEF end
  <2>3. /\ Stopped(j) \in JobSet /\ Stopped(j).version = j.version
        /\ Stopped(j).state = end /\ Stopped(j).epoch = j.epoch
        /\ Stopped(j).desired = "STOPPED"
    BY Zenon, <2>1, <2>2 DEF JobSet, Desired
  <2>4. end \in {"CANCELING", "CANCELED", "FINISHED", "FAILED"} /\ j.epoch # 0
    BY <1>0, <1>4 DEF end, JobTerminal, StopAccepted, JobValid, StatusValid
  <2>5. StatusValid(Stopped(j))
    BY <2>1, <2>3, <2>4 DEF StatusValid, Desired
  <2> QED
    BY <2>3, <2>5 DEF end
<1>5. ASSUME NEW state \in JobStates
      PROVE  /\ Advanced(j, state) \in JobSet /\ Advanced(j, state).version = j.version
             /\ Advanced(j, state).state = state /\ Advanced(j, state).epoch = j.epoch
  BY Zenon DEF Advanced, JobSet, Desired
<1>6. ASSUME NEW state \in JobStates, allowedTransition(j.state, state)
      PROVE  ~JobTerminal(j.state)
  BY <1>6 DEF allowedTransition, JobTerminal
<1>7. ASSUME StartAccepted(j), j.epoch < MaxEpoch
      PROVE  /\ Updated(Started(j)) \in JobSet /\ JobValid(Updated(Started(j)))
             /\ Updated(Started(j)).state = "INITIALIZING"
             /\ Evolves(j, Updated(Started(j)))
  BY <1>0, <1>1, <1>2, <1>3, <1>7 DEF Evolves
<1>8. ASSUME StopAccepted(j)
      PROVE  /\ Updated(Stopped(j)) \in JobSet /\ JobValid(Updated(Stopped(j)))
             /\ Updated(Stopped(j)).state = "FINISHED" => j.state = "FINISHED"
             /\ Updated(Stopped(j)).epoch = j.epoch
             /\ Evolves(j, Updated(Stopped(j)))
  BY <1>0, <1>1, <1>2, <1>4, <1>8 DEF Evolves
<1>9. ASSUME NEW state \in JobStates, allowedTransition(j.state, state), JobValid(Advanced(j, state))
      PROVE  /\ Updated(Advanced(j, state)) \in JobSet
             /\ JobValid(Updated(Advanced(j, state)))
             /\ Updated(Advanced(j, state)).state = state
             /\ Updated(Advanced(j, state)).epoch = j.epoch
             /\ Evolves(j, Updated(Advanced(j, state)))
  <2>1. StatusValid(Advanced(j, state))
    BY <1>9 DEF JobValid
  <2> QED
    BY <1>0, <1>1, <1>2, <1>5, <1>6, <1>9, <2>1 DEF Evolves
<1> QED
  BY <1>7, <1>8, <1>9

-------------------------------------------------------------------------------
(* Steps.                                                                   *)

(* A step of the goroutine of s for i, which may change the row and the     *)
(* group of i: it is enough to look at the goroutine, the row and the group.*)
LEMMA GoroutineMoves ==
    ASSUME IInv,
           NEW s \in Schedulers, NEW i \in Executions,
           NEW u \in GoroutineSet, work' = [work EXCEPT ![s][i] = u],
           NEW r \in RowSet, rows' = [rows EXCEPT ![i] = r],
           NEW g \in GroupSet, kube' = [kube EXCEPT ![i] = g],
           UNCHANGED <<jobs, epochs, ticks, faults, done>>,
           r = rows[i] \/ r.owner = {s},
           RowTrue(i, r, jobs[JobOf(i)]),
           GroupTrue(i, g, jobs[JobOf(i)], epochs[JobOf(i)], done),
           Knows(i, jobs[JobOf(i)], u, done),
           Heeds(s, r, u)
    PROVE  IInv'
<1>1. TypeOK'
  BY DEF IInv, TypeOK
<1>2. \A k \in Executions :
        /\ RowTrue(k, rows'[k], jobs[JobOf(k)])
        /\ GroupTrue(k, kube'[k], jobs[JobOf(k)], epochs[JobOf(k)], done)
  BY DEF IInv, TypeOK
<1>3. ASSUME NEW p \in Schedulers, NEW k \in Executions
      PROVE  Knows(k, jobs[JobOf(k)], work'[p][k], done) /\ Heeds(p, rows'[k], work'[p][k])
  <2>1. work'[p][k] = IF p = s /\ k = i THEN u ELSE work[p][k]
    BY DEF IInv, TypeOK
  <2>2. rows'[k] = IF k = i THEN r ELSE rows[k]
    BY DEF IInv, TypeOK
  <2>3. Knows(k, jobs[JobOf(k)], work[p][k], done) /\ Heeds(p, rows[k], work[p][k])
    BY DEF IInv
  <2>4. CASE p = s /\ k = i
    BY <2>1, <2>2, <2>4
  <2>5. CASE k # i
    BY <2>1, <2>2, <2>3, <2>5
  <2>6. CASE k = i /\ p # s
    BY <2>1, <2>2, <2>3, <2>6 DEF Heeds
  <2> QED
    BY <2>4, <2>5, <2>6
<1> QED
  BY <1>1, <1>2, <1>3 DEF IInv

(* What an idle goroutine has to know is nothing.                           *)
LEMMA IdleKnows ==
    \A s, i, j, d, row : Knows(i, j, Idle, d) /\ Heeds(s, row, Idle)
BY IdleType DEF Knows, Heeds

(* t may be the goroutine of s for i, given the row, the Job and the ends.  *)
Fits(s, i, row, j, t, d) ==
    t \in GoroutineSet /\ Knows(i, j, t, d) /\ Heeds(s, row, t)

(* The goroutine is about to record that a Job is CANCELED.                 *)
Cancels(t) == t.at \in {"read", "write"} /\ t.flow = "cancel"

(* Leaving for "renew" needs no more than an epoch that was begun and a     *)
(* phase that is not forgotten.                                             *)
LEMMA RenewFits ==
    ASSUME NEW s, NEW i \in Executions, NEW row, NEW j \in JobSet, NEW d,
           NEW t \in GoroutineSet, Begun(i, j),
           row.owner = {s} /\ row.phase = "STOPPING" => t.phase = "STOPPING"
    PROVE  Fits(s, i, row, j, Go(t, "renew"), d) /\ ~Cancels(Go(t, "renew"))
<1>1. "renew" \in Locations \ {"idle", "get"}
  BY DEF Locations
<1> QED
  BY <1>1, GoMoves DEF Fits, Knows, Heeds, Cancels

(* reconcile's branches: a Job that was read is judged as it is.            *)
LEMMA RouteFits ==
    ASSUME NEW s, NEW i \in Executions, NEW row, NEW j \in JobSet, NEW d, NEW t,
           Fits(s, i, row, j, t, d), t.at = "get", j = NoJob \/ JobValid(j)
    PROVE  Fits(s, i, row, j, Route(j, i, t), d) /\ ~Cancels(Route(j, i, t))
<1>0. /\ t \in GoroutineSet /\ Begun(i, j) /\ t.flow = "run"
      /\ row.owner = {s} /\ row.phase = "STOPPING" => t.phase = "STOPPING"
  BY DEF Fits, Knows, Heeds
<1>1. {"renew", "stop", "cleanup", "halt", "read", "keep"} \subseteq Locations \ {"idle", "get"}
  BY DEF Locations
<1>2. CASE j = NoJob
  BY <1>0, <1>2, RenewFits DEF Route
<1>3. CASE j # NoJob /\ j.epoch # EpochOf(i)
  <2> DEFINE v == [t EXCEPT !.flow = "stale"]
             u == [Go(v, "stop") EXCEPT !.target = "CANCELED"]
  <2>1. Route(j, i, t) = u
    BY <1>3 DEF Route
  <2>2. v \in GoroutineSet /\ v.flow = "stale" /\ v.phase = t.phase
    BY <1>0 DEF GoroutineSet
  <2> HIDE DEF v
  <2>3. Go(v, "stop") \in GoroutineSet /\ Go(v, "stop").at = "stop" /\ Go(v, "stop").flow = "stale"
        /\ Go(v, "stop").phase = t.phase
    BY <1>1, <2>2, GoMoves
  <2>4. /\ u \in GoroutineSet /\ u.at = "stop" /\ u.flow = "stale" /\ u.phase = t.phase
        /\ u.target = "CANCELED"
    BY <2>3 DEF GoroutineSet, JobStates
  <2> HIDE DEF u
  <2> QED
    BY Zenon, <1>0, <1>3, <2>1, <2>4 DEF Cancels, Fits, Knows, Heeds, EndKnown, JobTerminal
<1>4. CASE j # NoJob /\ j.epoch = EpochOf(i) /\ JobTerminal(j.state)
  <2> DEFINE v == [t EXCEPT !.flow = "ended"]
             at == IF t.phase = "STOPPING" THEN "stop" ELSE "cleanup"
             u == [Go(v, at) EXCEPT !.target = j.state]
  <2>1. Route(j, i, t) = u
    BY <1>4 DEF Route, JobTerminal
  <2>2. v \in GoroutineSet /\ v.flow = "ended" /\ v.phase = t.phase
    BY <1>0 DEF GoroutineSet
  <2> HIDE DEF v
  <2>3. Go(v, at) \in GoroutineSet /\ Go(v, at).at = at /\ Go(v, at).flow = "ended"
        /\ Go(v, at).phase = t.phase
    BY <1>1, <2>2, GoMoves
  <2>4. /\ u \in GoroutineSet /\ u.at \in {"stop", "cleanup"} /\ u.flow = "ended"
        /\ u.phase = t.phase /\ u.target = j.state
    BY <2>3 DEF GoroutineSet, JobSet
  <2> HIDE DEF u, at
  <2> QED
    BY Zenon, <1>0, <1>4, <2>1, <2>4 DEF Cancels, Fits, Knows, Heeds, EndKnown
<1>5. CASE j # NoJob /\ j.epoch = EpochOf(i) /\ j.state = "CANCELING"
  <2> DEFINE u == [Go(t, "halt") EXCEPT !.flow = "cancel", !.target = "CANCELED",
                                        !.phase = "STOPPING"]
  <2>1. Route(j, i, t) = u
    BY <1>5 DEF Route, JobTerminal
  <2>2. Go(t, "halt") \in GoroutineSet /\ Go(t, "halt").at = "halt"
    BY <1>0, <1>1, GoMoves
  <2>3. /\ u \in GoroutineSet /\ u.at = "halt" /\ u.flow = "cancel"
        /\ u.target = "CANCELED" /\ u.phase = "STOPPING"
    BY Zenon, <2>2 DEF GoroutineSet, JobStates, ActivePhases
  <2> HIDE DEF u
  <2> QED
    BY Zenon, <1>0, <2>1, <2>3 DEF Cancels, Fits, Knows, Heeds
<1>6. CASE /\ j # NoJob /\ j.epoch = EpochOf(i) /\ j.state \in {"INITIALIZING", "RUNNING"}
           /\ t.phase = "STOPPING"
  <2> DEFINE v == [t EXCEPT !.flow = "heartbeat"]
             u == [Go(v, "read") EXCEPT !.target = "FAILED"]
  <2>1. Route(j, i, t) = u
    BY <1>6 DEF Route, JobTerminal
  <2>2. v \in GoroutineSet /\ v.flow = "heartbeat" /\ v.phase = t.phase
    BY <1>0 DEF GoroutineSet
  <2> HIDE DEF v
  <2>3. Go(v, "read") \in GoroutineSet /\ Go(v, "read").at = "read"
        /\ Go(v, "read").flow = "heartbeat" /\ Go(v, "read").phase = t.phase
    BY Zenon, <1>1, <2>2, GoMoves
  <2>4. /\ u \in GoroutineSet /\ u.at = "read" /\ u.flow = "heartbeat" /\ u.phase = t.phase
        /\ u.target = "FAILED"
    BY <2>3 DEF GoroutineSet, JobStates
  <2> HIDE DEF u
  <2> QED
    BY Zenon, <1>0, <1>6, <2>1, <2>4 DEF Cancels, Fits, Knows, Heeds, Decided
<1>7. CASE /\ j # NoJob /\ j.epoch = EpochOf(i) /\ j.state \in {"INITIALIZING", "RUNNING"}
           /\ t.phase # "STOPPING"
  <2> DEFINE first == t.phase = "CLAIMED"
             v == Go(t, "keep")
             u == [v EXCEPT !.first = first, !.phase = IF @ = "CLAIMED" THEN "STARTING" ELSE @]
  <2>1. Route(j, i, t) = u
    BY <1>7 DEF Route, JobTerminal
  <2>2. v \in GoroutineSet /\ v.at = "keep" /\ v.flow = "run" /\ v.phase = t.phase
    BY <1>0, <1>1, GoMoves DEF GoroutineSet
  <2> HIDE DEF v
  <2>3. u \in GoroutineSet /\ u.at = "keep" /\ u.flow = "run" /\ u.phase # "STOPPING"
    BY Zenon, <1>7, <2>2 DEF GoroutineSet, ActivePhases, BeatingPhases
  <2> HIDE DEF u
  <2> QED
    BY Zenon, <1>0, <1>7, <2>1, <2>3 DEF Cancels, Fits, Knows, Heeds
<1>8. j # NoJob /\ j.epoch = EpochOf(i) /\ ~JobTerminal(j.state) =>
        j.state \in {"CANCELING", "INITIALIZING", "RUNNING"}
  BY ExecutionParts DEF JobValid, StatusValid, JobStates, JobTerminal, JobSet
<1> QED
  BY <1>2, <1>3, <1>4, <1>5, <1>6, <1>7, <1>8

(* An observation leads to the transition it calls for.                     *)
LEMMA ReadFits ==
    ASSUME NEW s, NEW i \in Executions, NEW row, NEW j \in JobSet, NEW d, NEW t,
           Fits(s, i, row, j, t, d), t.at \in {"observe", "ensure", "create"},
           NEW x \in {"RUNNING", "FAILED", "FINISHED"}, x = "FINISHED" => i \in d
    PROVE  /\ Fits(s, i, row, j, [Go(t, "read") EXCEPT !.target = x], d)
           /\ ~Cancels([Go(t, "read") EXCEPT !.target = x])
<1> DEFINE v == Go(t, "read")
           u == [v EXCEPT !.target = x]
<1>0. /\ t \in GoroutineSet /\ Begun(i, j) /\ t.flow = "run"
      /\ ~(row.owner = {s} /\ row.phase = "STOPPING")
  BY DEF Fits, Knows, Heeds
<1>1. v \in GoroutineSet /\ v.at = "read" /\ v.flow = "run"
  <2>1. "read" \in Locations \ {"idle", "get"}
    BY DEF Locations
  <2> QED
    BY <1>0, <2>1, GoMoves
<1> HIDE DEF v
<1>2. u \in GoroutineSet /\ u.at = "read" /\ u.flow = "run" /\ u.target = x
  BY <1>1 DEF GoroutineSet, JobStates
<1>3. Fits(s, i, row, j, u, d) /\ ~Cancels(u)
  <2> HIDE DEF u
  <2> QED
    BY Zenon, <1>0, <1>2 DEF Fits, Knows, Heeds, Decided, Cancels
<1> QED
  BY <1>3 DEF v

(* What reconcile makes of an observation of a live or failing execution.   *)
LEMMA JudgedFits ==
    ASSUME NEW s, NEW i \in Executions, NEW row, NEW j \in JobSet, NEW d, NEW t, NEW o,
           Fits(s, i, row, j, t, d), t.at \in {"observe", "ensure", "create"}
    PROVE  Fits(s, i, row, j, Judged(t, o), d) /\ ~Cancels(Judged(t, o))
<1>0. /\ t \in GoroutineSet /\ Begun(i, j)
      /\ ~(row.owner = {s} /\ row.phase = "STOPPING")
  BY Zenon DEF Fits, Knows, Heeds
<1>1. Fits(s, i, row, j, Go(t, "fence"), d) /\ ~Cancels(Go(t, "fence"))
  <2>1. "fence" \in Locations \ {"idle", "get"}
    BY DEF Locations
  <2> QED
    BY <1>0, <2>1, GoMoves DEF Fits, Knows, Heeds, Cancels
<1>2. /\ Fits(s, i, row, j, [Go(t, "read") EXCEPT !.target = "RUNNING"], d)
      /\ ~Cancels([Go(t, "read") EXCEPT !.target = "RUNNING"])
  BY Zenon, ReadFits
<1>3. Fits(s, i, row, j, Go(t, "renew"), d) /\ ~Cancels(Go(t, "renew"))
  BY ZenonT(60), <1>0, RenewFits
<1> QED
  BY <1>1, <1>2, <1>3 DEF Judged

(* A transition that is done, or was done before, leads on.                 *)
LEMMA ContinueFits ==
    ASSUME NEW s, NEW i \in Executions, NEW row, NEW j \in JobSet, NEW d,
           NEW t \in GoroutineSet, Begun(i, j), Decided(i, t, d), j.state = t.target,
           row.owner = {s} /\ row.phase = "STOPPING" => t.phase = "STOPPING" /\ t.flow # "run"
    PROVE  Fits(s, i, row, j, Continue(t), d)
<1>0. {"renew", "complete", "stop"} \subseteq Locations \ {"idle", "get"}
  BY DEF Locations
<1>1. CASE t.flow = "run" /\ t.target = "RUNNING"
  <2> DEFINE v == Go(t, "renew")
             u == [v EXCEPT !.phase = "RUNNING"]
  <2>1. v \in GoroutineSet /\ v.at = "renew"
    BY <1>0, GoMoves
  <2>2. Continue(t) = u
    BY <1>1 DEF Continue
  <2> HIDE DEF v
  <2>3. u \in GoroutineSet /\ u.at = "renew"
    BY <2>1 DEF GoroutineSet, ActivePhases, BeatingPhases
  <2> HIDE DEF u
  <2> QED
    BY Zenon, <1>1, <2>2, <2>3 DEF Fits, Knows, Heeds
<1>2. CASE t.flow = "cancel" \/ (t.flow = "run" /\ t.target # "RUNNING")
  <2>1. Continue(t) = Go(t, "complete")
    BY <1>2 DEF Continue
  <2>2. /\ Go(t, "complete") \in GoroutineSet /\ Go(t, "complete").at = "complete"
        /\ Go(t, "complete").target = t.target
    BY <1>0, GoMoves
  <2>3. JobTerminal(t.target)
    BY <1>2 DEF Decided, JobTerminal
  <2> QED
    BY Zenon, <2>1, <2>2, <2>3 DEF Fits, Knows, Heeds, EndKnown
<1>3. CASE t.flow = "heartbeat"
  <2>1. Continue(t) = Go(t, "stop")
    BY <1>3 DEF Continue
  <2>2. /\ Go(t, "stop") \in GoroutineSet /\ Go(t, "stop").at = "stop"
        /\ Go(t, "stop").target = t.target /\ Go(t, "stop").flow = "heartbeat"
        /\ Go(t, "stop").phase = t.phase
    BY <1>0, <1>3, GoMoves
  <2>3. JobTerminal(t.target)
    BY <1>3 DEF Decided, JobTerminal
  <2> QED
    BY Zenon, <2>1, <2>2, <2>3 DEF Fits, Knows, Heeds, EndKnown
<1> QED
  BY <1>1, <1>2, <1>3 DEF Decided

(* A Job that evolves, with its rows kept or deleted, leaves the rows, the  *)
(* groups and the knowledge of every goroutine true.                        *)
LEMMA JobMoves ==
    ASSUME IInv,
           NEW j \in Jobs, NEW b \in JobSet, jobs' = [jobs EXCEPT ![j] = b],
           Evolves(jobs[j], b), b = NoJob \/ JobValid(b),
           \A i \in Executions : JobOf(i) = j => FinishEarned(i, b, done),
           \A i \in Executions :
               \/ rows'[i] = NoRow
               \/ rows'[i] = rows[i] /\ (JobOf(i) = j => b # NoJob),
           UNCHANGED <<kube, epochs, done>>
    PROVE  /\ jobs' \in [Jobs -> JobSet]
           /\ JobsEvolve
           /\ \A k \in Jobs : jobs'[k] = NoJob \/ JobValid(jobs'[k])
           /\ \A i \in Executions :
                /\ RowTrue(i, rows'[i], jobs'[JobOf(i)])
                /\ FinishEarned(i, jobs'[JobOf(i)], done')
                /\ GroupTrue(i, kube'[i], jobs'[JobOf(i)], epochs'[JobOf(i)], done')
           /\ \A s \in Schedulers, i \in Executions :
                /\ Knows(i, jobs'[JobOf(i)], work[s][i], done')
                /\ Heeds(s, rows'[i], work[s][i])
<1>1. /\ jobs' \in [Jobs -> JobSet]
      /\ \A k \in Jobs : jobs'[k] = IF k = j THEN b ELSE jobs[k]
      /\ \A k \in Jobs : Evolves(jobs[k], jobs'[k])
      /\ \A k \in Jobs : jobs[k] \in JobSet
  BY DEF IInv, TypeOK, Evolves
<1>2. \A k \in Jobs : jobs'[k] = NoJob \/ JobValid(jobs'[k])
  BY Zenon, <1>1 DEF IInv
<1>3. ASSUME NEW i \in Executions
      PROVE  /\ RowTrue(i, rows'[i], jobs'[JobOf(i)])
             /\ FinishEarned(i, jobs'[JobOf(i)], done')
             /\ GroupTrue(i, kube'[i], jobs'[JobOf(i)], epochs'[JobOf(i)], done')
  <2>1. JobOf(i) \in Jobs
    BY Zenon, ExecutionParts
  <2>2. /\ RowTrue(i, rows[i], jobs[JobOf(i)])
        /\ FinishEarned(i, jobs[JobOf(i)], done)
        /\ GroupTrue(i, kube[i], jobs[JobOf(i)], epochs[JobOf(i)], done)
        /\ epochs[JobOf(i)] \in Nat
    BY <2>1, SchedulingAssumption DEF IInv, TypeOK
  <2>3. RowTrue(i, rows'[i], jobs'[JobOf(i)])
    <3>1. CASE rows'[i] = NoRow
      BY <3>1 DEF RowTrue, NoRow, TerminalPhases
    <3>2. CASE rows'[i] = rows[i] /\ JobOf(i) = j
      BY Zenon, <1>1, <2>1, <2>2, <3>2, RecordsLast
    <3>3. CASE rows'[i] = rows[i] /\ JobOf(i) # j
      BY Zenon, <1>1, <2>1, <2>2, <3>3
    <3> QED
      BY <3>1, <3>2, <3>3
  <2>4. GroupTrue(i, kube[i], jobs'[JobOf(i)], epochs[JobOf(i)], done)
    BY Zenon, <1>1, <2>1, <2>2, RecordsLast
  <2> QED
    BY Zenon, <1>1, <2>1, <2>2, <2>3, <2>4
<1>4. ASSUME NEW s \in Schedulers, NEW i \in Executions
      PROVE  Knows(i, jobs'[JobOf(i)], work[s][i], done') /\ Heeds(s, rows'[i], work[s][i])
  <2>1. JobOf(i) \in Jobs /\ work[s][i] \in GoroutineSet
    BY ExecutionParts DEF IInv, TypeOK
  <2>2. Knows(i, jobs[JobOf(i)], work[s][i], done) /\ Heeds(s, rows[i], work[s][i])
    BY Zenon DEF IInv
  <2>3. Knows(i, jobs'[JobOf(i)], work[s][i], done)
    BY Zenon, <1>1, <2>1, <2>2, KnowledgeLasts
  <2>4. Heeds(s, rows'[i], work[s][i])
    BY <2>2 DEF Heeds, NoRow
  <2> QED
    BY Zenon, <2>3, <2>4
<1> QED
  BY Zenon, <1>1, <1>2, <1>3, <1>4 DEF JobsEvolve

(* The API.                                                                 *)
LEMMA ApiSteps ==
    ASSUME IInv, Api, UNCHANGED faults
    PROVE  IInv' /\ JobsEvolve
<1>1. PICK j \in Jobs : StartJob(j) \/ StopJob(j) \/ DeleteJob(j)
  BY DEF Api
<1>2. /\ jobs[j] \in JobSet
      /\ jobs[j] # NoJob => JobValid(jobs[j])
      /\ \A i \in Executions : JobOf(i) = j => FinishEarned(i, jobs[j], done)
  BY DEF IInv, TypeOK
<1>3. CASE StartJob(j)
  <2> DEFINE b == Updated(Started(jobs[j]))
  <2>1. /\ b \in JobSet /\ JobValid(b) /\ b # NoJob /\ Evolves(jobs[j], b)
        /\ \A i \in Executions : FinishEarned(i, b, done)
    BY <1>2, <1>3, JobEvolves, IdleType DEF StartJob, FinishEarned, JobValid
  <2>2. jobs' = [jobs EXCEPT ![j] = b] /\ UNCHANGED <<rows, kube, epochs, ticks, work, done>>
    BY <1>3 DEF StartJob
  <2> HIDE DEF b
  <2> QED
    BY Zenon, <2>1, <2>2, JobMoves DEF IInv, TypeOK
<1>4. CASE StopJob(j)
  <2> DEFINE b == Updated(Stopped(jobs[j]))
  <2>1. /\ b \in JobSet /\ JobValid(b) /\ b # NoJob /\ Evolves(jobs[j], b)
        /\ \A i \in Executions : JobOf(i) = j => FinishEarned(i, b, done)
    <3>1. jobs[j] # NoJob /\ StopAccepted(jobs[j])
      BY Zenon, <1>4 DEF StopJob
    <3>2. /\ b \in JobSet /\ JobValid(b) /\ Evolves(jobs[j], b) /\ b.epoch = jobs[j].epoch
          /\ b.state = "FINISHED" => jobs[j].state = "FINISHED"
      BY Zenon, <1>2, <3>1, JobEvolves
    <3> HIDE DEF b
    <3>3. b # NoJob
      BY <3>2, IdleType DEF JobValid
    <3> QED
      BY Zenon, <1>2, <3>2, <3>3 DEF FinishEarned
  <2>2. jobs' = [jobs EXCEPT ![j] = b] /\ UNCHANGED <<rows, kube, epochs, ticks, work, done>>
    BY <1>4 DEF StopJob
  <2> HIDE DEF b
  <2> QED
    BY Zenon, <2>1, <2>2, JobMoves DEF IInv, TypeOK
<1>5. CASE DeleteJob(j)
  <2>1. /\ jobs' = [jobs EXCEPT ![j] = NoJob] /\ UNCHANGED <<kube, epochs, ticks, work, done>>
        /\ rows' = [i \in Executions |->
                       IF i \in {k \in Executions : JobOf(k) = j} THEN NoRow ELSE rows[i]]
    BY <1>5 DEF DeleteJob, deleteRows
  <2>2. /\ NoJob \in JobSet /\ Evolves(jobs[j], NoJob)
        /\ \A i \in Executions : FinishEarned(i, NoJob, done)
    BY IdleType, ExecutionParts DEF Evolves, FinishEarned
  <2>3. /\ rows' \in [Executions -> RowSet]
        /\ \A i \in Executions : rows'[i] = NoRow \/ (rows'[i] = rows[i] /\ JobOf(i) # j)
    BY Zenon, <2>1 DEF IInv, TypeOK, RowSet, NoRow
  <2> QED
    BY Zenon, <2>1, <2>2, <2>3, JobMoves DEF IInv, TypeOK
<1> QED
  BY <1>1, <1>3, <1>4, <1>5

(* A group is given by its parts.                                           *)
LEMMA GroupParts ==
    ASSUME NEW g \in GroupSet, NEW h \in GroupSet,
           g.coordinator = h.coordinator, g.deleting = h.deleting, g.workers = h.workers,
           g.ready = h.ready, g.config = h.config
    PROVE  g = h
BY DEF GroupSet

(* Deleting objects leaves the Coordinator's outcome as it is, and makes    *)
(* nothing of nothing.                                                      *)
LEMMA DeletionsType ==
    ASSUME NEW g \in GroupSet
    PROVE  \A h \in {DeleteCoordinator(g), DeleteAuxiliary(g), cleanupAuxiliary(g)} :
             /\ h \in GroupSet /\ h.coordinator = g.coordinator
             /\ g = NoGroup => h = NoGroup
<1>0. /\ NoGroup \in GroupSet /\ NoGroup.coordinator = "absent" /\ NoGroup.deleting = FALSE
      /\ NoGroup.workers = "absent" /\ NoGroup.ready = FALSE /\ NoGroup.config = FALSE
  BY DEF NoGroup, GroupSet, Coordinators
<1>1. ASSUME NEW h, h = DeleteCoordinator(g)
      PROVE  /\ h \in GroupSet /\ h.coordinator = g.coordinator
             /\ g = NoGroup => h = NoGroup
  <2>1. /\ h \in GroupSet /\ h.coordinator = g.coordinator /\ h.workers = g.workers
        /\ h.ready = g.ready /\ h.config = g.config /\ h.deleting = (g.coordinator # "absent")
    BY Zenon, <1>1 DEF GroupSet, DeleteCoordinator
  <2> QED
    BY Zenon, <1>0, <2>1, GroupParts
<1>2. ASSUME NEW h, h = DeleteAuxiliary(g)
      PROVE  /\ h \in GroupSet /\ h.coordinator = g.coordinator
             /\ g = NoGroup => h = NoGroup
  <2>1. /\ h \in GroupSet /\ h.coordinator = g.coordinator /\ h.deleting = g.deleting
        /\ h.ready = g.ready /\ h.config = FALSE
        /\ h.workers = IF g.workers = "present" THEN "deleting" ELSE g.workers
    BY Zenon, <1>2 DEF GroupSet, DeleteAuxiliary
  <2> QED
    BY Zenon, <1>0, <2>1, GroupParts
<1>3. ASSUME NEW h, h = cleanupAuxiliary(g)
      PROVE  /\ h \in GroupSet /\ h.coordinator = g.coordinator
             /\ g = NoGroup => h = NoGroup
  <2>1. /\ h \in GroupSet /\ h.coordinator = g.coordinator /\ h.deleting = g.deleting
        /\ h.ready = (g.ready /\ g.workers = "deleting") /\ h.config = FALSE
        /\ h.workers = IF g.workers = "present" THEN "absent" ELSE g.workers
    BY Zenon, <1>3 DEF GroupSet, cleanupAuxiliary
  <2> QED
    BY Zenon, <1>0, <2>1, GroupParts
<1> QED
  BY <1>1, <1>2, <1>3

(* So does making them, but for the Coordinator Job itself.                 *)
LEMMA CreationsType ==
    ASSUME NEW g \in GroupSet
    PROVE  /\ [workerStatefulSet(g) EXCEPT !.config = TRUE] \in GroupSet
           /\ [workerStatefulSet(g) EXCEPT !.config = TRUE].coordinator = g.coordinator
           /\ coordinatorJob(g) \in GroupSet /\ coordinatorJob(g).coordinator = "pending"
BY Zenon DEF GroupSet, Coordinators, workerStatefulSet, coordinatorJob

(* What the invariant says of one goroutine, its row, its group and its Job.*)
LEMMA Here ==
    ASSUME IInv, NEW s \in Schedulers, NEW i \in Executions
    PROVE  /\ Fits(s, i, rows[i], jobs[JobOf(i)], work[s][i], done)
           /\ work[s][i] \in GoroutineSet
           /\ rows[i] \in RowSet /\ RowTrue(i, rows[i], jobs[JobOf(i)])
           /\ kube[i] \in GroupSet
           /\ GroupTrue(i, kube[i], jobs[JobOf(i)], epochs[JobOf(i)], done)
           /\ jobs[JobOf(i)] \in JobSet
           /\ jobs[JobOf(i)] = NoJob \/ JobValid(jobs[JobOf(i)])
           /\ rows = [rows EXCEPT ![i] = rows[i]]
           /\ kube = [kube EXCEPT ![i] = kube[i]]
<1>1. JobOf(i) \in Jobs
  BY ExecutionParts
<1>2. TypeOK /\ Knows(i, jobs[JobOf(i)], work[s][i], done) /\ Heeds(s, rows[i], work[s][i])
      /\ RowTrue(i, rows[i], jobs[JobOf(i)])
      /\ GroupTrue(i, kube[i], jobs[JobOf(i)], epochs[JobOf(i)], done)
      /\ (jobs[JobOf(i)] = NoJob \/ JobValid(jobs[JobOf(i)]))
  BY Zenon, <1>1 DEF IInv
<1> QED
  BY <1>1, <1>2 DEF TypeOK, Fits

(* GoroutineMoves in these terms.                                           *)
LEMMA Moves ==
    ASSUME IInv,
           NEW s \in Schedulers, NEW i \in Executions, NEW u, NEW r, NEW g,
           Becomes(s, i, u), rows' = [rows EXCEPT ![i] = r], kube' = [kube EXCEPT ![i] = g],
           UNCHANGED <<jobs, epochs, ticks, faults, done>>,
           r \in RowSet, r = rows[i] \/ r.owner = {s}, RowTrue(i, r, jobs[JobOf(i)]),
           g \in GroupSet, GroupTrue(i, g, jobs[JobOf(i)], epochs[JobOf(i)], done),
           Fits(s, i, r, jobs[JobOf(i)], u, done)
    PROVE  IInv'
BY Zenon, GoroutineMoves DEF Fits, Becomes

(* An idle goroutine fits always.                                           *)
LEMMA IdleFits ==
    ASSUME NEW s, NEW i, NEW row, NEW j, NEW d
    PROVE  Fits(s, i, row, j, Idle, d) /\ ~Cancels(Idle)
BY Zenon, IdleType, IdleKnows DEF Fits, Cancels

-------------------------------------------------------------------------------
(* The actions of a goroutine.                                              *)

(* reconcile: the Job it got, the lease it renews, the fence.               *)
LEMMA ReconcileSteps ==
    ASSUME IInv, NEW s \in Schedulers, NEW i \in Executions, UNCHANGED faults,
           \/ GetJob(s, i) \/ KeepAlive(s, i) \/ LeaseLost(s, i)
           \/ FenceHeartbeat(s, i) \/ FenceRefused(s, i)
           \/ TransientError(s, i) \/ Abort(s, i)
    PROVE  IInv'
<1> DEFINE t == work[s][i]
           j == jobs[JobOf(i)]
<1>0. /\ Fits(s, i, rows[i], j, t, done) /\ t \in GoroutineSet
      /\ rows[i] \in RowSet /\ RowTrue(i, rows[i], j)
      /\ kube[i] \in GroupSet /\ GroupTrue(i, kube[i], j, epochs[JobOf(i)], done)
      /\ j \in JobSet /\ (j = NoJob \/ JobValid(j))
      /\ rows = [rows EXCEPT ![i] = rows[i]] /\ kube = [kube EXCEPT ![i] = kube[i]]
  BY Here
<1>1. CASE GetJob(s, i)
  BY Zenon, <1>0, <1>1, RouteFits, Moves DEF GetJob
<1>2. CASE LeaseLost(s, i) \/ FenceRefused(s, i) \/ Abort(s, i)
  BY Zenon, <1>0, <1>2, IdleFits, Moves DEF LeaseLost, FenceRefused, Abort
<1>3. CASE TransientError(s, i)
  <2>1. Fits(s, i, rows[i], j, Go(t, "renew"), done)
    <3>1. /\ Begun(i, j)
          /\ rows[i].owner = {s} /\ rows[i].phase = "STOPPING" => t.phase = "STOPPING"
      BY Zenon, <1>0, <1>3 DEF TransientError, Fits, Knows, Heeds
    <3> QED
      BY Zenon, <1>0, <3>1, RenewFits
  <2> QED
    BY Zenon, <1>0, <1>3, <2>1, Moves DEF TransientError
<1>4. CASE KeepAlive(s, i)
  <2> DEFINE r == [rows[i] EXCEPT !.phase = t.phase, !.lease = "live"]
             u == AfterKeepAlive(t)
  <2>1. /\ t.at \in {"keep", "halt", "renew"} /\ Becomes(s, i, u)
        /\ rows[i].owner = {s} /\ rows[i].phase \in ActivePhases
        /\ rows' = [rows EXCEPT ![i] = r]
        /\ UNCHANGED <<jobs, kube, epochs, ticks, done>>
    BY Zenon, <1>4 DEF KeepAlive, update, Owns, IInv, TypeOK
  <2>2. r \in RowSet /\ r.owner = {s} /\ r.phase = t.phase
    BY Zenon, <1>0, <2>1 DEF RowSet, GoroutineSet
  <2>3. RowTrue(i, r, j)
    <3>1. rows[i] # NoRow
      BY <2>1 DEF NoRow, ActivePhases, BeatingPhases
    <3>2. r.phase \notin TerminalPhases
      BY <1>0, <2>2 DEF GoroutineSet, ActivePhases, BeatingPhases, TerminalPhases
    <3> QED
      BY <1>0, <3>1, <3>2 DEF RowTrue
  <2> HIDE DEF r
  <2>4. Fits(s, i, r, j, u, done)
    <3>0. {"observe", "stop"} \subseteq Locations \ {"idle", "get"}
      BY DEF Locations
    <3>1. CASE t.at = "keep"
      <4>1. u = Go(t, "observe") /\ t.flow = "run" /\ t.phase # "STOPPING" /\ Begun(i, j)
        BY <1>0, <3>1 DEF AfterKeepAlive, Fits, Knows, Heeds
      <4>2. u \in GoroutineSet /\ u.at = "observe" /\ u.flow = "run" /\ u.phase = t.phase
        BY <1>0, <3>0, <4>1, GoMoves DEF GoroutineSet
      <4> HIDE DEF u
      <4> QED
        BY ZenonT(60), <2>2, <4>1, <4>2 DEF Fits, Knows, Heeds
    <3>2. CASE t.at = "halt"
      <4>1. u = Go(t, "stop") /\ t.flow = "cancel" /\ t.target = "CANCELED" /\ Begun(i, j)
        BY <1>0, <3>2 DEF AfterKeepAlive, Fits, Knows
      <4>2. /\ u \in GoroutineSet /\ u.at = "stop" /\ u.flow = "cancel"
            /\ u.target = "CANCELED" /\ u.phase = t.phase
        BY <1>0, <3>0, <4>1, GoMoves
      <4> HIDE DEF u
      <4> QED
        BY ZenonT(60), <2>2, <4>1, <4>2 DEF Fits, Knows, Heeds
    <3>3. CASE t.at = "renew"
      BY <3>3, IdleFits DEF AfterKeepAlive
    <3> QED
      BY Zenon, <2>1, <3>1, <3>2, <3>3
  <2> QED
    BY Zenon, <1>0, <2>1, <2>2, <2>3, <2>4, Moves
<1>5. CASE FenceHeartbeat(s, i)
  <2> DEFINE r == [rows[i] EXCEPT !.phase = "STOPPING", !.lease = "live"]
             v == Go(t, "read")
             u == [v EXCEPT !.flow = "heartbeat", !.target = "FAILED", !.phase = "STOPPING"]
  <2>1. /\ t.at = "fence" /\ Becomes(s, i, u)
        /\ rows[i].owner = {s} /\ rows[i].phase \in ActivePhases
        /\ rows' = [rows EXCEPT ![i] = r]
        /\ UNCHANGED <<jobs, kube, epochs, ticks, done>>
    BY Zenon, <1>5 DEF FenceHeartbeat, fenceExpiredHeartbeat, FenceAccepted, Owns, IInv, TypeOK
  <2>2. r \in RowSet /\ r.owner = {s} /\ r.phase = "STOPPING"
    BY Zenon, <1>0, <2>1 DEF RowSet, ActivePhases
  <2>3. RowTrue(i, r, j)
    <3>1. rows[i] # NoRow
      BY <2>1 DEF NoRow, ActivePhases, BeatingPhases
    <3> QED
      BY <1>0, <2>2, <3>1 DEF RowTrue, TerminalPhases
  <2>4. v \in GoroutineSet /\ v.at = "read" /\ Begun(i, j)
    <3>1. "read" \in Locations \ {"idle", "get"}
      BY DEF Locations
    <3> QED
      BY <1>0, <2>1, <3>1, GoMoves DEF Fits, Knows
  <2> HIDE DEF r, v
  <2>5. /\ u \in GoroutineSet /\ u.at = "read" /\ u.flow = "heartbeat" /\ u.target = "FAILED"
        /\ u.phase = "STOPPING"
    BY ZenonT(60), <2>4 DEF GoroutineSet, JobStates, ActivePhases
  <2> HIDE DEF u
  <2>6. Fits(s, i, r, j, u, done)
    BY Zenon, <2>2, <2>4, <2>5 DEF Fits, Knows, Heeds, Decided
  <2> QED
    BY Zenon, <1>0, <2>1, <2>2, <2>3, <2>6, Moves
<1> QED
  BY <1>1, <1>2, <1>3, <1>4, <1>5

(* Dispatcher.Reconcile.                                                    *)
LEMMA DispatchSteps ==
    ASSUME IInv, NEW s \in Schedulers, NEW i \in Executions, UNCHANGED faults,
           \/ ObserveEnded(s, i) \/ ObserveLive(s, i) \/ EnsureAuxiliary(s, i)
           \/ CreateCoordinator(s, i) \/ DispatchError(s, i) \/ DispatchRejected(s, i)
    PROVE  IInv'
<1> DEFINE t == work[s][i]
           j == jobs[JobOf(i)]
           g == kube[i]
<1>0. /\ Fits(s, i, rows[i], j, t, done) /\ t \in GoroutineSet
      /\ rows[i] \in RowSet /\ RowTrue(i, rows[i], j)
      /\ g \in GroupSet /\ GroupTrue(i, g, j, epochs[JobOf(i)], done)
      /\ j \in JobSet
      /\ rows = [rows EXCEPT ![i] = rows[i]] /\ kube = [kube EXCEPT ![i] = g]
  BY Here
<1>a. {"ensure", "create"} \subseteq Locations \ {"idle", "get"}
  BY DEF Locations
<1>b. t.at \in {"observe", "ensure", "create"}
  BY DEF ObserveEnded, ObserveLive, EnsureAuxiliary, CreateCoordinator, DispatchError,
         DispatchRejected
<1>c. t.flow = "run" /\ Begun(i, j) /\ ~(rows[i].owner = {s} /\ rows[i].phase = "STOPPING")
  BY Zenon, <1>0, <1>b DEF Fits, Knows, Heeds
<1>1. CASE ObserveEnded(s, i)
  <2> DEFINE h == cleanupAuxiliary(g)
             u == IF g.workers = "deleting" THEN Judged(t, "ERROR")
                  ELSE [Go(t, "read") EXCEPT !.target = observeJob(g.coordinator)]
  <2>1. /\ Ended(g.coordinator) /\ kube' = [kube EXCEPT ![i] = h] /\ Becomes(s, i, u)
        /\ UNCHANGED <<rows, jobs, epochs, ticks, done>>
    BY <1>1 DEF ObserveEnded
  <2>2. /\ observeJob(g.coordinator) \in {"RUNNING", "FAILED", "FINISHED"}
        /\ observeJob(g.coordinator) = "FINISHED" => i \in done
    BY <1>0, <2>1 DEF Ended, observeJob, GroupTrue, GroupSet, Coordinators
  <2>3. Fits(s, i, rows[i], j, u, done)
    BY Zenon, <1>0, <1>b, <2>2, JudgedFits, ReadFits
  <2>4. h \in GroupSet /\ GroupTrue(i, h, j, epochs[JobOf(i)], done)
    BY Zenon, <1>0, DeletionsType DEF GroupTrue
  <2> HIDE DEF u, h
  <2> QED
    BY Zenon, <1>0, <2>1, <2>3, <2>4, Moves
<1>2. CASE ObserveLive(s, i)
  <2> DEFINE v == Go(t, "ensure")
             u == [v EXCEPT !.seen = g.coordinator]
  <2>1. Becomes(s, i, u) /\ UNCHANGED <<rows, jobs, kube, epochs, ticks, done>>
    BY <1>2 DEF ObserveLive
  <2>2. v \in GoroutineSet /\ v.at = "ensure" /\ v.flow = "run"
    BY <1>0, <1>a, <1>c, GoMoves DEF GoroutineSet
  <2> HIDE DEF v
  <2>3. u \in GoroutineSet /\ u.at = "ensure" /\ u.flow = "run"
    BY <1>0, <2>2 DEF GoroutineSet, GroupSet
  <2> HIDE DEF u
  <2>4. Fits(s, i, rows[i], j, u, done)
    BY ZenonT(60), <1>c, <2>3 DEF Fits, Knows, Heeds
  <2> QED
    BY Zenon, <1>0, <2>1, <2>4, Moves
<1>3. CASE EnsureAuxiliary(s, i)
  <2> DEFINE h == [workerStatefulSet(g) EXCEPT !.config = TRUE]
             u == IF g.ready THEN Go(t, "create") ELSE Judged(t, "PENDING")
  <2>1. /\ kube' = [kube EXCEPT ![i] = h] /\ Becomes(s, i, u)
        /\ UNCHANGED <<rows, jobs, epochs, ticks, done>>
    BY <1>3 DEF EnsureAuxiliary
  <2>2. Fits(s, i, rows[i], j, Go(t, "create"), done)
    <3>1. /\ Go(t, "create") \in GoroutineSet /\ Go(t, "create").at = "create"
          /\ Go(t, "create").flow = "run"
      BY <1>0, <1>a, <1>c, GoMoves DEF GoroutineSet
    <3> QED
      BY Zenon, <1>c, <3>1 DEF Fits, Knows, Heeds
  <2>3. Fits(s, i, rows[i], j, u, done)
    BY Zenon, <1>0, <1>b, <2>2, JudgedFits
  <2>4. h \in GroupSet /\ GroupTrue(i, h, j, epochs[JobOf(i)], done)
    BY <1>0, <1>c, CreationsType DEF GroupTrue
  <2> HIDE DEF u, h
  <2> QED
    BY Zenon, <1>0, <2>1, <2>3, <2>4, Moves
<1>4. CASE CreateCoordinator(s, i)
  <2>1. PICK o : Becomes(s, i, Judged(t, o))
    BY Zenon, <1>4 DEF CreateCoordinator
  <2>2. PICK h \in {g, coordinatorJob(g)} : kube' = [kube EXCEPT ![i] = h]
    BY Zenon, <1>0, <1>4 DEF CreateCoordinator
  <2>3. UNCHANGED <<rows, jobs, epochs, ticks, done>>
    BY Zenon, <1>4 DEF CreateCoordinator
  <2>4. Fits(s, i, rows[i], j, Judged(t, o), done)
    BY <1>0, <1>b, JudgedFits
  <2>5. h \in GroupSet /\ GroupTrue(i, h, j, epochs[JobOf(i)], done)
    BY Zenon, <1>0, <1>c, CreationsType DEF GroupTrue
  <2> QED
    BY Zenon, <1>0, <2>1, <2>2, <2>3, <2>4, <2>5, Moves
<1>5. CASE DispatchError(s, i)
  BY Zenon, <1>0, <1>5, <1>b, JudgedFits, Moves DEF DispatchError
<1>6. CASE DispatchRejected(s, i)
  BY ZenonT(60), <1>0, <1>6, <1>b, ReadFits, Moves DEF DispatchRejected
<1> QED
  BY <1>1, <1>2, <1>3, <1>4, <1>5, <1>6

(* transition reads the Job ...                                             *)
LEMMA TransitionReads ==
    ASSUME IInv, NEW s \in Schedulers, NEW i \in Executions, UNCHANGED faults,
           TransitionRead(s, i)
    PROVE  IInv'
<1> DEFINE t == work[s][i]
           j == jobs[JobOf(i)]
<1>0. /\ Fits(s, i, rows[i], j, t, done) /\ t \in GoroutineSet
      /\ rows[i] \in RowSet /\ RowTrue(i, rows[i], j)
      /\ kube[i] \in GroupSet /\ GroupTrue(i, kube[i], j, epochs[JobOf(i)], done)
      /\ j \in JobSet
      /\ rows = [rows EXCEPT ![i] = rows[i]] /\ kube = [kube EXCEPT ![i] = kube[i]]
  BY Zenon, Here
<1>1. /\ t.at = "read" /\ Decided(i, t, done) /\ Begun(i, j)
      /\ rows[i].owner = {s} /\ rows[i].phase = "STOPPING" => t.phase = "STOPPING" /\ t.flow # "run"
  BY Zenon, <1>0 DEF TransitionRead, Fits, Knows, Heeds
<1>2. UNCHANGED <<rows, jobs, kube, epochs, ticks, done>>
  BY DEF TransitionRead
<1>3. CASE Becomes(s, i, Idle)
  BY Zenon, <1>0, <1>2, <1>3, IdleFits, Moves
<1>4. CASE j.state = t.target /\ Becomes(s, i, Continue(t))
  <2>1. Fits(s, i, rows[i], j, Continue(t), done)
    BY Zenon, <1>0, <1>1, <1>4, ContinueFits
  <2> QED
    BY <1>0, <1>2, <1>4, <2>1, Moves
<1>5. CASE /\ AdvanceAccepted(j, EpochOf(i), NextState(j, t))
           /\ Becomes(s, i, [Go(t, "write") EXCEPT !.read = j])
  <2> DEFINE v == Go(t, "write")
             u == [v EXCEPT !.read = j]
  <2>1. /\ v \in GoroutineSet /\ v.at = "write" /\ v.flow = t.flow /\ v.target = t.target
        /\ t.flow # "run" => v.phase = t.phase
    <3>1. "write" \in Locations \ {"idle", "get"}
      BY DEF Locations
    <3> QED
      BY <1>0, <3>1, GoMoves
  <2> HIDE DEF v
  <2>2. /\ u \in GoroutineSet /\ u.at = "write" /\ u.flow = t.flow /\ u.target = t.target
        /\ t.flow # "run" => u.phase = t.phase
        /\ u.read = j
    BY <1>0, <2>1 DEF GoroutineSet
  <2>3. Becomes(s, i, u)
    BY <1>5 DEF v
  <2> HIDE DEF u
  <2>4. NextState(u.read, u) = NextState(j, t) /\ Decided(i, u, done)
    BY Zenon, <1>1, <2>2 DEF NextState, Decided
  <2>5. j.epoch = EpochOf(i) /\ allowedTransition(u.read.state, NextState(u.read, u))
    BY <1>5, <2>2, <2>4 DEF AdvanceAccepted
  <2>6. Fits(s, i, rows[i], j, u, done)
    BY Zenon, <1>1, <2>2, <2>4, <2>5 DEF Fits, Knows, Heeds, Outdated
  <2> QED
    BY Zenon, <1>0, <1>2, <2>3, <2>6, Moves
<1> QED
  BY <1>3, <1>4, <1>5 DEF TransitionRead

(* ... and writes it, if it is still the one it read.                       *)
LEMMA TransitionWrites ==
    ASSUME IInv, NEW s \in Schedulers, NEW i \in Executions, UNCHANGED faults,
           TransitionWrite(s, i)
    PROVE  IInv' /\ JobsEvolve
<1> DEFINE t == work[s][i]
           j == jobs[JobOf(i)]
           state == NextState(t.read, t)
           next == Advanced(t.read, state)
           unread == [t EXCEPT !.read = NoJob]
           again == Go(unread, "read")
<1>0. /\ Fits(s, i, rows[i], j, t, done) /\ t \in GoroutineSet
      /\ rows[i] \in RowSet /\ RowTrue(i, rows[i], j)
      /\ kube[i] \in GroupSet /\ GroupTrue(i, kube[i], j, epochs[JobOf(i)], done)
      /\ j \in JobSet /\ (j = NoJob \/ JobValid(j))
      /\ rows = [rows EXCEPT ![i] = rows[i]] /\ kube = [kube EXCEPT ![i] = kube[i]]
      /\ JobOf(i) \in Jobs
  BY Here, ExecutionParts
<1>1. /\ t.at = "write" /\ Decided(i, t, done) /\ Begun(i, j)
      /\ rows[i].owner = {s} /\ rows[i].phase = "STOPPING" => t.phase = "STOPPING" /\ t.flow # "run"
      /\ t.read.epoch = EpochOf(i) /\ allowedTransition(t.read.state, state)
      /\ Outdated(t.read, j)
  BY Zenon, <1>0 DEF TransitionWrite, Fits, Knows, Heeds
<1>2. /\ unread \in GoroutineSet /\ unread.flow = t.flow /\ unread.target = t.target
      /\ unread.phase = t.phase
  BY <1>0, IdleType DEF GoroutineSet
<1>3. Decided(i, unread, done)
  BY <1>1, <1>2 DEF Decided
<1> HIDE DEF unread
<1>4. \A b \in JobSet : Begun(i, b) => Fits(s, i, rows[i], b, again, done)
  <2>1. "read" \in Locations \ {"idle", "get"}
    BY DEF Locations
  <2>2. /\ again \in GoroutineSet /\ again.at = "read" /\ again.flow = t.flow
        /\ again.target = t.target /\ (t.flow # "run" => again.phase = t.phase)
    BY <1>2, <2>1, GoMoves
  <2> HIDE DEF again
  <2>3. Decided(i, again, done)
    BY Zenon, <1>1, <2>2 DEF Decided
  <2> QED
    BY Zenon, <1>1, <2>2, <2>3 DEF Fits, Knows, Heeds
<1>5. CASE ~UpdateAccepted(j, next)
  <2>1. Becomes(s, i, again) /\ UNCHANGED <<rows, jobs, kube, epochs, ticks, done>>
    BY <1>5 DEF TransitionWrite, unread
  <2> HIDE DEF again
  <2>2. IInv'
    BY Zenon, <1>0, <1>1, <1>4, <2>1, Moves
  <2> QED
    BY <2>1, <2>2 DEF JobsEvolve, Evolves
<1>6. CASE UpdateAccepted(j, next)
  <2> DEFINE b == Updated(next)
             u == IF next.state = t.target THEN Continue(unread) ELSE again
  <2>1. /\ jobs' = [jobs EXCEPT ![JobOf(i)] = b] /\ Becomes(s, i, u)
        /\ UNCHANGED <<rows, kube, epochs, ticks, done>>
    BY Zenon, <1>6 DEF TransitionWrite, unread
  <2>2. state \in JobStates
    BY <1>0 DEF NextState, GoroutineSet, JobStates
  <2>3. j # NoJob /\ JobValid(j) /\ t.read = j /\ JobValid(next) /\ next.state = state
    <3>1. t.read \in JobSet /\ t.read.version \in Nat /\ j.version \in Nat
      BY Zenon, <1>0 DEF GoroutineSet, JobSet
    <3>2. next.version = t.read.version /\ next.state = state
      BY <2>2, <3>1 DEF Advanced, JobSet
    <3> HIDE DEF next, state, t, j
    <3>3. JobValid(next) /\ j # NoJob /\ j.version = next.version
      BY <1>6 DEF UpdateAccepted
    <3>4. t.read = j
      BY Zenon, <1>1, <3>1, <3>2, <3>3, SameVersion
    <3> QED
      BY <1>0, <3>2, <3>3, <3>4
  <2>4. /\ b \in JobSet /\ JobValid(b) /\ b # NoJob /\ b.state = state
        /\ b.epoch = EpochOf(i) /\ Evolves(j, b)
    <3>1. b = Updated(Advanced(j, state)) /\ JobValid(Advanced(j, state)) /\ allowedTransition(j.state, state)
      BY ZenonT(60), <1>1, <2>3
    <3> HIDE DEF b, next, state, t, j
    <3>2. /\ b \in JobSet /\ JobValid(b) /\ b.state = state /\ b.epoch = j.epoch /\ Evolves(j, b)
      BY <1>0, <2>2, <2>3, <3>1, JobEvolves
    <3>3. \A x : x.version > 0 => x # NoJob
      BY IdleType
    <3> QED
      BY Zenon, <1>1, <2>3, <3>2, <3>3 DEF JobValid
  <2>5. \A k \in Executions : JobOf(k) = JobOf(i) => FinishEarned(k, b, done)
    BY ZenonT(60), <1>1, <2>4, ExecutionParts DEF FinishEarned, NextState, Decided
  <2>6. Fits(s, i, rows[i], b, u, done)
    <3>1. Begun(i, b)
      BY <2>4, ExecutionParts DEF Begun
    <3>2. CASE next.state = t.target
      BY ZenonT(60), <1>1, <1>2, <1>3, <2>3, <2>4, <3>1, <3>2, ContinueFits
    <3> QED
      BY ZenonT(60), <1>4, <2>4, <3>1, <3>2
  <2> HIDE DEF b, u
  <2>7. /\ jobs' \in [Jobs -> JobSet] /\ JobsEvolve
        /\ \A k \in Jobs : jobs'[k] = NoJob \/ JobValid(jobs'[k])
        /\ \A k \in Executions :
             /\ RowTrue(k, rows'[k], jobs'[JobOf(k)])
             /\ FinishEarned(k, jobs'[JobOf(k)], done')
             /\ GroupTrue(k, kube'[k], jobs'[JobOf(k)], epochs'[JobOf(k)], done')
        /\ \A p \in Schedulers, k \in Executions :
             /\ Knows(k, jobs'[JobOf(k)], work[p][k], done')
             /\ Heeds(p, rows'[k], work[p][k])
    BY ZenonT(60), <1>0, <2>1, <2>4, <2>5, JobMoves
  <2>8. jobs'[JobOf(i)] = b
    BY Zenon, <1>0, <2>1 DEF IInv, TypeOK
  <2>9. \A p \in Schedulers, k \in Executions :
          work'[p][k] = IF p = s /\ k = i THEN u ELSE work[p][k]
    BY Zenon, <2>1 DEF Becomes, IInv, TypeOK
  <2>10. \A p \in Schedulers, k \in Executions :
           /\ Knows(k, jobs'[JobOf(k)], work'[p][k], done')
           /\ Heeds(p, rows'[k], work'[p][k])
    BY ZenonT(60), <2>1, <2>6, <2>7, <2>8, <2>9 DEF Fits
  <2>11. TypeOK'
    BY Zenon, <2>1, <2>6, <2>7 DEF Becomes, Fits, IInv, TypeOK
  <2> QED
    BY ZenonT(60), <2>7, <2>10, <2>11 DEF IInv
<1> QED
  BY <1>5, <1>6

(* Dispatcher.Stop and Cleanup, and the end of a dispatch.                  *)
LEMMA EndingSteps ==
    ASSUME IInv, NEW s \in Schedulers, NEW i \in Executions, UNCHANGED faults,
           StopDeletes(s, i) \/ StopChecks(s, i) \/ Cleanup(s, i) \/ Complete(s, i)
    PROVE  IInv'
<1> DEFINE t == work[s][i]
           j == jobs[JobOf(i)]
           g == kube[i]
           Marked == rows[i].owner = {s} /\ rows[i].phase = "STOPPING"
<1>0. /\ Fits(s, i, rows[i], j, t, done) /\ t \in GoroutineSet
      /\ rows[i] \in RowSet /\ RowTrue(i, rows[i], j)
      /\ g \in GroupSet /\ GroupTrue(i, g, j, epochs[JobOf(i)], done)
      /\ j \in JobSet
      /\ rows = [rows EXCEPT ![i] = rows[i]] /\ kube = [kube EXCEPT ![i] = g]
  BY Here
<1>a. {"gone", "renew", "read", "complete"} \subseteq Locations \ {"idle", "get"}
  BY DEF Locations
<1>b. t.at # "idle" => Begun(i, j)
  BY Zenon, <1>0 DEF Fits, Knows
<1>c. t.at \in {"stop", "gone", "cleanup"} =>
        /\ Marked => t.phase = "STOPPING"
        /\ t.flow # "run"
        /\ t.flow = "cancel" => t.target = "CANCELED"
        /\ t.flow # "cancel" => EndKnown(i, j, t)
        /\ t.flow \in {"cancel", "stale", "ended", "heartbeat"}
  BY Zenon, <1>0 DEF Fits, Knows, Heeds
<1>d. t.at # "idle" /\ EndKnown(i, j, t) => Fits(s, i, rows[i], j, Go(t, "complete"), done)
  <2> DEFINE u == Go(t, "complete")
  <2>1. u \in GoroutineSet /\ u.at = "complete" /\ u.target = t.target
    BY Zenon, <1>0, <1>a, GoMoves
  <2> HIDE DEF u
  <2>2. t.at # "idle" /\ EndKnown(i, j, t) => Fits(s, i, rows[i], j, u, done)
    BY Zenon, <1>b, <2>1 DEF Fits, Knows, Heeds, EndKnown
  <2> QED
    BY Zenon, <2>2 DEF u
<1>1. CASE StopDeletes(s, i)
  <2> DEFINE h == DeleteAuxiliary(DeleteCoordinator(g))
             u == Go(t, "gone")
  <2>1. /\ t.at = "stop" /\ Becomes(s, i, u) /\ kube' = [kube EXCEPT ![i] = h]
        /\ UNCHANGED <<rows, jobs, epochs, ticks, done>>
    BY Zenon, <1>1 DEF StopDeletes
  <2>2. /\ u \in GoroutineSet /\ u.at = "gone" /\ u.flow = t.flow /\ u.target = t.target
        /\ u.phase = t.phase
    BY ZenonT(60), <1>0, <1>a, <1>c, <2>1, GoMoves
  <2> HIDE DEF u
  <2>3. Fits(s, i, rows[i], j, u, done)
    BY Zenon, <1>b, <1>c, <2>1, <2>2 DEF Fits, Knows, Heeds, EndKnown
  <2>4. h \in GroupSet /\ GroupTrue(i, h, j, epochs[JobOf(i)], done)
    <3> DEFINE m == DeleteCoordinator(g)
    <3>1. m \in GroupSet /\ m.coordinator = g.coordinator /\ (g = NoGroup => m = NoGroup)
      BY <1>0, DeletionsType
    <3> HIDE DEF m
    <3>2. DeleteAuxiliary(m) \in GroupSet /\ DeleteAuxiliary(m).coordinator = m.coordinator
          /\ (m = NoGroup => DeleteAuxiliary(m) = NoGroup)
      BY <3>1, DeletionsType
    <3> QED
      BY Zenon, <1>0, <3>1, <3>2 DEF GroupTrue, m
  <2> HIDE DEF h
  <2> QED
    BY Zenon, <1>0, <2>1, <2>3, <2>4, Moves
<1>2. CASE StopChecks(s, i)
  <2>1. t.at = "gone" /\ UNCHANGED <<rows, jobs, kube, epochs, ticks, done>>
    BY <1>2 DEF StopChecks
  <2>2. CASE Becomes(s, i, [Go(t, "renew") EXCEPT !.phase = "STOPPING"])
    <3> DEFINE v == Go(t, "renew")
               u == [v EXCEPT !.phase = "STOPPING"]
    <3>1. v \in GoroutineSet /\ v.at = "renew"
      BY <1>0, <1>a, GoMoves
    <3>2. Becomes(s, i, u)
      BY <2>2
    <3> HIDE DEF v
    <3>3. u \in GoroutineSet /\ u.at = "renew" /\ u.phase = "STOPPING"
      BY <3>1 DEF GoroutineSet, ActivePhases
    <3> HIDE DEF u
    <3>4. Fits(s, i, rows[i], j, u, done)
      BY Zenon, <1>b, <2>1, <3>3 DEF Fits, Knows, Heeds
    <3> QED
      BY Zenon, <1>0, <2>1, <3>2, <3>4, Moves
  <2>3. CASE t.flow = "cancel" /\ Becomes(s, i, Go(t, "read"))
    <3>1. /\ Go(t, "read") \in GoroutineSet /\ Go(t, "read").at = "read"
          /\ Go(t, "read").flow = "cancel" /\ Go(t, "read").target = "CANCELED"
          /\ Go(t, "read").phase = t.phase
      BY <1>0, <1>a, <1>c, <2>1, <2>3, GoMoves
    <3>2. Fits(s, i, rows[i], j, Go(t, "read"), done)
      BY ZenonT(60), <1>b, <1>c, <2>1, <3>1 DEF Fits, Knows, Heeds, Decided
    <3> QED
      BY <1>0, <2>1, <2>3, <3>2, Moves
  <2>4. CASE t.flow # "cancel" /\ Becomes(s, i, Go(t, "complete"))
    BY Zenon, <1>0, <1>c, <1>d, <2>1, <2>4, Moves
  <2> QED
    BY <1>2, <2>2, <2>3, <2>4 DEF StopChecks
<1>3. CASE Cleanup(s, i)
  <2> DEFINE h == cleanupAuxiliary(g)
  <2>1. /\ t.at = "cleanup" /\ kube' = [kube EXCEPT ![i] = h]
        /\ UNCHANGED <<rows, jobs, epochs, ticks, done>>
    BY Zenon, <1>3 DEF Cleanup
  <2>2. PICK at \in {"complete", "renew"} : Becomes(s, i, Go(t, at))
    BY Zenon, <1>3 DEF Cleanup
  <2>3. Fits(s, i, rows[i], j, Go(t, at), done)
    <3>1. EndKnown(i, j, t) /\ (Marked => t.phase = "STOPPING")
      BY Zenon, <1>0, <2>1 DEF Fits, Knows, Heeds
    <3> QED
      BY Zenon, <1>0, <1>b, <1>d, <2>1, <2>2, <3>1, RenewFits
  <2>4. h \in GroupSet /\ GroupTrue(i, h, j, epochs[JobOf(i)], done)
    BY Zenon, <1>0, DeletionsType DEF GroupTrue
  <2> HIDE DEF h
  <2> QED
    BY Zenon, <1>0, <2>1, <2>2, <2>3, <2>4, Moves
<1>4. CASE Complete(s, i)
  <2> DEFINE phase == phaseForTerminalState(t.target)
             r == [rows[i] EXCEPT !.phase = phase, !.lease = "expired"]
  <2>1. /\ t.at = "complete" /\ Becomes(s, i, Idle)
        /\ rows[i].owner = {s} /\ rows[i].phase \in ActivePhases
        /\ rows' = [rows EXCEPT ![i] = r]
        /\ UNCHANGED <<jobs, kube, epochs, ticks, done>>
    BY Zenon, <1>4 DEF Complete, complete, Owns, IInv, TypeOK
  <2>2. EndKnown(i, j, t)
    BY <1>0, <2>1 DEF Fits, Knows
  <2>3. phase \in TerminalPhases
    BY <2>2 DEF EndKnown, JobTerminal, phaseForTerminalState, TerminalPhases
  <2> HIDE DEF phase
  <2>4. r \in RowSet /\ r.owner = {s} /\ r.phase = phase
    BY Zenon, <1>0, <2>1, <2>3 DEF RowSet
  <2>5. RowTrue(i, r, j)
    <3>1. rows[i] # NoRow
      BY <2>1 DEF NoRow, ActivePhases, BeatingPhases
    <3> QED
      BY <1>0, <2>2, <2>4, <3>1 DEF RowTrue, EndKnown, phase
  <2> HIDE DEF r
  <2> QED
    BY Zenon, <1>0, <2>1, <2>4, <2>5, IdleFits, Moves
<1> QED
  BY <1>1, <1>2, <1>3, <1>4

===============================================================================
