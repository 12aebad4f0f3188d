-------------------------- MODULE JobSchedulingProofs --------------------------
(***************************************************************************)
(* The theorems about JobScheduling, for any Jobs, replicas, epochs and    *)
(* capacity, from the invariant of JobSchedulingStepProofs.                *)
(***************************************************************************)
EXTENDS JobSchedulingStepProofs, FiniteSetTheorems

(* No leaf depends on how busy the machine is: each prover may take longer  *)
(* than its default of a few seconds.                                       *)
USE SMTT(30), ZenonT(30)

-------------------------------------------------------------------------------
(* The tick, the cluster and the clock.                                     *)

(* Claim gives rows to s; no other replica's goroutine is misled by it.     *)
LEMMA ClaimSteps ==
    ASSUME IInv, NEW s \in Schedulers, Claim(s), UNCHANGED faults
    PROVE  IInv'
<1>1. PICK admitted \in Admissible(Pending) :
        /\ claim(s, admitted)
        /\ work' = [work EXCEPT ![s] =
               [i \in Executions |->
                   IF rows'[i].owner = {s} /\ rows'[i].phase \in ActivePhases
                     THEN Begin(rows'[i]) ELSE Idle]]
  BY DEF Claim
<1>2. ticks' = [ticks EXCEPT ![s].at = "work"] /\ UNCHANGED <<jobs, kube, epochs, done>>
  BY DEF Claim
<1>3. ASSUME NEW k \in Executions
      PROVE  /\ rows'[k] \in RowSet
             /\ RowTrue(k, rows'[k], jobs[JobOf(k)])
             /\ rows'[k] = rows[k] \/ rows'[k].owner = {s}
             /\ rows'[k].phase \in ActivePhases => EpochOf(k) <= jobs[JobOf(k)].epoch
  <2>0. /\ rows[k] \in RowSet /\ RowTrue(k, rows[k], jobs[JobOf(k)])
        /\ rows[k].phase \in ActivePhases => rows[k] # NoRow
    BY Here DEF NoRow, ActivePhases, BeatingPhases
  <2>1. CASE k \in admitted
    <3>1. EpochOf(k) <= jobs[JobOf(k)].epoch
      <4>1. jobs[JobOf(k)].epoch = EpochOf(k)
        BY <2>1 DEF Admissible, Pending
      <4> QED
        BY <4>1, ExecutionParts
    <3>2. rows'[k] = [owner |-> {s}, phase |-> "CLAIMED", lease |-> "live", beat |-> "fresh"]
      BY Zenon, <1>1, <2>1 DEF claim
    <3> QED
      BY <3>1, <3>2 DEF RowTrue, RowSet, ActivePhases, BeatingPhases, TerminalPhases
  <2>2. CASE k \notin admitted /\ k \in TakenOver(s) \cup Owned(s)
    <3>1. rows'[k] = [rows[k] EXCEPT !.owner = {s}, !.lease = "live"]
      BY Zenon, <1>1, <2>2 DEF claim
    <3>2. rows[k].phase \in ActivePhases
      BY <2>2 DEF TakenOver, Owned, ActiveRows
    <3>3. rows'[k] \in RowSet /\ rows'[k].owner = {s} /\ rows'[k].phase = rows[k].phase
      BY ZenonT(60), <2>0, <3>1 DEF RowSet
    <3> QED
      BY <2>0, <3>2, <3>3 DEF RowTrue
  <2>3. CASE k \notin admitted /\ k \notin TakenOver(s) \cup Owned(s)
    <3>1. rows'[k] = rows[k]
      BY Zenon, <1>1, <2>3 DEF claim
    <3> QED
      BY <2>0, <3>1 DEF RowTrue
  <2> QED
    BY <2>1, <2>2, <2>3
<1>4. \A k \in Executions :
        (IF rows'[k].owner = {s} /\ rows'[k].phase \in ActivePhases
           THEN Begin(rows'[k]) ELSE Idle) \in GoroutineSet
  BY <1>3, BeginType, IdleType
<1>5. TypeOK'
  <2>1. rows' \in [Executions -> RowSet]
    BY Zenon, <1>1, <1>3 DEF claim
  <2>2. work' \in [Schedulers -> [Executions -> GoroutineSet]]
    BY <1>1, <1>4 DEF IInv, TypeOK
  <2>3. ticks' \in [Schedulers -> TickSet]
    BY ZenonT(60), <1>2 DEF IInv, TypeOK, TickSet
  <2> QED
    BY <1>2, <2>1, <2>2, <2>3 DEF IInv, TypeOK
<1>6. ASSUME NEW p \in Schedulers, NEW k \in Executions
      PROVE  Knows(k, jobs[JobOf(k)], work'[p][k], done) /\ Heeds(p, rows'[k], work'[p][k])
  <2>0. Knows(k, jobs[JobOf(k)], work[p][k], done) /\ Heeds(p, rows[k], work[p][k])
    BY DEF IInv
  <2>1. CASE p # s
    <3>1. work'[p][k] = work[p][k]
      BY <1>1, <2>1 DEF IInv, TypeOK
    <3> QED
      BY Zenon, <1>3, <2>0, <2>1, <3>1 DEF Heeds
  <2>2. CASE p = s /\ rows'[k].owner = {s} /\ rows'[k].phase \in ActivePhases
    <3>1. work'[p][k] = Begin(rows'[k])
      BY Zenon, <1>1, <2>2 DEF IInv, TypeOK
    <3>2. /\ work'[p][k].at = "get" /\ work'[p][k].flow = "run"
          /\ work'[p][k].phase = rows'[k].phase
      BY <1>3, <2>2, <3>1, BeginType
    <3>3. Begun(k, jobs[JobOf(k)])
      BY <1>3, <2>2 DEF Begun
    <3> QED
      BY Zenon, <3>2, <3>3 DEF Knows, Heeds
  <2>3. CASE p = s /\ ~(rows'[k].owner = {s} /\ rows'[k].phase \in ActivePhases)
    <3>1. work'[p][k] = Idle
      BY Zenon, <1>1, <2>3 DEF IInv, TypeOK
    <3> QED
      BY <3>1, IdleKnows
  <2> QED
    BY <2>1, <2>2, <2>3
<1> QED
  BY <1>2, <1>3, <1>5, <1>6 DEF IInv

(* The rest of a tick: the sweep deletes, and only what is there.           *)
LEMMA SweepSteps ==
    ASSUME IInv, NEW s \in Schedulers, List(s) \/ SweepOrphans(s) \/ SkipSweep(s),
           UNCHANGED faults
    PROVE  IInv'
<1>1. CASE List(s)
  BY Zenon, <1>1 DEF List, IInv, TypeOK, TickSet, KnownRows, ActiveRows
<1>2. CASE SkipSweep(s)
  BY Zenon, <1>2 DEF SkipSweep, IInv, TypeOK, TickSet
<1>3. CASE SweepOrphans(s)
  <2>1. ASSUME NEW i \in Executions
        PROVE  /\ Swept(s, kube[i], i) \in GroupSet
               /\ GroupTrue(i, Swept(s, kube[i], i), jobs[JobOf(i)], epochs[JobOf(i)], done)
    <3> DEFINE g == kube[i]
               kept == IF i \in ticks[s].active THEN g ELSE DeleteAuxiliary(g)
    <3>1. g \in GroupSet /\ GroupTrue(i, g, jobs[JobOf(i)], epochs[JobOf(i)], done)
      BY Here
    <3>2. kept \in GroupSet /\ kept.coordinator = g.coordinator /\ (g = NoGroup => kept = NoGroup)
      BY <3>1, DeletionsType
    <3>3. Swept(s, g, i) = IF i \in ticks[s].known THEN kept ELSE DeleteCoordinator(kept)
      BY DEF Swept
    <3> HIDE DEF kept
    <3>4. /\ DeleteCoordinator(kept) \in GroupSet
          /\ DeleteCoordinator(kept).coordinator = kept.coordinator
          /\ kept = NoGroup => DeleteCoordinator(kept) = NoGroup
      BY <3>2, DeletionsType
    <3> QED
      BY Zenon, <3>1, <3>2, <3>3, <3>4 DEF GroupTrue
  <2>2. /\ kube' = [i \in Executions |-> Swept(s, kube[i], i)]
        /\ ticks' = [ticks EXCEPT ![s] = [at |-> "idle", known |-> {}, active |-> {}]]
        /\ UNCHANGED <<rows, jobs, epochs, work, done>>
    BY <1>3 DEF SweepOrphans
  <2>3. TypeOK'
    BY Zenon, <2>1, <2>2 DEF IInv, TypeOK, TickSet
  <2>4. \A i \in Executions : GroupTrue(i, kube'[i], jobs[JobOf(i)], epochs[JobOf(i)], done)
    BY Zenon, <2>1, <2>2
  <2> QED
    BY Zenon, <2>2, <2>3, <2>4 DEF IInv
<1> QED
  BY <1>1, <1>2, <1>3

(* The goroutine u is t but for what it copied or saw.                      *)
Alike(t, u) ==
    /\ u.at = t.at /\ u.flow = t.flow /\ u.target = t.target
    /\ u.phase = t.phase /\ u.read = t.read

(* A step of the cluster, the Coordinator or the clock for i: rows keep     *)
(* owner and phase, goroutines all but their copy of the heartbeat, and     *)
(* more may have run to its end.                                            *)
LEMMA WorldMoves ==
    ASSUME IInv, NEW i \in Executions,
           NEW r \in RowSet, rows' = [rows EXCEPT ![i] = r],
           r.owner = rows[i].owner, r.phase = rows[i].phase, rows[i] = NoRow => r = NoRow,
           NEW g \in GroupSet, kube' = [kube EXCEPT ![i] = g],
           NEW e \in 0..MaxEpoch, epochs' = [epochs EXCEPT ![JobOf(i)] = e],
           done' \in SUBSET Executions, done \subseteq done',
           GroupTrue(i, g, jobs[JobOf(i)], e, done'),
           work' \in [Schedulers -> [Executions -> GoroutineSet]],
           \A s \in Schedulers, k \in Executions : Alike(work[s][k], work'[s][k]),
           UNCHANGED <<jobs, ticks, faults>>
    PROVE  IInv'
<1>1. TypeOK'
  BY Zenon DEF IInv, TypeOK
<1>2. ASSUME NEW k \in Executions
      PROVE  /\ RowTrue(k, rows'[k], jobs[JobOf(k)])
             /\ FinishEarned(k, jobs[JobOf(k)], done')
             /\ GroupTrue(k, kube'[k], jobs[JobOf(k)], epochs'[JobOf(k)], done')
  <2>0. JobOf(k) \in Jobs /\ JobOf(i) \in Jobs
    BY ExecutionParts
  <2>1. /\ RowTrue(k, rows[k], jobs[JobOf(k)])
        /\ FinishEarned(k, jobs[JobOf(k)], done)
        /\ GroupTrue(k, kube[k], jobs[JobOf(k)], epochs[JobOf(k)], done)
    BY Zenon DEF IInv
  <2>2. rows'[k] = IF k = i THEN r ELSE rows[k]
    BY DEF IInv, TypeOK
  <2>3. RowTrue(k, rows'[k], jobs[JobOf(k)])
    BY Zenon, <2>1, <2>2 DEF RowTrue
  <2>4. /\ kube'[k] = IF k = i THEN g ELSE kube[k]
        /\ epochs'[JobOf(k)] = IF JobOf(k) = JobOf(i) THEN e ELSE epochs[JobOf(k)]
    BY Zenon, <2>0 DEF IInv, TypeOK
  <2>5. GroupTrue(k, kube'[k], jobs[JobOf(k)], epochs'[JobOf(k)], done')
    BY Zenon, <2>1, <2>4 DEF GroupTrue
  <2> QED
    BY Zenon, <2>1, <2>3, <2>5 DEF FinishEarned
<1>3. ASSUME NEW s \in Schedulers, NEW k \in Executions
      PROVE  Knows(k, jobs[JobOf(k)], work'[s][k], done') /\ Heeds(s, rows'[k], work'[s][k])
  <2> DEFINE t == work[s][k]
             u == work'[s][k]
  <2>1. Knows(k, jobs[JobOf(k)], t, done) /\ Heeds(s, rows[k], t) /\ t \in GoroutineSet
    BY Zenon DEF IInv, TypeOK
  <2>2. rows'[k].owner = rows[k].owner /\ rows'[k].phase = rows[k].phase
    BY Zenon DEF IInv, TypeOK
  <2>3. /\ u.at = t.at /\ u.flow = t.flow /\ u.target = t.target /\ u.phase = t.phase
        /\ u.read = t.read
    BY Zenon DEF Alike
  <2> HIDE DEF t, u
  <2>4. Decided(k, t, done) => Decided(k, u, done')
    BY Zenon, <2>3 DEF Decided
  <2>5. \A j : EndKnown(k, j, t) => EndKnown(k, j, u)
    BY Zenon, <2>3 DEF EndKnown
  <2>6. NextState(u.read, u) = NextState(t.read, t)
    BY Zenon, <2>3 DEF NextState
  <2>7. Knows(k, jobs[JobOf(k)], u, done')
    BY <2>1, <2>3, <2>4, <2>5, <2>6 DEF Knows
  <2>8. Heeds(s, rows'[k], u)
    BY Zenon, <2>1, <2>2, <2>3 DEF Heeds
  <2> QED
    BY Zenon, <2>7, <2>8 DEF u
<1> QED
  BY Zenon, <1>1, <1>2, <1>3 DEF IInv

(* What the cluster makes of a group is a group.                            *)
LEMMA ChangesType ==
    ASSUME NEW g \in GroupSet
    PROVE  /\ \A c \in Coordinators : /\ [g EXCEPT !.coordinator = c] \in GroupSet
                                      /\ [g EXCEPT !.coordinator = c].coordinator = c
           /\ [g EXCEPT !.ready = TRUE] \in GroupSet
           /\ [g EXCEPT !.ready = TRUE].coordinator = g.coordinator
           /\ [g EXCEPT !.workers = "absent", !.ready = FALSE] \in GroupSet
           /\ [g EXCEPT !.workers = "absent", !.ready = FALSE].coordinator = g.coordinator
           /\ [g EXCEPT !.coordinator = "absent", !.deleting = FALSE] \in GroupSet
           /\ [g EXCEPT !.coordinator = "absent", !.deleting = FALSE].coordinator = "absent"
BY Zenon DEF GroupSet, Coordinators

(* The cluster starts and removes pods and objects.                         *)
LEMMA ClusterSteps ==
    ASSUME IInv, NEW i \in Executions, UNCHANGED faults,
           \/ Cluster(i) \/ CoordinatorFails(i) \/ CoordinatorRetries(i)
           \/ CoordinatorCompletes(i)
    PROVE  IInv'
<1> DEFINE g == kube[i]
           j == jobs[JobOf(i)]
<1>0. /\ rows[i] \in RowSet /\ rows = [rows EXCEPT ![i] = rows[i]]
      /\ g \in GroupSet /\ GroupTrue(i, g, j, epochs[JobOf(i)], done)
      /\ epochs[JobOf(i)] \in 0..MaxEpoch
      /\ epochs = [epochs EXCEPT ![JobOf(i)] = epochs[JobOf(i)]]
      /\ done \in SUBSET Executions
      /\ work \in [Schedulers -> [Executions -> GoroutineSet]]
  <2>1. JobOf(i) \in Jobs
    BY ExecutionParts
  <2> QED
    BY Zenon, <2>1 DEF IInv, TypeOK
<1>1. \A c \in {"pending", "active", "absent", "failed", "complete"} : c \in Coordinators
  BY DEF Coordinators
<1>2. \E h \in GroupSet :
        /\ kube' = [kube EXCEPT ![i] = h]
        /\ h.coordinator = "complete" => g.coordinator = "complete" \/ i \in done'
  <2>1. CASE WorkersReady(i)
    BY Zenon, <1>0, <2>1, ChangesType DEF WorkersReady, Group
  <2>2. CASE WorkersGone(i)
    BY Zenon, <1>0, <2>2, ChangesType DEF WorkersGone, Group
  <2>3. CASE CoordinatorPod(i)
    <3>1. /\ [g EXCEPT !.coordinator = "active"] \in GroupSet
          /\ [g EXCEPT !.coordinator = "active"].coordinator = "active"
      BY Zenon, <1>0, <1>1, ChangesType
    <3> QED
      BY Zenon, <2>3, <3>1 DEF CoordinatorPod, Group
  <2>4. CASE CoordinatorGone(i)
    BY Zenon, <1>0, <2>4, ChangesType DEF CoordinatorGone, Group
  <2>5. CASE CoordinatorFails(i)
    <3>1. /\ [g EXCEPT !.coordinator = "failed"] \in GroupSet
          /\ [g EXCEPT !.coordinator = "failed"].coordinator = "failed"
      BY Zenon, <1>0, <1>1, ChangesType
    <3> QED
      BY Zenon, <2>5, <3>1 DEF CoordinatorFails, Group
  <2>6. CASE CoordinatorRetries(i)
    <3>1. /\ [g EXCEPT !.coordinator = "pending"] \in GroupSet
          /\ [g EXCEPT !.coordinator = "pending"].coordinator = "pending"
      BY Zenon, <1>0, <1>1, ChangesType
    <3> QED
      BY Zenon, <2>6, <3>1 DEF CoordinatorRetries, Group
  <2>7. CASE CoordinatorCompletes(i)
    <3>1. /\ [g EXCEPT !.coordinator = "complete"] \in GroupSet
          /\ [g EXCEPT !.coordinator = "complete"].coordinator = "complete"
      BY Zenon, <1>0, <1>1, ChangesType
    <3> QED
      BY Zenon, <2>7, <3>1 DEF CoordinatorCompletes, Group
  <2> QED
    BY <2>1, <2>2, <2>3, <2>4, <2>5, <2>6, <2>7 DEF Cluster
<1>3. PICK h \in GroupSet :
        /\ kube' = [kube EXCEPT ![i] = h]
        /\ h.coordinator = "complete" => g.coordinator = "complete" \/ i \in done'
  BY Zenon, <1>2
<1>4. /\ UNCHANGED <<rows, jobs, ticks, epochs, work>>
      /\ done' \in SUBSET Executions /\ done \subseteq done'
      /\ g # NoGroup
  BY <1>0 DEF Cluster, WorkersReady, WorkersGone, CoordinatorPod, CoordinatorGone,
              CoordinatorFails, CoordinatorRetries, CoordinatorCompletes, Group, NoGroup
<1>5. GroupTrue(i, h, j, epochs[JobOf(i)], done')
  BY <1>0, <1>3, <1>4 DEF GroupTrue
<1>6. \A s \in Schedulers, k \in Executions : Alike(work[s][k], work'[s][k])
  BY <1>4 DEF Alike
<1> HIDE DEF g, j
<1> QED
  BY Zenon, <1>0, <1>3, <1>4, <1>5, <1>6, WorldMoves DEF j

(* Heartbeats, the epoch the checkpoint store grants, and the clock.        *)
LEMMA ClockSteps ==
    ASSUME IInv, NEW i \in Executions, UNCHANGED faults,
           CoordinatorRuns(i) \/ Heartbeat(i) \/ HeartbeatExpires(i) \/ LeaseExpires(i)
    PROVE  IInv'
<1> DEFINE g == kube[i]
           j == jobs[JobOf(i)]
           row == rows[i]
<1>0. /\ row \in RowSet /\ g \in GroupSet /\ kube = [kube EXCEPT ![i] = g]
      /\ GroupTrue(i, g, j, epochs[JobOf(i)], done)
      /\ epochs[JobOf(i)] \in 0..MaxEpoch /\ EpochOf(i) \in 0..MaxEpoch
      /\ epochs = [epochs EXCEPT ![JobOf(i)] = epochs[JobOf(i)]]
      /\ done \in SUBSET Executions
      /\ work \in [Schedulers -> [Executions -> GoroutineSet]]
  <2>1. JobOf(i) \in Jobs /\ EpochOf(i) \in 0..MaxEpoch
    BY ExecutionParts
  <2> QED
    BY Zenon, <2>1 DEF IInv, TypeOK
<1>1. /\ row.phase \in ActivePhases
      /\ \E x \in {"live", "expired"}, y \in {"fresh", "stale"} :
           rows' = [rows EXCEPT ![i] = [row EXCEPT !.lease = x, !.beat = y]]
  <2>0. /\ row = [row EXCEPT !.lease = row.lease] /\ row = [row EXCEPT !.beat = row.beat]
        /\ row.lease \in {"live", "expired"} /\ row.beat \in {"fresh", "stale"}
    BY <1>0 DEF RowSet
  <2>1. CASE CoordinatorRuns(i) \/ Heartbeat(i)
    <3>1. row.phase \in ActivePhases /\ rows' = [rows EXCEPT ![i] = [row EXCEPT !.beat = "fresh"]]
      BY <2>1 DEF CoordinatorRuns, Heartbeat, recordHeartbeat, ActivePhases
    <3>2. [row EXCEPT !.beat = "fresh"] = [row EXCEPT !.lease = row.lease, !.beat = "fresh"]
      BY Zenon, <1>0 DEF RowSet
    <3> QED
      BY Zenon, <2>0, <3>1, <3>2
  <2>2. CASE HeartbeatExpires(i)
    <3>1. row.phase \in ActivePhases /\ rows' = [rows EXCEPT ![i] = [row EXCEPT !.beat = "stale"]]
      BY <2>2 DEF HeartbeatExpires, heartbeatExpires
    <3>2. [row EXCEPT !.beat = "stale"] = [row EXCEPT !.lease = row.lease, !.beat = "stale"]
      BY Zenon, <1>0 DEF RowSet
    <3> QED
      BY Zenon, <2>0, <3>1, <3>2
  <2>3. CASE LeaseExpires(i)
    <3>1. row.phase \in ActivePhases /\ rows' = [rows EXCEPT ![i] = [row EXCEPT !.lease = "expired"]]
      BY <2>3 DEF LeaseExpires, leaseExpires
    <3>2. [row EXCEPT !.lease = "expired"] = [row EXCEPT !.lease = "expired", !.beat = row.beat]
      BY Zenon, <1>0 DEF RowSet
    <3> QED
      BY Zenon, <2>0, <3>1, <3>2
  <2> QED
    BY <2>1, <2>2, <2>3
<1>2. PICK r \in RowSet :
        /\ rows' = [rows EXCEPT ![i] = r]
        /\ r.owner = row.owner /\ r.phase = row.phase /\ row # NoRow
  <2>1. PICK x \in {"live", "expired"}, y \in {"fresh", "stale"} :
          rows' = [rows EXCEPT ![i] = [row EXCEPT !.lease = x, !.beat = y]]
    BY Zenon, <1>1
  <2> DEFINE r == [row EXCEPT !.lease = x, !.beat = y]
  <2>2. r \in RowSet /\ r.owner = row.owner /\ r.phase = row.phase
    BY Zenon, <1>0 DEF RowSet
  <2>3. row # NoRow
    BY <1>1 DEF NoRow, ActivePhases, BeatingPhases
  <2> QED
    BY Zenon, <2>1, <2>2, <2>3
<1>3. PICK h \in GroupSet, e \in 0..MaxEpoch :
        /\ kube' = [kube EXCEPT ![i] = h] /\ epochs' = [epochs EXCEPT ![JobOf(i)] = e]
        /\ GroupTrue(i, h, j, e, done)
  <2>1. CASE CoordinatorRuns(i)
    <3> DEFINE h == [g EXCEPT !.coordinator = "running"]
    <3>1. /\ kube' = [kube EXCEPT ![i] = h] /\ epochs' = [epochs EXCEPT ![JobOf(i)] = EpochOf(i)]
          /\ g.coordinator = "active"
      BY <2>1 DEF CoordinatorRuns, Group
    <3>2. "running" \in Coordinators
      BY DEF Coordinators
    <3>3. h \in GroupSet /\ h.coordinator = "running"
      BY Zenon, <1>0, <3>2, ChangesType
    <3>4. g # NoGroup
      BY <3>1 DEF NoGroup
    <3> HIDE DEF h
    <3>5. GroupTrue(i, h, j, EpochOf(i), done)
      BY Zenon, <1>0, <3>3, <3>4 DEF GroupTrue, Begun
    <3> QED
      BY Zenon, <1>0, <3>1, <3>3, <3>5
  <2>2. CASE Heartbeat(i) \/ HeartbeatExpires(i) \/ LeaseExpires(i)
    <3>1. UNCHANGED <<kube, epochs>>
      BY Zenon, <2>2 DEF Heartbeat, HeartbeatExpires, LeaseExpires
    <3> QED
      BY <1>0, <3>1
  <2> QED
    BY Zenon, <2>1, <2>2
<1>4. UNCHANGED <<jobs, ticks, done>>
  BY DEF CoordinatorRuns, Heartbeat, HeartbeatExpires, LeaseExpires, Group
<1>5. /\ work' \in [Schedulers -> [Executions -> GoroutineSet]]
      /\ \A s \in Schedulers, k \in Executions : Alike(work[s][k], work'[s][k])
  <2>1. CASE HeartbeatExpires(i)
    <3> DEFINE X(s) == IF work[s][i].at \in {"get", "keep", "observe", "ensure", "create"}
                         THEN "stale" ELSE work[s][i].beat
    <3>1. \A s \in Schedulers : X(s) \in {"fresh", "stale"}
      BY <1>0 DEF GoroutineSet
    <3>2. work' = [s \in Schedulers |-> [work[s] EXCEPT ![i] = [work[s][i] EXCEPT !.beat = X(s)]]]
      BY <2>1 DEF HeartbeatExpires
    <3> HIDE DEF X
    <3>3. \A t \in GoroutineSet : \A x \in {"fresh", "stale"} :
            [t EXCEPT !.beat = x] \in GoroutineSet /\ Alike(t, [t EXCEPT !.beat = x])
      BY DEF GoroutineSet, Alike
    <3>4. \A t : Alike(t, t)
      BY DEF Alike
    <3>5. \A s \in Schedulers, k \in Executions :
            work'[s][k] = IF k = i THEN [work[s][i] EXCEPT !.beat = X(s)] ELSE work[s][k]
      BY <1>0, <3>2
    <3>6. ASSUME NEW s \in Schedulers, NEW k \in Executions
          PROVE  work'[s][k] \in GoroutineSet /\ Alike(work[s][k], work'[s][k])
      <4>1. work[s][k] \in GoroutineSet /\ work[s][i] \in GoroutineSet
        BY <1>0
      <4>2. CASE k = i
        BY ZenonT(60), <3>1, <3>3, <3>5, <4>1, <4>2
      <4>3. CASE k # i
        BY Zenon, <3>4, <3>5, <4>1, <4>3
      <4> QED
        BY <4>2, <4>3
    <3>7. work' \in [Schedulers -> [Executions -> GoroutineSet]]
      BY Zenon, <1>0, <3>2, <3>6
    <3> QED
      BY <3>6, <3>7
  <2>2. CASE CoordinatorRuns(i) \/ Heartbeat(i) \/ LeaseExpires(i)
    <3>1. UNCHANGED work
      BY <2>2 DEF CoordinatorRuns, Heartbeat, LeaseExpires
    <3> QED
      BY <1>0, <3>1 DEF Alike
  <2> QED
    BY <2>1, <2>2
<1> HIDE DEF g, j
<1> QED
  BY Zenon, <1>0, <1>2, <1>3, <1>4, <1>5, WorldMoves DEF j

-------------------------------------------------------------------------------
(* The theorems.                                                            *)

(* In the beginning nothing is claimed and nothing runs.                    *)
LEMMA InitHolds == Init => IInv
<1> SUFFICES ASSUME Init PROVE IInv
  OBVIOUS
<1>1. NewJob \in JobSet /\ JobValid(NewJob) /\ NewJob.epoch = 0 /\ NewJob.state = "CREATED"
  BY SchedulingAssumption
     DEF NewJob, NoJob, JobSet, JobValid, StatusValid, Desired, JobStates
<1>2. /\ NoRow \in RowSet /\ NoRow.phase = "none" /\ NoRow.owner = {}
      /\ NoGroup \in GroupSet /\ NoGroup.coordinator = "absent"
  BY DEF NoRow, RowSet, NoGroup, GroupSet, Coordinators
<1>3. TypeOK
  BY <1>1, <1>2, IdleType, SchedulingAssumption DEF Init, RowsInit, TypeOK, TickSet
<1>4. ASSUME NEW i \in Executions
      PROVE  /\ RowTrue(i, rows[i], jobs[JobOf(i)])
             /\ FinishEarned(i, jobs[JobOf(i)], done)
             /\ GroupTrue(i, kube[i], jobs[JobOf(i)], epochs[JobOf(i)], done)
  <2>1. /\ rows[i] = NoRow /\ kube[i] = NoGroup
        /\ jobs[JobOf(i)] = NewJob /\ epochs[JobOf(i)] = 0
    BY ExecutionParts DEF Init, RowsInit
  <2> QED
    BY <1>1, <1>2, <2>1 DEF RowTrue, FinishEarned, GroupTrue, TerminalPhases
<1>5. \A s \in Schedulers, i \in Executions : work[s][i] = Idle
  BY DEF Init
<1>6. \A j \in Jobs : jobs[j] = NewJob
  BY Zenon DEF Init
<1> QED
  BY Zenon, <1>1, <1>3, <1>4, <1>5, <1>6, IdleKnows DEF IInv

(* Every step keeps the invariant.                                          *)
LEMMA StepKeeps == IInv /\ [Next]_vars => IInv'
<1> SUFFICES ASSUME IInv, [Next]_vars PROVE IInv'
  OBVIOUS
<1>1. CASE UNCHANGED vars
  BY Zenon, <1>1 DEF vars, IInv, TypeOK
<1>2. CASE FaultsCease
  BY Zenon, <1>2 DEF FaultsCease, IInv, TypeOK
<1>3. ASSUME Step, UNCHANGED faults
      PROVE  IInv'
  <2>1. CASE Api
    BY <1>3, <2>1, ApiSteps
  <2>2. CASE Failure
    <3>1. PICK s \in Schedulers :
            \/ SkipSweep(s)
            \/ \E i \in Executions :
                 \/ DispatchError(s, i) \/ DispatchRejected(s, i)
                 \/ TransientError(s, i) \/ Abort(s, i)
      BY <2>2 DEF Failure
    <3> QED
      BY <1>3, <3>1, SweepSteps, DispatchSteps, ReconcileSteps
  <2>3. ASSUME NEW s \in Schedulers, Tick(s)
        PROVE  IInv'
    BY <1>3, <2>3, ClaimSteps, SweepSteps DEF Tick
  <2>4. ASSUME NEW s \in Schedulers, NEW i \in Executions, Goroutine(s, i)
        PROVE  IInv'
    BY <1>3, <2>4, ReconcileSteps, DispatchSteps, TransitionReads, TransitionWrites, EndingSteps
       DEF Goroutine
  <2>5. ASSUME NEW i \in Executions,
               Cluster(i) \/ Execution(i) \/ HeartbeatExpires(i) \/ LeaseExpires(i)
        PROVE  IInv'
    BY <1>3, <2>5, ClusterSteps, ClockSteps DEF Execution
  <2> QED
    BY <1>3, <2>1, <2>2, <2>3, <2>4, <2>5 DEF Step
<1> QED
  BY <1>1, <1>2, <1>3 DEF Next

(* The invariant holds in every state that Schedulers, the API, the cluster *)
(* and their failures can reach, and with it the types of the state.        *)
THEOREM SchedulingInvariant == Spec => []IInv
<1>1. Init => IInv
  BY InitHolds
<1>2. IInv /\ [Next]_vars => IInv'
  BY StepKeeps
<1> QED
  BY <1>1, <1>2, PTL DEF Spec

(* A row ends only after its Job and as its Job, and a Job is FINISHED only *)
(* if the Coordinator of this epoch ran to its end (Reconciler.reconcile).  *)
THEOREM EndsStayTruthful == Spec => []EndsAreTruthful
<1>1. IInv => EndsAreTruthful
  BY Zenon DEF IInv, EndsAreTruthful, RowTrue, FinishEarned
<1> QED
  BY <1>1, SchedulingInvariant, PTL

(* Neither a row, nor a group, nor the checkpoint store is ahead of the     *)
(* epoch its Job was started with (Claim, CreateCoordinator, Acquire).      *)
THEOREM NothingGetsAhead == Spec => []NothingAhead
<1>1. IInv => NothingAhead
  BY Zenon DEF IInv, NothingAhead, RowTrue, GroupTrue, Begun
<1> QED
  BY <1>1, SchedulingInvariant, PTL

(* How the phase of a row changes, other than by an insertion: it ends, or  *)
(* is deleted, or stays among the active ones, STOPPING as it is.           *)
PhaseMoves(a, b) ==
    \/ b = a
    \/ b = "none"
    \/ a \in ActivePhases /\ b \in TerminalPhases
    \/ a \in ActivePhases /\ b \in ActivePhases /\ (a = "STOPPING" => b = "STOPPING")

RowsMove == \A i \in Executions : PhaseMoves(rows[i].phase, rows'[i].phase)

(* A statement that changes one row.                                        *)
LEMMA OneRowMoves ==
    ASSUME IInv, NEW i \in Executions, NEW r, PhaseMoves(rows[i].phase, r.phase),
           rows' = [rows EXCEPT ![i] = r]
    PROVE  RowsMove
<1>1. \A k \in Executions : rows'[k] = IF k = i THEN r ELSE rows[k]
  BY Zenon DEF IInv, TypeOK
<1> QED
  BY <1>1 DEF RowsMove, PhaseMoves

(* What the goroutines do to rows: renew, fence and end them.               *)
LEMMA GoroutineRows ==
    ASSUME IInv, NEW s \in Schedulers, NEW i \in Executions, Goroutine(s, i)
    PROVE  RowsMove
<1> DEFINE t == work[s][i]
<1>0. /\ rows[i] \in RowSet /\ t \in GoroutineSet
      /\ Knows(i, jobs[JobOf(i)], t, done) /\ Heeds(s, rows[i], t)
  BY Zenon DEF IInv, TypeOK
<1>1. CASE KeepAlive(s, i)
  <2> DEFINE r == [rows[i] EXCEPT !.phase = t.phase, !.lease = "live"]
  <2>1. /\ t.at \in {"keep", "halt", "renew"} /\ Owns(s, i)
        /\ rows' = [rows EXCEPT ![i].phase = t.phase, ![i].lease = "live"]
    BY <1>1 DEF KeepAlive, update
  <2>2. rows' = [rows EXCEPT ![i] = r] /\ r.phase = t.phase
    BY Zenon, <1>0, <2>1 DEF IInv, TypeOK, RowSet
  <2>3. PhaseMoves(rows[i].phase, t.phase)
    BY <1>0, <2>1 DEF Heeds, Owns, PhaseMoves, GoroutineSet
  <2> HIDE DEF r
  <2> QED
    BY Zenon, <2>2, <2>3, OneRowMoves
<1>2. CASE FenceHeartbeat(s, i)
  <2> DEFINE r == [rows[i] EXCEPT !.phase = "STOPPING", !.lease = "live"]
  <2>1. /\ rows[i].phase \in ActivePhases
        /\ rows' = [rows EXCEPT ![i].phase = "STOPPING", ![i].lease = "live"]
    BY <1>2 DEF FenceHeartbeat, fenceExpiredHeartbeat, FenceAccepted, Owns
  <2>2. rows' = [rows EXCEPT ![i] = r] /\ r.phase = "STOPPING"
    BY Zenon, <1>0, <2>1 DEF IInv, TypeOK, RowSet
  <2>3. PhaseMoves(rows[i].phase, "STOPPING")
    BY <2>1 DEF PhaseMoves, ActivePhases
  <2> HIDE DEF r
  <2> QED
    BY Zenon, <2>2, <2>3, OneRowMoves
<1>3. CASE Complete(s, i)
  <2> DEFINE phase == phaseForTerminalState(t.target)
             r == [rows[i] EXCEPT !.phase = phase, !.lease = "expired"]
  <2>1. /\ t.at = "complete" /\ rows[i].phase \in ActivePhases
        /\ rows' = [rows EXCEPT ![i].phase = phase, ![i].lease = "expired"]
    BY <1>3 DEF Complete, complete, Owns
  <2>2. phase \in TerminalPhases
    BY Zenon, <1>0, <2>1 DEF Knows, EndKnown, JobTerminal, phaseForTerminalState, TerminalPhases
  <2> HIDE DEF phase
  <2>3. rows' = [rows EXCEPT ![i] = r] /\ r.phase = phase
    BY Zenon, <1>0, <2>1 DEF IInv, TypeOK, RowSet
  <2>4. PhaseMoves(rows[i].phase, phase)
    BY <2>1, <2>2 DEF PhaseMoves
  <2> HIDE DEF r
  <2> QED
    BY Zenon, <2>3, <2>4, OneRowMoves
<1>4. ASSUME UNCHANGED rows PROVE RowsMove
  BY Zenon, <1>4 DEF RowsMove, PhaseMoves
<1>5. CASE GetJob(s, i) \/ LeaseLost(s, i) \/ ObserveEnded(s, i) \/ ObserveLive(s, i)
  BY <1>4, <1>5 DEF GetJob, LeaseLost, ObserveEnded, ObserveLive
<1>6. CASE EnsureAuxiliary(s, i) \/ CreateCoordinator(s, i) \/ FenceRefused(s, i)
  BY <1>4, <1>6 DEF EnsureAuxiliary, CreateCoordinator, FenceRefused
<1>7. CASE TransitionRead(s, i) \/ TransitionWrite(s, i)
  BY Zenon, <1>4, <1>7 DEF TransitionRead, TransitionWrite
<1>8. CASE StopDeletes(s, i) \/ StopChecks(s, i) \/ Cleanup(s, i)
  BY <1>4, <1>8 DEF StopDeletes, StopChecks, Cleanup
<1> QED
  BY <1>1, <1>2, <1>3, <1>5, <1>6, <1>7, <1>8 DEF Goroutine

(* Every step lets the Jobs evolve, and moves the phases of the rows as     *)
(* above unless it is Claim.                                                *)
LEMMA StepMoves ==
    ASSUME IInv, [Next]_vars
    PROVE  JobsEvolve /\ (RowsMove \/ \E s \in Schedulers : Claim(s))
<1>0. ASSUME UNCHANGED rows PROVE RowsMove
  BY Zenon, <1>0 DEF RowsMove, PhaseMoves
<1>00. ASSUME UNCHANGED jobs PROVE JobsEvolve
  BY Zenon, <1>00 DEF JobsEvolve, Evolves
<1>1. CASE UNCHANGED vars
  BY <1>0, <1>00, <1>1 DEF vars
<1>2. CASE FaultsCease
  BY <1>0, <1>00, <1>2 DEF FaultsCease
<1>3. ASSUME Api, UNCHANGED faults
      PROVE  JobsEvolve /\ RowsMove
  <2>1. PICK j \in Jobs : StartJob(j) \/ StopJob(j) \/ DeleteJob(j)
    BY <1>3 DEF Api
  <2>2. CASE StartJob(j) \/ StopJob(j)
    BY <1>0, <1>3, <2>2, ApiSteps DEF StartJob, StopJob
  <2>3. CASE DeleteJob(j)
    <3>1. \A i \in Executions : rows'[i] = NoRow \/ rows'[i] = rows[i]
      BY <2>3 DEF DeleteJob, deleteRows
    <3>2. RowsMove
      BY <3>1 DEF RowsMove, PhaseMoves, NoRow
    <3> QED
      BY <1>3, <3>2, ApiSteps
  <2> QED
    BY <2>1, <2>2, <2>3
<1>4. ASSUME Failure
      PROVE  JobsEvolve /\ RowsMove
  BY Zenon, <1>0, <1>00, <1>4
     DEF Failure, SkipSweep, DispatchError, DispatchRejected, TransientError, Abort
<1>5. ASSUME NEW s \in Schedulers, Tick(s)
      PROVE  JobsEvolve /\ (RowsMove \/ \E p \in Schedulers : Claim(p))
  BY Zenon, <1>0, <1>00, <1>5 DEF Tick, Claim, List, SweepOrphans
<1>6. ASSUME NEW s \in Schedulers, NEW i \in Executions, Goroutine(s, i), UNCHANGED faults
      PROVE  JobsEvolve /\ RowsMove
  <2>1. CASE TransitionWrite(s, i)
    BY <1>6, <2>1, GoroutineRows, TransitionWrites
  <2>2. CASE ~TransitionWrite(s, i)
    <3>1. UNCHANGED jobs
      BY Zenon, <1>6, <2>2 DEF Goroutine, GetJob, KeepAlive, LeaseLost, ObserveEnded, ObserveLive,
           EnsureAuxiliary, CreateCoordinator, FenceHeartbeat, FenceRefused, TransitionRead,
           StopDeletes, StopChecks, Cleanup, Complete
    <3> QED
      BY <1>00, <1>6, <3>1, GoroutineRows
  <2> QED
    BY <2>1, <2>2
<1>7. ASSUME NEW i \in Executions,
             Cluster(i) \/ Execution(i) \/ HeartbeatExpires(i) \/ LeaseExpires(i)
      PROVE  JobsEvolve /\ RowsMove
  <2>1. UNCHANGED jobs
    BY Zenon, <1>7 DEF Cluster, WorkersReady, WorkersGone, CoordinatorPod, CoordinatorGone,
         Execution, CoordinatorRuns, Heartbeat, CoordinatorCompletes, CoordinatorFails,
         CoordinatorRetries, Group, HeartbeatExpires, LeaseExpires
  <2>2. CASE UNCHANGED rows
    BY <1>0, <1>00, <2>1, <2>2
  <2>3. CASE \E beat : rows' = [rows EXCEPT ![i].beat = beat]
    <3>1. PICK beat : rows' = [rows EXCEPT ![i].beat = beat]
      BY Zenon, <2>3
    <3> DEFINE r == [rows[i] EXCEPT !.beat = beat]
    <3>2. rows' = [rows EXCEPT ![i] = r] /\ r.phase = rows[i].phase
      BY <3>1 DEF IInv, TypeOK, RowSet
    <3>3. PhaseMoves(rows[i].phase, r.phase)
      BY <3>2 DEF PhaseMoves
    <3> HIDE DEF r
    <3> QED
      BY Zenon, <1>00, <2>1, <3>2, <3>3, OneRowMoves
  <2>4. CASE rows' = [rows EXCEPT ![i].lease = "expired"]
    <3> DEFINE r == [rows[i] EXCEPT !.lease = "expired"]
    <3>2. rows' = [rows EXCEPT ![i] = r] /\ r.phase = rows[i].phase
      BY <2>4 DEF IInv, TypeOK, RowSet
    <3>3. PhaseMoves(rows[i].phase, r.phase)
      BY <3>2 DEF PhaseMoves
    <3> HIDE DEF r
    <3> QED
      BY Zenon, <1>00, <2>1, <3>2, <3>3, OneRowMoves
  <2>5. CASE Cluster(i)
    BY <2>2, <2>5 DEF Cluster, WorkersReady, WorkersGone, CoordinatorPod, CoordinatorGone
  <2>6. CASE Execution(i)
    <3>1. UNCHANGED rows \/ \E beat : rows' = [rows EXCEPT ![i].beat = beat]
      BY Zenon, <2>6 DEF Execution, CoordinatorRuns, Heartbeat, CoordinatorCompletes,
           CoordinatorFails, CoordinatorRetries, recordHeartbeat
    <3> QED
      BY Zenon, <2>2, <2>3, <3>1
  <2>7. CASE HeartbeatExpires(i) \/ LeaseExpires(i)
    BY Zenon, <2>3, <2>4, <2>7 DEF HeartbeatExpires, LeaseExpires, heartbeatExpires, leaseExpires
  <2> QED
    BY <1>7, <2>5, <2>6, <2>7
<1> QED
  BY <1>1, <1>2, <1>3, <1>4, <1>5, <1>6, <1>7 DEF Next, Step

(* Claim keeps the phases of the rows there are.                            *)
LEMMA ClaimRows ==
    ASSUME IInv, NEW s \in Schedulers, Claim(s)
    PROVE  \E admitted \in Admissible(Pending) : \A i \in Executions :
               \/ rows'[i].phase = rows[i].phase
               \/ i \in admitted /\ rows[i].phase = "none"
<1>1. PICK admitted \in Admissible(Pending) : claim(s, admitted)
  BY DEF Claim
<1>2. ASSUME NEW i \in Executions
      PROVE  \/ rows'[i].phase = rows[i].phase
             \/ i \in admitted /\ rows[i].phase = "none"
  <2>1. rows[i] \in RowSet
    BY Zenon DEF IInv, TypeOK
  <2>2. CASE i \in admitted
    <3>1. rows[i] = NoRow
      BY Zenon, <2>2 DEF Admissible, Pending
    <3> QED
      BY <2>2, <3>1 DEF NoRow
  <2>3. CASE i \notin admitted
    <3>1. rows'[i] = rows[i] \/ rows'[i] = [rows[i] EXCEPT !.owner = {s}, !.lease = "live"]
      BY Zenon, <1>1, <2>3 DEF claim
    <3> QED
      BY Zenon, <2>1, <3>1 DEF RowSet
  <2> QED
    BY <2>2, <2>3
<1> QED
  BY <1>2

(* An ended Job stays as it ended until it is started again, and STOPPING   *)
(* only ends, whichever replicas act on old copies of the Job and the row.  *)
THEOREM EndsStayFinal == Spec => EndsAreFinal
<1> DEFINE Final ==
             /\ \A j \in Jobs :
                  JobTerminal(jobs[j].state) /\ jobs'[j] # NoJob =>
                      jobs'[j].state = jobs[j].state \/ jobs'[j].epoch > jobs[j].epoch
             /\ \A i \in Executions : rows[i].phase = "STOPPING" =>
                  rows'[i].phase \in {"STOPPING", "none"} \cup TerminalPhases
<1>1. ASSUME IInv, [Next]_vars PROVE Final
  <2>1. ASSUME NEW j \in Jobs, JobTerminal(jobs[j].state), jobs'[j] # NoJob
        PROVE  jobs'[j].state = jobs[j].state \/ jobs'[j].epoch > jobs[j].epoch
    <3>1. Evolves(jobs[j], jobs'[j])
      BY Zenon, <1>1, StepMoves DEF JobsEvolve
    <3>2. jobs[j].epoch \in Nat /\ jobs'[j].epoch \in Nat
      <4>1. jobs[j] \in JobSet /\ jobs'[j] \in JobSet
        BY Zenon, <1>1, StepKeeps DEF IInv, TypeOK
      <4> QED
        BY <4>1 DEF JobSet
    <3> QED
      BY <2>1, <3>1, <3>2 DEF Evolves
  <2>2. ASSUME NEW i \in Executions, rows[i].phase = "STOPPING"
        PROVE  rows'[i].phase \in {"STOPPING", "none"} \cup TerminalPhases
    <3>1. CASE RowsMove
      BY <2>2, <3>1 DEF RowsMove, PhaseMoves
    <3>2. ASSUME NEW s \in Schedulers, Claim(s)
          PROVE  rows'[i].phase = "STOPPING"
      BY <1>1, <2>2, <3>2, ClaimRows
    <3> QED
      BY <1>1, <3>1, <3>2, StepMoves
  <2> QED
    BY <2>1, <2>2
<1>2. IInv /\ [Next]_vars => [Final]_vars
  BY Zenon, <1>1
<1> HIDE DEF Final
<1>3. Spec => [][Final]_vars
  BY <1>2, SchedulingInvariant, PTL DEF Spec
<1> QED
  BY <1>3 DEF EndsAreFinal, Final

(* There are finitely many executions.                                      *)
LEMMA ExecutionsFinite == IsFiniteSet(Executions)
<1>1. IsFiniteSet(1..MaxEpoch)
  BY FS_Interval, SchedulingAssumption
<1> QED
  BY <1>1, FS_Product, SchedulingAssumption

(* The number of active rows does not grow, other than by Claim.            *)
LEMMA CapacityKept ==
    ASSUME IInv, CapacityRespected, [Next]_vars
    PROVE  CapacityRespected'
<1>1. /\ IsFiniteSet(ActiveRows) /\ IsFiniteSet(ActiveRows')
      /\ Cardinality(ActiveRows) \in Nat /\ Cardinality(ActiveRows') \in Nat
  <2>1. ActiveRows \subseteq Executions /\ ActiveRows' \subseteq Executions
    BY DEF ActiveRows
  <2> QED
    BY <2>1, ExecutionsFinite, FS_Subset, FS_CardinalityType
<1>2. CASE RowsMove
  <2>1. ActiveRows' \subseteq ActiveRows
    BY Zenon, <1>2 DEF RowsMove, PhaseMoves, ActiveRows, ActivePhases, BeatingPhases, TerminalPhases
  <2>2. Cardinality(ActiveRows') <= Cardinality(ActiveRows)
    BY <1>1, <2>1, FS_Subset
  <2> QED
    BY <1>1, <2>2, MaxActiveAssumption DEF CapacityRespected
<1>3. ASSUME NEW s \in Schedulers, Claim(s)
      PROVE  CapacityRespected'
  <2>1. PICK admitted \in Admissible(Pending) : \A i \in Executions :
               \/ rows'[i].phase = rows[i].phase
               \/ i \in admitted /\ rows[i].phase = "none"
    BY <1>3, ClaimRows
  <2>2. ActiveRows' \subseteq ActiveRows \cup admitted
    BY <2>1 DEF ActiveRows
  <2>3. /\ admitted \subseteq Executions /\ Pending \subseteq Executions
        /\ Cardinality(admitted) =
             IF Available < Cardinality(Pending) THEN Available ELSE Cardinality(Pending)
    BY Zenon DEF Admissible, Pending
  <2>4. IsFiniteSet(admitted) /\ Cardinality(admitted) \in Nat /\ Cardinality(Pending) \in Nat
    BY <2>3, ExecutionsFinite, FS_Subset, FS_CardinalityType
  <2>5. Cardinality(admitted) <= MaxActive - Cardinality(ActiveRows)
    BY <1>1, <2>3, <2>4, MaxActiveAssumption DEF Available
  <2>6. /\ IsFiniteSet(ActiveRows \cup admitted)
        /\ Cardinality(ActiveRows \cup admitted) <=
             Cardinality(ActiveRows) + Cardinality(admitted)
    <3>1. /\ IsFiniteSet(ActiveRows \cup admitted)
          /\ Cardinality(ActiveRows \cup admitted) =
               Cardinality(ActiveRows) + Cardinality(admitted)
                 - Cardinality(ActiveRows \cap admitted)
      BY <1>1, <2>4, FS_Union
    <3>2. Cardinality(ActiveRows \cap admitted) \in Nat
      BY <1>1, FS_Subset, FS_CardinalityType
    <3> QED
      BY <1>1, <2>4, <3>1, <3>2
  <2>7. /\ Cardinality(ActiveRows') <= Cardinality(ActiveRows \cup admitted)
        /\ Cardinality(ActiveRows \cup admitted) \in Nat
    BY <2>2, <2>6, FS_Subset, FS_CardinalityType
  <2> QED
    BY <1>1, <2>4, <2>5, <2>6, <2>7, MaxActiveAssumption DEF CapacityRespected
<1> QED
  BY <1>2, <1>3, StepMoves

(* The dispatches that hold a slot never exceed the maximum, whichever      *)
(* replicas claim, and however often rows are taken over (Claim).           *)
THEOREM CapacityIsRespected == Spec => []CapacityRespected
<1>1. Init => CapacityRespected
  <2> SUFFICES ASSUME Init PROVE CapacityRespected
    OBVIOUS
  <2>1. ActiveRows = {}
    BY Zenon DEF Init, RowsInit, ActiveRows, NoRow, ActivePhases, BeatingPhases
  <2> QED
    BY <2>1, FS_EmptySet, MaxActiveAssumption DEF CapacityRespected
<1>2. IInv /\ CapacityRespected /\ [Next]_vars => CapacityRespected'
  BY CapacityKept
<1> QED
  BY <1>1, <1>2, SchedulingInvariant, PTL DEF Spec

===============================================================================
