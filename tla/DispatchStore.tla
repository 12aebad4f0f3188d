----------------------------- MODULE DispatchStore -----------------------------
(***************************************************************************)
(* The table of dispatches: one row per execution (a Job and an epoch),    *)
(* owned by one Scheduler replica under a lease.  A row is changed by      *)
(* single UPDATE statements, and by Claim, which runs under an advisory    *)
(* lock.  Lease expiry and heartbeat age are compared with the clock only, *)
(* so each is kept as the outcome of that comparison.                      *)
(***************************************************************************)
EXTENDS Naturals, FiniteSets

CONSTANTS
    Executions,   \* pairs of a Job and an execution epoch
    MaxActive     \* SCHEDULER_MAX_CONCURRENT_JOBS

ASSUME MaxActiveAssumption == MaxActive \in Nat \ {0}

VARIABLE rows     \* astrasync_scheduler_dispatches, by execution

BeatingPhases == {"CLAIMED", "STARTING", "RUNNING"}
ActivePhases == BeatingPhases \cup {"STOPPING"}
TerminalPhases == {"SUCCEEDED", "FAILED", "CANCELED"}

NoRow == [owner |-> {}, phase |-> "none", lease |-> "expired", beat |-> "stale"]

ActiveRows == {i \in Executions : rows[i].phase \in ActivePhases}
KnownRows == {i \in Executions : rows[i] # NoRow}

RowsInit == rows = [i \in Executions |-> NoRow]

(* The WHERE clause of Update and Complete.                                 *)
Owns(s, i) ==
    /\ rows[i].owner = {s}
    /\ rows[i].lease = "live"
    /\ rows[i].phase \in ActivePhases

(* Rows another owner may be relieved of: the lease ran out, or the         *)
(* execution stopped reporting and no one has started to stop it.           *)
TakenOver(s) ==
    {i \in ActiveRows :
        \/ rows[i].lease = "expired"
        \/ /\ rows[i].owner # {s}
           /\ rows[i].phase \in BeatingPhases
           /\ rows[i].beat = "stale"}

Owned(s) == {i \in ActiveRows : rows[i].owner = {s}}

(* A mistake the properties must notice: an expired row frees its slot.     *)
AvailableLive == MaxActive - Cardinality({i \in ActiveRows : rows[i].lease = "live"})

Available == MaxActive - Cardinality(ActiveRows)

(* The sets of pending executions Claim may insert.  Which of them comes    *)
(* first depends on times of update, which are not modelled.                *)
Admissible(pending) ==
    {admitted \in SUBSET pending :
        Cardinality(admitted) =
            IF Available < Cardinality(pending) THEN Available ELSE Cardinality(pending)}

(* Claim by s: renew what s owns, take over what it may, insert what fits.  *)
claim(s, admitted) ==
    rows' = [i \in Executions |->
        IF i \in admitted
          THEN [owner |-> {s}, phase |-> "CLAIMED", lease |-> "live", beat |-> "fresh"]
        ELSE IF i \in TakenOver(s) \cup Owned(s)
          THEN [rows[i] EXCEPT !.owner = {s}, !.lease = "live"]
        ELSE rows[i]]

(* A mistake the properties must notice: any replica may write the row.     *)
updateUnowned(s, i, phase) ==
    /\ rows[i].phase \in ActivePhases
    /\ rows' = [rows EXCEPT ![i].phase = phase, ![i].lease = "live"]

update(s, i, phase) ==
    /\ Owns(s, i)
    /\ rows' = [rows EXCEPT ![i].phase = phase, ![i].lease = "live"]

complete(s, i, phase) ==
    /\ Owns(s, i)
    /\ rows' = [rows EXCEPT ![i].phase = phase, ![i].lease = "expired"]

recordHeartbeat(i) ==
    /\ rows[i].phase \in BeatingPhases
    /\ rows' = [rows EXCEPT ![i].beat = "fresh"]

FenceAccepted(s, i) ==
    Owns(s, i) /\ rows[i].phase \in BeatingPhases /\ rows[i].beat = "stale"

fenceExpiredHeartbeat(s, i) ==
    /\ FenceAccepted(s, i)
    /\ rows' = [rows EXCEPT ![i].phase = "STOPPING", ![i].lease = "live"]

(* Deleting a Job deletes its rows (ON DELETE CASCADE).                     *)
deleteRows(gone) ==
    rows' = [i \in Executions |-> IF i \in gone THEN NoRow ELSE rows[i]]

-------------------------------------------------------------------------------
(* The clock, as far as the table can tell.                                 *)

leaseExpires(i) ==
    /\ rows[i].phase \in ActivePhases
    /\ rows[i].lease = "live"
    /\ rows' = [rows EXCEPT ![i].lease = "expired"]

heartbeatExpires(i) ==
    /\ rows[i].phase \in ActivePhases
    /\ rows[i].beat = "fresh"
    /\ rows' = [rows EXCEPT ![i].beat = "stale"]

===============================================================================
