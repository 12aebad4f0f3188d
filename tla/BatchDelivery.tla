----------------------------- MODULE BatchDelivery -----------------------------
(***************************************************************************)
(* What a checkpointed batch job promises of its splits, without saying    *)
(* who runs it: rows are delivered in whole batches, the durable position  *)
(* of a split moves forward over delivered rows only, and a split is       *)
(* complete when that position is its last row.  An exactly-once job also  *)
(* never delivers a row again.                                             *)
(***************************************************************************)
EXTENDS Integers

CONSTANTS NumSplits, RowCount, ExactlyOnce

VARIABLES
    delivered,  \* by split: the rows the sink holds
    repeated,   \* by split: the rows delivered more than once
    durable,    \* by split: the durable source position
    complete    \* by split: whether it is durably complete

vars == <<delivered, repeated, durable, complete>>

Splits == 1..NumSplits

Init ==
    /\ delivered = [s \in Splits |-> {}]
    /\ repeated = [s \in Splits |-> {}]
    /\ durable = [s \in Splits |-> 0]
    /\ complete = [s \in Splits |-> FALSE]

Deliver(s, rows) ==
    /\ ExactlyOnce => rows \cap delivered[s] = {}
    /\ delivered' = [delivered EXCEPT ![s] = @ \cup rows]
    /\ repeated' = [repeated EXCEPT ![s] = @ \cup (rows \cap delivered[s])]
    /\ UNCHANGED <<durable, complete>>

Advance(s, position) ==
    /\ ~complete[s]
    /\ position > durable[s]
    /\ 1..position \subseteq delivered[s]
    /\ durable' = [durable EXCEPT ![s] = position]
    /\ UNCHANGED <<delivered, repeated, complete>>

Complete(s) ==
    /\ durable[s] = RowCount[s]
    /\ complete' = [complete EXCEPT ![s] = TRUE]
    /\ UNCHANGED <<delivered, repeated, durable>>

Next ==
    \E s \in Splits :
        \/ \E first, last \in 1..RowCount[s] : Deliver(s, first..last)
        \/ \E position \in 1..RowCount[s] : Advance(s, position)
        \/ Complete(s)

Spec == Init /\ [][Next]_vars
===============================================================================
