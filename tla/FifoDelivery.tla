---------------------------- MODULE FifoDelivery ----------------------------
(***************************************************************************)
(* What the telemetry outbox promises its callers.  Bodies are admitted    *)
(* one by one and numbered in that order.  They leave strictly in order:   *)
(* the oldest body is either delivered, as often as it takes to learn that *)
(* it was, or given up to make room for a newer one.  A body that was      *)
(* neither delivered nor given up stays.                                   *)
(***************************************************************************)
EXTENDS Integers

VARIABLES
  admitted,   \* bodies ever admitted
  done,       \* bodies that left: these are 1..done
  delivered   \* bodies the receiver has seen at least once

vars == <<admitted, done, delivered>>

Init == admitted = 0 /\ done = 0 /\ delivered = {}

\* a new body may push out any number of the oldest ones
Admit ==
  /\ admitted' = admitted + 1
  /\ done' \in done..admitted
  /\ UNCHANGED delivered

\* only the oldest body may reach the receiver
Deliver ==
  /\ done < admitted
  /\ delivered' = delivered \cup {done + 1}
  /\ UNCHANGED <<admitted, done>>

\* apart from admission, a body leaves only when it was delivered
Settle ==
  /\ done < admitted /\ done + 1 \in delivered
  /\ done' = done + 1
  /\ UNCHANGED <<admitted, delivered>>

Next == Admit \/ Deliver \/ Settle

Spec == Init /\ [][Next]_vars
=============================================================================
