---------------------------- MODULE MCUpstream ----------------------------
(* A small instance of Upstream for TLC.                                   *)
EXTENDS Upstream

\* every name belongs to the one device
OneDevice == [p \in Paths |-> "cpe1"]
=============================================================================
