---------------------------- MODULE MCTelemetry ----------------------------
(* An instance of the telemetry tier for TLC. *)
EXTENDS Telemetry

\* no alarm, one, two, and more than are read
FiveTables == { << >>, <<"a">>, <<"b">>, <<"b", "a">>, <<"c", "a", "b">> }
=============================================================================
