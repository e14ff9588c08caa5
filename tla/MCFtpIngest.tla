---------------------------- MODULE MCFtpIngest ----------------------------
(* Small instances of FtpIngest for TLC.                                   *)
EXTENDS FtpIngest

\* every name belongs to the one device
OneDevice == [p \in Paths |-> "cpe1"]
=============================================================================
