----------------------------- MODULE MCCommands -----------------------------
(* Instances of the command loop for TLC. *)
EXTENDS Commands

TwoCommands == { <<"write", "write">>, <<"reboot", "write">>, <<"query", "other">> }
OneReboot == { <<"reboot">> }
=============================================================================
