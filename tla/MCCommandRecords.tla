-------------------------- MODULE MCCommandRecords --------------------------
(* Instances of CommandRecords for TLC.                                     *)
EXTENDS CommandRecords, TLC

CONSTANTS c1, c2, h1

TwoCmds == {c1, c2}
OneHandler == {h1}
AnyFault == {"process", "pod", "disk", "text", "enter", "stop"}

=============================================================================
