---------------------------- MODULE MCPtyStream ----------------------------
(* Instances of PtyStream for TLC.                                          *)
EXTENDS PtyStream

CONSTANTS c1, c2

TwoCmds == {c1, c2}
AnyCrash == {"process", "pod"}
NoCrash == {}

=============================================================================
