---------------------------- MODULE MCTmuxShell ----------------------------
(* Instances of TmuxShell for TLC.                                          *)
EXTENDS TmuxShell, TLC

CONSTANTS c1, c2, c3, h1, h2

Cmds1 == {c1}
Cmds2 == {c1, c2}
Cmds3 == {c1, c2, c3}
NoHandlers == {}
OneHandler == {h1}
TwoHandlers == {h1, h2}

\* A small chunk, one that does not fit behind it, and one that does again.
Sizes == [c \in Cmds |-> <<1, 2, 1>>]
ShortSizes == [c \in Cmds |-> <<2, 1>>]

NoFaults == {}
TextFaults == {"SendText"}
RespawnFaults == {"RespawnPane"}
EnterFaults == {"SendEnter"}
AllFaults == TmuxCalls

CmdSymmetry == Permutations(Cmds)

=============================================================================
