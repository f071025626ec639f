---------------------------- MODULE SerialShell ----------------------------
(***************************************************************************)
(* What a session's shell promises the clients that submit commands to it: *)
(* commands are served one at a time, a submission is refused only while   *)
(* another command is being served or the shell is closed, and a served    *)
(* command is reported as started and then as ended, once each.            *)
(***************************************************************************)
EXTENDS Naturals

CONSTANT Cmds

VARIABLES phase, \* each command's progress as its submitter can tell it
          open   \* is the session open?

vars == <<phase, open>>

Phases == {"new", "refused", "accepted", "started", "ended"}

Served(c) == phase[c] \in {"accepted", "started"}

Move(c, from, to) == phase[c] = from /\ phase' = [phase EXCEPT ![c] = to]

Init == phase = [c \in Cmds |-> "new"] /\ open = TRUE

Accept(c) ==
  /\ open /\ \A d \in Cmds : ~Served(d)
  /\ Move(c, "new", "accepted") /\ UNCHANGED open

Refuse(c) ==
  /\ ~open \/ \E d \in Cmds : Served(d)
  /\ Move(c, "new", "refused") /\ UNCHANGED open

\* An accepted command may still fail on its way to bash.
Fail(c)  == Move(c, "accepted", "refused") /\ UNCHANGED open
Start(c) == Move(c, "accepted", "started") /\ UNCHANGED open
End(c)   == Move(c, "started", "ended") /\ UNCHANGED open
Close    == open /\ open' = FALSE /\ UNCHANGED phase

Next == Close \/ \E c \in Cmds : Accept(c) \/ Refuse(c) \/ Fail(c) \/ Start(c) \/ End(c)

Spec == Init /\ [][Next]_vars

=============================================================================
