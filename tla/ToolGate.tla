------------------------------ MODULE ToolGate ------------------------------
(***************************************************************************)
(* What the approval bridge promises about each tool call of a claude      *)
(* process (internal/claude/bridge.go, dispatcher.go): it ends at most     *)
(* once, and it is let through only because the user allowed it or because *)
(* a rule of the dispatcher exempts it from asking.                        *)
(***************************************************************************)
CONSTANT Requests

VARIABLES
  call,    \* each tool call: "new", "asked", "allow", "deny" or "none"
  consent  \* the tool calls the user, or an exemption, has allowed so far

vars == <<call, consent>>

Init == call = [r \in Requests |-> "new"] /\ consent = {}

Ask(r)     == call[r] = "new" /\ call' = [call EXCEPT ![r] = "asked"] /\ UNCHANGED consent
Consent(r) == call[r] # "new" /\ consent' = consent \cup {r} /\ UNCHANGED call
Allow(r)   == call[r] = "asked" /\ r \in consent /\ call' = [call EXCEPT ![r] = "allow"] /\ UNCHANGED consent

\* Denied by the user, by a limit or a timeout; "none": the hook got no answer.
Refuse(r) ==
  /\ call[r] = "asked" /\ UNCHANGED consent
  /\ \E v \in {"deny", "none"} : call' = [call EXCEPT ![r] = v]

Next == \E r \in Requests : Ask(r) \/ Consent(r) \/ Allow(r) \/ Refuse(r)

Spec == Init /\ [][Next]_vars

=============================================================================
