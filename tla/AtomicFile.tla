----------------------------- MODULE AtomicFile -----------------------------
(***************************************************************************)
(* What "written atomically (tmp + rename)" promises the readers of a file *)
(* (store/sessions.go, Save): the file holds nothing yet or one whole list *)
(* that some writer asked to save, a save takes effect at one moment       *)
(* between its call and its return, and a crash loses no saved list.       *)
(***************************************************************************)
CONSTANTS Writers, Lists, None

VARIABLES
  value, \* the list a reader finds, or None before the first save
  job    \* each writer's list that is not in the file yet, or None

vars == <<value, job>>

Init == value = None /\ job = [w \in Writers |-> None]

Ask(w, l) == job[w] = None /\ job' = [job EXCEPT ![w] = l] /\ UNCHANGED value

\* The save takes effect.
Commit(w) == job[w] # None /\ value' = job[w] /\ job' = [job EXCEPT ![w] = None]

\* The save is reported as failed, and has no effect.
Fail(w) == job[w] # None /\ job' = [job EXCEPT ![w] = None] /\ UNCHANGED value

Crash == job' = [w \in Writers |-> None] /\ UNCHANGED value

Next == Crash \/ \E w \in Writers : Commit(w) \/ Fail(w) \/ \E l \in Lists : Ask(w, l)

Spec == Init /\ [][Next]_vars

=============================================================================
