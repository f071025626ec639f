-------------------------- MODULE MCClaudeSnapshots --------------------------
(* Instances of ClaudeSnapshots for TLC, and the loader against reference   *)
(* definitions on small files.                                              *)
EXTENDS ClaudeSnapshots

CONSTANTS c1, c2, o1, o2

AnyWord == STRING

TwoCallers == {c1, c2}
OneCaller  == {c1}
TwoObjects == {o1, o2}

-----------------------------------------------------------------------------

PromptLine(id) == [type |-> "user", content |-> "prompt", uuid |-> id]
Ids == <<"1", "2", "3", "4">>

\* A page that scrolls back from the newest turns, asking each time for those before the
\* oldest it has, gets every turn of the transcript once.
ASSUME PagingAssumption ==
  \A n \in 0..4 : \A limit \in -1..3 :
    LET lines == [i \in 1..n |-> PromptLine(Ids[i])]
        page[k \in 0..4] ==
          IF k = 0 THEN ClaudeHistory("uuid", lines, limit, "")
          ELSE IF page[k - 1] = <<>> THEN <<>>
          ELSE ClaudeHistory("uuid", lines, limit, page[k - 1][1].id)
    IN FlattenSeq([k \in 1..5 |-> page[5 - k]]) = Parse(lines, 0, "")

SnapTool(outcome) == [ToolBlock("tool") EXCEPT !.outcome = outcome]
SnapTurns(id) ==
  {[NewTurn(id) EXCEPT !.outcome = outcome, !.blocks = blocks] :
     outcome \in {"open", "completed", "aborted"},
     blocks \in {<<>>, <<SnapTool("open")>>, <<SnapTool("completed")>>}}
SnapFiles == {NoFile, <<>>} \cup {<<x>> : x \in SnapTurns("1")}
             \cup {<<x, y>> : x \in SnapTurns("1"), y \in SnapTurns("2")}

LineKinds ==
  {PromptLine("1"), PromptLine("2"),
   [type |-> "assistant", items |-> <<[type |-> "tool_use", id |-> "tool", input |-> "in"]>>],
   [type |-> "user", content |-> "results", results |-> <<[id |-> "tool", content |-> "out"]>>],
   [type |-> "system", subtype |-> "task_started", task |-> "k", tool |-> "tool"],
   [type |-> "system", subtype |-> "task_updated", task |-> "k", status |-> "completed"]}
Transcripts == {NoFile} \cup UNION {[1..n -> LineKinds] : n \in 0..3}

\* The loaded turns are the transcript's if it has any, else the snapshot's; no turn
\* and no task is in progress; and a tool that both files have ended as the snapshot says.
ASSUME LoadAssumption ==
  \A snap0 \in SnapFiles, lines \in Transcripts :
    LET s == Load(snap0, lines)
        prompts == IF lines = NoFile THEN <<>>
                   ELSE SelectSeq(lines, LAMBDA l : l.type = "user" /\ l.content = "prompt")
        Ended(turn, snapped) ==
          \A b \in Range(turn.blocks), c \in Range(snapped.blocks) :
            b.kind = "tool" /\ c.kind = "tool" /\ c.outcome # "open" => b.outcome = c.outcome
    IN /\ [i \in DOMAIN s.turns |-> s.turns[i].id] =
            IF prompts # <<>> THEN [i \in DOMAIN prompts |-> prompts[i].uuid]
            ELSE IF snap0 = NoFile THEN <<>> ELSE [i \in DOMAIN snap0 |-> snap0[i].id]
       /\ ~s.inFlight /\ \A k \in DOMAIN s.tasks : s.tasks[k].finished
       /\ snap0 # NoFile =>
            \A turn \in Range(s.turns), snapped \in Range(snap0) : turn.id = snapped.id => Ended(turn, snapped)

=============================================================================
