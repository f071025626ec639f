---------------------------- MODULE MCClaudeRuns ----------------------------
(* Instances of ClaudeRuns for TLC.                                         *)
EXTENDS ClaudeRuns

CONSTANTS t1, t2

AnyWord == STRING

OneTab == {t1}
TwoTabs == {t1, t2}
TwoRuns == 1..2

Stream(event) == [type |-> "stream_event", event |-> event]
Text(index, text) == Stream("content_block_delta") @@ [index |-> index, delta |-> "text_delta", text |-> text]
Thought(index, text) == Stream("content_block_delta") @@ [index |-> index, delta |-> "thinking_delta", text |-> text]
ToolStart(index, id) == Stream("content_block_start") @@ [block |-> "tool_use", index |-> index, id |-> id]
Result1(isError) == [type |-> "result", isError |-> isError, text |-> "result"]

\* Two messages, the second after a tool's result.
Talk == <<Stream("message_start"), Text(0, "a"), ToolStart(1, "tool"),
          [type |-> "assistant", tools |-> <<[id |-> "tool", input |-> "in"]>>],
          [type |-> "user", results |-> <<[id |-> "tool", content |-> "out", isError |-> TRUE]>>],
          Stream("message_start"), Text(0, "b"), Result1(FALSE)>>
Short == <<Stream("message_start"), Thought(0, "t"), Text(1, "c"), Result1(TRUE)>>

TwoShort == <<{Short}, {Short}>>
TalkThenShort == <<{Talk}, {Short}>>

-----------------------------------------------------------------------------
(* The reducers of tasks and subagents against what a reader of the counters *)
(* on the page expects, for every sequence of up to four events.             *)

LifeLines ==
  {[type |-> "system", subtype |-> "hook_started", hook |-> "SubagentStart", id |-> id] : id \in {"h1", "h2"}} \cup
  {[type |-> "system", subtype |-> "hook_response", hook |-> hook] : hook \in {"SubagentStop", "Stop"}} \cup
  {[type |-> "system", subtype |-> "task_started", task |-> "k", tool |-> "tool"],
   [type |-> "system", subtype |-> "task_notification", task |-> "k", status |-> "completed"],
   [type |-> "system", subtype |-> "task_updated", task |-> "k", status |-> "killed"]}

Replay(lines) == FoldLeft(Apply, EmptyState, FlattenSeq([i \in DOMAIN lines |-> ParseLine(lines[i])]))

\* Subagents end oldest first, at most one for each stop, and a task that was
\* started runs until the first word of its end.
ASSUME LifecycleAssumption ==
  \A n \in 0..4 : \A lines \in [1..n -> LifeLines] :
    LET s == Replay(lines)
        Is(i, subtype) == lines[i].subtype = subtype
        ended == {i \in DOMAIN s.subagents : s.subagents[i].finished}
        starts == {i \in 1..n : Is(i, "task_started")}
    IN /\ \A i, j \in DOMAIN s.subagents : i < j /\ j \in ended => i \in ended
       /\ Cardinality(ended) <= Cardinality({i \in 1..n : Is(i, "hook_response") /\ lines[i].hook = "SubagentStop"})
       /\ DOMAIN s.tasks = IF starts = {} THEN {} ELSE {"k"}
       /\ starts # {} =>
            LET last == CHOOSE i \in starts : \A j \in starts : j <= i
            IN s.tasks["k"].finished =
                 \E i \in last..n : Is(i, "task_notification") \/ Is(i, "task_updated")

=============================================================================
