---------------------------- MODULE ClaudeState ----------------------------
(***************************************************************************)
(* What a line of `claude -p --output-format stream-json` does to the      *)
(* claude state of a session: the parser (internal/claude/parser.go) turns *)
(* it into events, and Apply (internal/claudestate/state.go) folds an      *)
(* event into the turns, the background tasks and the subagents.           *)
(*                                                                         *)
(* A line is a record of the fields the parser reads.  Texts, inputs and   *)
(* tool results are tokens; a block's text is the sequence of its tokens.  *)
(* Apply's reports of a payload of the wrong type are left out: an event   *)
(* decoded from the wire always carries the type of its kind.              *)
(***************************************************************************)
EXTENDS Naturals, Sequences, SequencesExt

CONSTANT Words  \* what a name or a payload may be

ASSUME WordsAssumption ==
  {"", "none", "stopped", "exit status", "in_progress", "completed", "runner_killed",
   "server_shutdown", "spawn_failed", "claude_spawn_failed"} \subseteq Words

\* A line of the stream, by the fields the parser reads of it.
Line ==
  [type : {"system"}, subtype : {"task_started"}, task : Words, tool : Words] \cup
  [type : {"system"}, subtype : {"task_notification", "task_updated"}, task : Words, status : Words] \cup
  [type : {"system"}, subtype : {"hook_started"}, hook : Words, id : Words] \cup
  [type : {"system"}, subtype : {"hook_response"}, hook : Words] \cup
  [type : {"system"}, subtype : {"init"}] \cup
  [type : {"rate_limit_event", "unknown"}] \cup
  [type : {"stream_event"}, event : {"message_start", "content_block_stop", "message_stop"}] \cup
  [type : {"stream_event"}, event : {"content_block_start"}, block : {"text", "thinking"}] \cup
  [type : {"stream_event"}, event : {"content_block_start"}, block : {"tool_use"},
   index : Nat, id : Words] \cup
  [type : {"stream_event"}, event : {"content_block_delta"}, delta : {"input_json_delta"}] \cup
  [type : {"stream_event"}, event : {"content_block_delta"}, delta : {"text_delta", "thinking_delta"},
   index : Nat, text : Words] \cup
  [type : {"stream_event"}, event : {"message_delta"}, usage : Words] \cup
  [type : {"assistant"}, tools : Seq([id : Words, input : Words])] \cup
  [type : {"user"}, results : Seq([id : Words, content : Words, isError : BOOLEAN])] \cup
  [type : {"result"}, isError : BOOLEAN, text : Words]

\* An event, and what it carries; the last two rows are the server's own.
AnEvent ==
  [kind : {"unknown", "system", "rate_limit", "message_start", "message_stop", "text_block_end"}] \cup
  [kind : {"task_started"}, task : Words, tool : Words] \cup
  [kind : {"task_notification", "task_updated"}, task : Words, status : Words] \cup
  [kind : {"hook_started"}, hook : Words, id : Words] \cup
  [kind : {"hook_response"}, hook : Words] \cup
  [kind : {"tool_use_start"}, index : Nat, id : Words] \cup
  [kind : {"text_delta", "thinking_delta"}, index : Nat, text : Words] \cup
  [kind : {"message_delta"}, usage : Words] \cup
  [kind : {"tool_use_end"}, id : Words, input : Words] \cup
  [kind : {"tool_result"}, id : Words, content : Words, isError : BOOLEAN] \cup
  [kind : {"result"}, isError : BOOLEAN, text : Words] \cup
  [kind : {"claude_run_ended"}, text : Words] \cup [kind : {"claude_error"}, code : Words] \cup
  [kind : {"tool_decision"}, id : Words, decision : {"allow", "deny"}]

-----------------------------------------------------------------------------
(* From a line to events *)

Event(kind) == [kind |-> kind]
Unknown == <<Event("unknown")>>

SystemLine(line) ==
  CASE line.subtype = "task_started" ->
         <<[kind |-> "task_started", task |-> line.task, tool |-> line.tool]>>
    [] line.subtype \in {"task_notification", "task_updated"} ->
         <<[kind |-> line.subtype, task |-> line.task, status |-> line.status]>>
    [] line.subtype = "hook_started"  -> <<[kind |-> "hook_started", hook |-> line.hook, id |-> line.id]>>
    [] line.subtype = "hook_response" -> <<[kind |-> "hook_response", hook |-> line.hook]>>
    [] OTHER                          -> <<Event("system")>>

\* The nested API event; a tool's input comes later, in one piece, and the end
\* of a block does not say what block it was.
StreamEvent(line) ==
  CASE line.event = "message_start" -> <<Event("message_start")>>
    [] line.event = "content_block_start" ->
         IF line.block = "tool_use"
         THEN <<[kind |-> "tool_use_start", index |-> line.index, id |-> line.id]>> ELSE <<>>
    [] line.event = "content_block_delta" ->
         IF line.delta = "input_json_delta" THEN <<>>
         ELSE <<[kind |-> line.delta, index |-> line.index, text |-> line.text]>>
    [] line.event = "content_block_stop" -> <<Event("text_block_end")>>
    [] line.event = "message_delta" -> <<[kind |-> "message_delta", usage |-> line.usage]>>
    [] line.event = "message_stop" -> <<Event("message_stop")>>
    [] OTHER -> Unknown

\* An assistant line repeats the message: only its tool inputs are new.
AssistantToolInputs(line) ==
  [i \in DOMAIN line.tools |->
     [kind |-> "tool_use_end", id |-> line.tools[i].id, input |-> line.tools[i].input]]

\* One event for each tool result of a user line.
UserToolResult(line) ==
  [i \in DOMAIN line.results |->
     [kind |-> "tool_result", id |-> line.results[i].id,
      content |-> line.results[i].content, isError |-> line.results[i].isError]]

ParseLine(line) ==
  CASE line.type = "system"           -> SystemLine(line)
    [] line.type = "rate_limit_event" -> <<Event("rate_limit")>>
    [] line.type = "stream_event"     -> StreamEvent(line)
    [] line.type = "assistant"        -> AssistantToolInputs(line)
    [] line.type = "user"             -> UserToolResult(line)
    [] line.type = "result"           ->
         <<[kind |-> "result", isError |-> line.isError, text |-> line.text]>>
    [] OTHER                          -> Unknown

\* What is left of an event after the way through JSON: kinds the reducers ignore
\* lose their payload.
Decode(ev) ==
  IF ev.kind \in {"message_start", "message_stop", "text_block_end", "unknown", "system", "rate_limit"}
  THEN Event(ev.kind) ELSE ev

-----------------------------------------------------------------------------
(* The state of a session *)

Block ==
  [kind : {"text"}, text : Seq(Words)] \cup
  [kind : {"tool"}, id : Words, decision : {"pending", "allow", "deny"},
   outcome : {"open", "completed", "errored", "aborted"}, input : Words, result : Words, task : Words]
Turn == [id : Nat, blocks : Seq(Block), thinking : Seq(Seq(Words)), usage : Words,
         outcome : {"open", "completed", "errored", "aborted"}, reason : Words]

\* A background task that is over has ended somehow, and only then.
Task == {k \in [status : Words, finished : BOOLEAN, notes : Nat] :
           k.finished = (k.status # "in_progress")}

\* Assignment to an entry of a map.
SetAt(f, i, v) == [j \in DOMAIN f \cup {i} |-> IF j = i THEN v ELSE f[j]]

\* SessionState.state and curIndex: the positions in the open turn of the content
\* blocks of the message being streamed.
NoIndex == [turn |-> 0, blocks |-> <<>>, thinking |-> <<>>]
EmptyState == [turns |-> <<>>, inFlight |-> FALSE, lastError |-> "none",
               tasks |-> <<>>, subagents |-> <<>>, index |-> NoIndex]

\* A turn is Done once it has an outcome.
NewTurn(id) == [id |-> id, blocks |-> <<>>, thinking |-> <<>>, usage |-> "none",
                outcome |-> "open", reason |-> "none"]
TextBlock(text) == [kind |-> "text", text |-> text]
ToolBlock(id)   == [kind |-> "tool", id |-> id, decision |-> "pending", outcome |-> "open",
                    input |-> "none", result |-> "none", task |-> "none"]

BeginTurn(s, id) == [s EXCEPT !.turns = Append(@, NewTurn(id)), !.inFlight = TRUE]

LastTurn(s) == s.turns[Len(s.turns)]
Open(s) == s.turns # <<>> /\ LastTurn(s).outcome = "open"
WithLast(s, turn) == [s EXCEPT !.turns[Len(s.turns)] = turn]

\* indexFor: a new turn starts with an empty index.
IndexFor(s) == IF s.index.turn = LastTurn(s).id THEN s.index
               ELSE [NoIndex EXCEPT !.turn = LastTurn(s).id]

\* A state that is what it should be, whatever it says.
IsState(s) ==
  /\ s = [turns |-> s.turns, inFlight |-> s.inFlight, lastError |-> s.lastError,
          tasks |-> s.tasks, subagents |-> s.subagents, index |-> s.index]
  /\ s.turns \in Seq(Turn) /\ s.inFlight \in BOOLEAN
  /\ s.tasks \in [DOMAIN s.tasks -> Task]
  /\ s.index = [turn |-> s.index.turn, blocks |-> s.index.blocks, thinking |-> s.index.thinking]
  /\ s.index.turn \in Nat
  /\ s.index.blocks \in [DOMAIN s.index.blocks -> Nat]
  /\ s.index.thinking \in [DOMAIN s.index.thinking -> Nat]

\* The index of the last turn points into its blocks: an event that arrives late,
\* in another turn, finds no position that is not there.
IndexFits(s) ==
  s.turns # <<>> /\ s.index.turn = LastTurn(s).id =>
    /\ \A i \in DOMAIN s.index.blocks : s.index.blocks[i] \in DOMAIN LastTurn(s).blocks
    /\ \A i \in DOMAIN s.index.thinking : s.index.thinking[i] \in DOMAIN LastTurn(s).thinking

-----------------------------------------------------------------------------
(* The stream of a message *)

\* Deviation: the index of the last message stays.
MessageStartKeeps(s) == IF Open(s) THEN [s EXCEPT !.index = IndexFor(s)] ELSE s

\* Content blocks are numbered from 0 again.
MessageStart(s) == IF Open(s) THEN [s EXCEPT !.index = [NoIndex EXCEPT !.turn = LastTurn(s).id]]
                   ELSE s

TextDelta(s, ev) ==
  LET turn == LastTurn(s)
      idx  == IndexFor(s)
      known  == ev.index \in DOMAIN idx.blocks /\ turn.blocks[idx.blocks[ev.index]].kind = "text"
      blocks == IF known THEN turn.blocks ELSE Append(turn.blocks, TextBlock(<<>>))
      pos    == IF known THEN idx.blocks[ev.index] ELSE Len(blocks)
  IN IF ~Open(s) THEN s
     ELSE [WithLast(s, [turn EXCEPT !.blocks = [blocks EXCEPT ![pos].text = Append(@, ev.text)]])
             EXCEPT !.index = [idx EXCEPT !.blocks = SetAt(@, ev.index, pos)]]

ThinkingDelta(s, ev) ==
  LET turn == LastTurn(s)
      idx  == IndexFor(s)
      known == ev.index \in DOMAIN idx.thinking
      thoughts == IF known THEN turn.thinking ELSE Append(turn.thinking, <<>>)
      pos   == IF known THEN idx.thinking[ev.index] ELSE Len(thoughts)
  IN IF ~Open(s) THEN s
     ELSE [WithLast(s, [turn EXCEPT !.thinking = [thoughts EXCEPT ![pos] = Append(@, ev.text)]])
             EXCEPT !.index = [idx EXCEPT !.thinking = SetAt(@, ev.index, pos)]]

\* Deviation: counts blocks from the wrong end of the new one.
ToolUseStartNext(s, ev) ==
  LET turn == LastTurn(s)
      idx  == IndexFor(s)
  IN IF ~Open(s) \/ ev.id = "" THEN s
     ELSE [WithLast(s, [turn EXCEPT !.blocks = Append(@, ToolBlock(ev.id))])
             EXCEPT !.index = [idx EXCEPT !.blocks = SetAt(@, ev.index, Len(turn.blocks) + 2)]]

ToolUseStart(s, ev) ==
  LET turn == LastTurn(s)
      idx  == IndexFor(s)
  IN IF ~Open(s) \/ ev.id = "" THEN s
     ELSE [WithLast(s, [turn EXCEPT !.blocks = Append(@, ToolBlock(ev.id))])
             EXCEPT !.index = [idx EXCEPT !.blocks = SetAt(@, ev.index, Len(turn.blocks) + 1)]]

\* The tool blocks of a turn with this id.
ToolsAt(turn, id) == {i \in DOMAIN turn.blocks : turn.blocks[i].kind = "tool" /\ turn.blocks[i].id = id}
FirstOf(S) == CHOOSE i \in S : \A j \in S : i <= j

\* Both look in the last turn only, and do not ask whether it is Done.
ToolUseEnd(s, ev) ==
  IF s.turns = <<>> \/ ev.id = "" \/ ToolsAt(LastTurn(s), ev.id) = {} THEN s
  ELSE [s EXCEPT !.turns[Len(s.turns)].blocks[FirstOf(ToolsAt(LastTurn(s), ev.id))].input = ev.input]

OutcomeForError(isError) == IF isError THEN "errored" ELSE "completed"

\* setToolOutcome: the first outcome stays.
SetToolOutcome(tool, outcome) == IF tool.outcome = "open" THEN [tool EXCEPT !.outcome = outcome] ELSE tool

ToolResult(s, ev) ==
  LET at == FirstOf(ToolsAt(LastTurn(s), ev.id))
  IN IF s.turns = <<>> \/ ev.id = "" THEN s
     ELSE IF ToolsAt(LastTurn(s), ev.id) = {} THEN [s EXCEPT !.lastError = "tool_result_unmatched"]
     ELSE [s EXCEPT !.turns[Len(s.turns)].blocks[at] =
             [SetToolOutcome(@, OutcomeForError(ev.isError)) EXCEPT !.result = ev.content]]

MessageDelta(s, ev) ==
  IF s.turns = <<>> THEN s ELSE [s EXCEPT !.turns[Len(s.turns)].usage = ev.usage]

-----------------------------------------------------------------------------
(* How a turn ends *)

\* setTurnOutcome, the only writer of a turn's terminal state: the first one stays.
SetTurnOutcome(turn, outcome, reason) ==
  IF turn.outcome = "open" THEN [turn EXCEPT !.outcome = outcome, !.reason = reason] ELSE turn

\* A turn without any block shows the text it ends with.
OrText(blocks, text) == IF blocks = <<>> /\ text # "" THEN <<TextBlock(<<text>>)>> ELSE blocks

\* Deviation: closes the last turn even if it is closed.
CloseLastAgain(s, outcome, reason, text) ==
  LET turn == LastTurn(s)
      free == [s EXCEPT !.inFlight = FALSE]
  IN IF s.turns = <<>> THEN free
     ELSE WithLast(free, [SetTurnOutcome(turn, outcome, reason) EXCEPT !.blocks = OrText(@, text)])

\* Closes the last turn, if it is still open, and frees the composer.
CloseLast(s, outcome, reason, text) ==
  LET turn == LastTurn(s)
      free == [s EXCEPT !.inFlight = FALSE]
  IN IF s.turns = <<>> \/ turn.outcome # "open" THEN free
     ELSE WithLast(free, [SetTurnOutcome(turn, outcome, reason) EXCEPT !.blocks = OrText(@, text)])

\* Deviation: the composer stays locked.
ResultKeepsLock(s, ev) ==
  [CloseLast(s, OutcomeForError(ev.isError), "none", ev.text) EXCEPT !.inFlight = s.inFlight]

Result(s, ev) == CloseLast(s, OutcomeForError(ev.isError), "none", ev.text)

\* finalizeInFlight; the approvals it also empties are never filled.
FinalizeInFlight(s, text, reason, outcome) == CloseLast(s, outcome, reason, text)

ClassifyClaudeError(code) ==
  CASE code = "server_shutdown"     -> [reason |-> "server_shutdown", outcome |-> "aborted"]
    [] code = "claude_spawn_failed" -> [reason |-> "spawn_failed", outcome |-> "errored"]
    [] OTHER                        -> [reason |-> code, outcome |-> "errored"]

ClaudeError(s, ev) ==
  LET class == ClassifyClaudeError(ev.code)
  IN FinalizeInFlight([s EXCEPT !.lastError = ev.code], ev.code, class.reason, class.outcome)

RunEnded(s, ev) == FinalizeInFlight(s, ev.text, "runner_killed", "aborted")

-----------------------------------------------------------------------------
(* Background tasks, subagents, decisions *)

\* Every tool block with this id, of whatever turn.
MarkTool(block, id, field, value) ==
  IF block.kind = "tool" /\ block.id = id THEN [block EXCEPT ![field] = value] ELSE block
MarkTurn(turn, id, field, value) ==
  [turn EXCEPT !.blocks = [i \in DOMAIN @ |-> MarkTool(@[i], id, field, value)]]
MarkTools(s, id, field, value) ==
  [s EXCEPT !.turns = [i \in DOMAIN @ |-> MarkTurn(@[i], id, field, value)]]

TaskStarted(s, ev) ==
  LET task == [status |-> "in_progress", finished |-> FALSE, notes |-> 0]
  IN IF ev.task = "" THEN s
     ELSE MarkTools([s EXCEPT !.tasks = SetAt(@, ev.task, task)], ev.tool, "task", ev.task)

TaskNotification(s, ev) ==
  LET noted == [s.tasks[ev.task] EXCEPT !.notes = @ + 1]
  IN IF ev.task \notin DOMAIN s.tasks THEN s
     ELSE [s EXCEPT !.tasks[ev.task] =
             IF ev.status = "completed" THEN [noted EXCEPT !.status = "completed", !.finished = TRUE]
             ELSE noted]

TaskUpdated(s, ev) ==
  IF ev.task \notin DOMAIN s.tasks \/ ev.status \notin {"completed", "failed", "killed", "stopped"} THEN s
  ELSE [s EXCEPT !.tasks[ev.task] = [@ EXCEPT !.status = ev.status, !.finished = TRUE]]

\* Subagents in the order they started.
HookStarted(s, ev) ==
  IF ev.hook # "SubagentStart" \/ ev.id = "" THEN s
  ELSE [s EXCEPT !.subagents = Append(SelectSeq(@, LAMBDA a : a.id # ev.id),
                                      [id |-> ev.id, finished |-> FALSE])]

\* A stop does not say whose it is: the oldest one running is taken.
HookResponse(s, ev) ==
  LET running == {i \in DOMAIN s.subagents : ~s.subagents[i].finished}
  IN IF ev.hook # "SubagentStop" \/ running = {} THEN s
     ELSE [s EXCEPT !.subagents[FirstOf(running)].finished = TRUE]

ToolDecision(s, ev) == MarkTools(s, ev.id, "decision", ev.decision)

-----------------------------------------------------------------------------

\* SessionState.Apply, under the write lock.
Apply(s, ev) ==
  CASE ev.kind = "message_start"     -> MessageStart(s)
    [] ev.kind = "text_delta"        -> TextDelta(s, ev)
    [] ev.kind = "thinking_delta"    -> ThinkingDelta(s, ev)
    [] ev.kind = "tool_use_start"    -> ToolUseStart(s, ev)
    [] ev.kind = "tool_use_end"      -> ToolUseEnd(s, ev)
    [] ev.kind = "tool_result"       -> ToolResult(s, ev)
    [] ev.kind = "message_delta"     -> MessageDelta(s, ev)
    [] ev.kind = "result"            -> Result(s, ev)
    [] ev.kind = "claude_run_ended"  -> RunEnded(s, ev)
    [] ev.kind = "claude_error"      -> ClaudeError(s, ev)
    [] ev.kind = "task_started"      -> TaskStarted(s, ev)
    [] ev.kind = "task_notification" -> TaskNotification(s, ev)
    [] ev.kind = "task_updated"      -> TaskUpdated(s, ev)
    [] ev.kind = "hook_started"      -> HookStarted(s, ev)
    [] ev.kind = "hook_response"     -> HookResponse(s, ev)
    [] ev.kind = "tool_decision"     -> ToolDecision(s, ev)
    [] OTHER                         -> s

=============================================================================
