---------------------------- MODULE ClaudeLoader ----------------------------
(***************************************************************************)
(* What a session's claude state is after a restart: Load                  *)
(* (internal/claudestate/loader.go) merges the snapshot that the server    *)
(* wrote, claude.json, with the transcript that the claude CLI wrote, read *)
(* by internal/claudehistory/parse.go.                                     *)
(*                                                                         *)
(* A snapshot is a sequence of turns, a transcript one of lines; either    *)
(* may be NoFile, which also stands for a file that cannot be read.  Times *)
(* are left out, and with them EndedAt.  Snapshots from before outcomes    *)
(* existed are left out too.                                               *)
(***************************************************************************)
EXTENDS ClaudeState

CONSTANT NoFile

-----------------------------------------------------------------------------
(* The transcript *)

\* Every turn of a transcript is Done, and none has an outcome.
Sealed == "sealed"
HistoryTurn(id) == [NewTurn(id) EXCEPT !.outcome = Sealed]

\* No outcome, no time, and a decision: nobody asks about it any more.
HistoryTool(item) == [ToolBlock(item.id) EXCEPT !.decision = "allow", !.input = item.input]

\* The result of a tool goes to the first block with its id.
PatchResult(blocks, item) ==
  LET at == ToolsAt([blocks |-> blocks], item.id)
  IN IF at = {} THEN blocks ELSE [blocks EXCEPT ![FirstOf(at)].result = item.content]

\* A user line is a prompt, or the results of tools of the last turn.
HandleUser(turns, line) ==
  IF line.content = "prompt" THEN Append(turns, HistoryTurn(line.uuid))
  ELSE IF turns = <<>> THEN turns
  ELSE [turns EXCEPT ![Len(turns)].blocks = FoldLeft(PatchResult, @, line.results)]

AddItem(turn, item) ==
  CASE item.type = "text" /\ item.text # ""     -> [turn EXCEPT !.blocks = Append(@, TextBlock(<<item.text>>))]
    [] item.type = "thinking" /\ item.text # "" -> [turn EXCEPT !.thinking = Append(@, <<item.text>>)]
    [] item.type = "tool_use"                   -> [turn EXCEPT !.blocks = Append(@, HistoryTool(item))]
    [] OTHER                                    -> turn

HandleAssistant(turns, line) ==
  IF turns = <<>> THEN turns ELSE [turns EXCEPT ![Len(turns)] = FoldLeft(AddItem, @, line.items)]

ReadLine(turns, line) ==
  CASE line.type = "user"      -> HandleUser(turns, line)
    [] line.type = "assistant" -> HandleAssistant(turns, line)
    [] OTHER                   -> turns

\* The last `limit` turns (0: all) before the turn `before` ("": the end).
Paginate(turns, limit, before) ==
  LET at   == {i \in DOMAIN turns : turns[i].id = before}
      upto == IF before # "" /\ at # {} THEN SubSeq(turns, 1, FirstOf(at) - 1) ELSE turns
  IN IF limit > 0 /\ Len(upto) > limit THEN SubSeq(upto, Len(upto) - limit + 1, Len(upto)) ELSE upto

Parse(lines, limit, before) == Paginate(FoldLeft(ReadLine, <<>>, lines), limit, before)

\* GET claude-history; uuid is "" until the session first enters claude mode.
Clamp(limit) == IF limit < 1 THEN 1 ELSE IF limit > 500 THEN 500 ELSE limit
ClaudeHistory(uuid, lines, limit, before) ==
  IF uuid = "" \/ lines = NoFile THEN <<>> ELSE Parse(lines, Clamp(limit), before)

LoadJsonl(lines) ==
  IF lines = NoFile \/ Parse(lines, 0, "") = <<>> THEN NoFile ELSE Parse(lines, 0, "")

-----------------------------------------------------------------------------
(* The merge *)

\* The transcript says which blocks there are, the snapshot how their tools ended.
MergeBlocks(history, snap) ==
  [i \in DOMAIN history |->
    LET same == {j \in DOMAIN snap : snap[j].kind = "tool" /\ snap[j].id = history[i].id}
        last == CHOOSE j \in same : \A k \in same : k <= j
    IN IF history[i].kind = "text" \/ same = {} THEN history[i]
       ELSE [history[i] EXCEPT !.decision = snap[last].decision, !.task = snap[last].task,
                               !.outcome = snap[last].outcome]]

\* IsError comes along, the outcome and its reason do not.
MergeOneTurn(turn, snap) ==
  [turn EXCEPT !.outcome = IF snap.outcome \in {"errored", "aborted"} THEN "sealed_error" ELSE Sealed,
               !.usage   = IF snap.usage = "none" THEN @ ELSE snap.usage,
               !.blocks  = MergeBlocks(@, snap.blocks)]

\* Turns are matched by id; those that only the snapshot has are dropped.
MergeTurns(history, snap) ==
  [i \in DOMAIN history |->
    LET same == {j \in DOMAIN snap : snap[j].id = history[i].id}
    IN IF same = {} THEN history[i]
       ELSE MergeOneTurn(history[i], snap[CHOOSE j \in same : \A k \in same : k <= j])]

-----------------------------------------------------------------------------
(* The repairs *)

HasOutcome(turn) == turn.outcome \in {"completed", "errored", "aborted"}

\* The turn that was running when the snapshot was written: nothing will end it.
FinalizeStaleTrailingTurn(turns) ==
  LET turn == turns[Len(turns)]
      over == IF HasOutcome(turn) THEN turn ELSE [turn EXCEPT !.outcome = "aborted", !.reason = "server_restart"]
  IN IF turns = <<>> THEN turns
     ELSE [turns EXCEPT ![Len(turns)] = [over EXCEPT !.blocks = Append(over.blocks, TextBlock(<<"server_restart">>))]]

\* Any tool without an outcome, in any turn; one that waited for its approval is denied.
CloseTool(b) ==
  IF b.kind = "tool" /\ b.outcome = "open"
  THEN [SetToolOutcome(b, "aborted") EXCEPT
          !.decision = IF @ = "pending" THEN "deny" ELSE @,
          !.result   = IF @ = "none" THEN "interrupted" ELSE @]
  ELSE b

FinalizeHangingToolBlocks(turns) ==
  [i \in DOMAIN turns |-> [turns[i] EXCEPT !.blocks = [j \in DOMAIN @ |-> CloseTool(@[j])]]]

BackfillOutcome(turn) ==
  [turn EXCEPT !.outcome = CASE @ = Sealed         -> "completed"
                             [] @ = "sealed_error" -> "errored"
                             [] OTHER              -> @]

ComputeInFlight(turns) == turns # <<>> /\ turns[Len(turns)].outcome = "open"

\* Background tasks are not in the snapshot: the transcript is replayed for them, ...
ReplayLine(s, line) ==
  IF line.type = "system" /\ line.subtype \in {"task_started", "task_notification", "task_updated"}
  THEN Apply(s, ParseLine(line)[1]) ELSE s
ReplayBgTasksFromJsonl(s, lines) == FoldLeft(ReplayLine, s, lines)

\* ... and what ran then was killed with its claude.
ForceKillInProgressBgTasks(s) ==
  [s EXCEPT !.tasks = [k \in DOMAIN @ |->
     IF @[k].status = "in_progress" THEN [@[k] EXCEPT !.status = "killed", !.finished = TRUE] ELSE @[k]]]

Stale(snap) == snap # NoFile /\ ComputeInFlight(snap)

Merged(snap, history) ==
  CASE snap # NoFile /\ history # NoFile -> MergeTurns(history, snap)
    [] snap # NoFile /\ history = NoFile -> snap
    [] snap = NoFile /\ history # NoFile -> history
    [] OTHER                             -> <<>>

\* Deviation: the tools of a turn that is over are not looked at.
RepairsTrailing(snap, turns) ==
  LET stale == IF Stale(snap) THEN FinalizeHangingToolBlocks(FinalizeStaleTrailingTurn(turns)) ELSE turns
  IN [i \in DOMAIN stale |-> BackfillOutcome(stale[i])]

Repaired(snap, turns) ==
  LET stale  == IF Stale(snap) THEN FinalizeStaleTrailingTurn(turns) ELSE turns
      closed == FinalizeHangingToolBlocks(stale)
  IN [i \in DOMAIN closed |-> BackfillOutcome(closed[i])]

Load(snap, lines) ==
  LET history == LoadJsonl(lines)
      turns   == Repaired(snap, Merged(snap, history))
      s       == [EmptyState EXCEPT !.turns = turns, !.inFlight = ComputeInFlight(turns)]
  IN IF history = NoFile THEN s ELSE ForceKillInProgressBgTasks(ReplayBgTasksFromJsonl(s, lines))

=============================================================================
