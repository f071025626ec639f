----------------------------- MODULE ClaudeRuns -----------------------------
(***************************************************************************)
(* Prompts of one session: a tab's claude_prompt forks `claude -p`         *)
(* (internal/claude/runner.go), its lines are parsed, forwarded to the     *)
(* tab's main loop (internal/api/claude_handlers.go) and applied to the    *)
(* session's claude state (ws.go); a slot for each tab keeps a second      *)
(* prompt out until the first has its result, and whoever takes the slot   *)
(* of a run that gave none closes its turn.                                *)
(*                                                                         *)
(* Each run has a process, a forwarder and a reaper goroutine; each tab a  *)
(* main loop.  The turn of run r has the id r.                             *)
(***************************************************************************)
EXTENDS ClaudeState, FiniteSets

CONSTANTS
  Runs,     \* bound: 1..N, the prompts in their order
  Tabs,     \* WebSocket connections
  Scripts,  \* bound: the lines each run's process may print, if it does not end before
  PipeCap,  \* parsed events a process is ahead of its forwarder (the channel has 64)
  QueueCap, \* claudeEvents (64)
  None

ASSUME RunsAssumption ==
  /\ Runs \subseteq Nat \ {0} /\ None \notin Runs /\ None \notin Tabs
  /\ PipeCap \in Nat \ {0} /\ QueueCap \in Nat \ {0}
  /\ \A r \in Runs : Scripts[r] \subseteq Seq(Line)

VARIABLES
  mode,   \* the session: "ui" (claude mode, renderer ui), "shell" or "closed"
  state,  \* its claude state
  conn,   \* each connection: "off", "on" or "gone"
  loop,   \* what its main loop is in the middle of, see Idle
  slot,   \* its claudeRunStateMap entry for the session: a run or None
  queue,  \* its claudeEvents: events with the run they come from
  told,   \* the tabs with the session's id in closedCh
  tab,    \* the tab that started a run
  proc,   \* its process: "new", "live" or "dead"
  left,   \* lines it has still to print
  pipe,   \* events parsed from them and not forwarded
  fwd,    \* its forwarder: "off", "read", "free" (has sent the result) or "closed"
  reap,   \* its reaper: "off", "wait", "report" (owned the slot) or "done"
  cancelled, \* runs whose context is cancelled
  script, \* history: what the process would print
  mixed,  \* history: a turn began while another run's was not over
  stolen, \* history: a run's goroutine took the slot of another run
  dropped, \* history: a tab left with a result in its queue
  gave,   \* history: runs whose result was forwarded
  heard   \* history: what main loops applied since the last turn began, unless mixed

tabVars  == <<conn, loop, slot, queue, told>>
runVars  == <<tab, proc, left, pipe, fwd, reap, cancelled, script>>
histVars == <<mixed, stolen, dropped, gave, heard>>
vars == <<mode, state, tabVars, runVars, histVars>>

Idle == [do |-> "select", run |-> None]
Serves(t) == conn[t] = "on" /\ loop[t] = Idle

Unused == {r \in Runs : tab[r] = None}
NextRun == FirstOf(Unused)

\* Nothing of run r can reach the claude state any more.
Over(r) == reap[r] = "done" /\ \A t \in Tabs : \A i \in DOMAIN queue[t] : queue[t][i].run # r

-----------------------------------------------------------------------------
(* claude_prompt *)

\* handleClaudePrompt refuses unless the mode fits and the tab's slot is free, ...
Admits(t) == Serves(t) /\ mode = "ui" /\ slot[t] = None /\ Unused # {}

\* ... announces the turn (dispatchClaudePromptBegin), ...
Prompt(t) ==
  /\ Admits(t)
  /\ state' = BeginTurn(state, NextRun)
  /\ loop' = [loop EXCEPT ![t] = [do |-> "spawn", run |-> NextRun]]
  /\ tab' = [tab EXCEPT ![NextRun] = t]
  /\ mixed' = (mixed \/ \E r \in Runs \ Unused : ~Over(r)) /\ heard' = <<>>
  /\ UNCHANGED <<mode, conn, slot, queue, told, proc, left, pipe, fwd, reap, cancelled, script,
                 stolen, dropped, gave>>

\* Runner.Prompt forks the process.
Fork(r) ==
  /\ proc' = [proc EXCEPT ![r] = "live"]
  /\ \E s \in Scripts[r] : left' = [left EXCEPT ![r] = s] /\ script' = [script EXCEPT ![r] = s]

\* ... then sets the slot and starts the forwarder and the reaper, ...
Spawn(t) ==
  LET r == loop[t].run IN
  /\ loop[t].do = "spawn" /\ loop' = [loop EXCEPT ![t] = Idle]
  /\ Fork(r) /\ slot' = [slot EXCEPT ![t] = r]
  /\ fwd' = [fwd EXCEPT ![r] = "read"] /\ reap' = [reap EXCEPT ![r] = "wait"]
  /\ UNCHANGED <<mode, state, conn, queue, told, tab, pipe, cancelled, histVars>>

\* Deviation: the turn is left as it is.
SpawnFailsQuietly(t) ==
  /\ loop[t].do = "spawn" /\ loop' = [loop EXCEPT ![t] = Idle]
  /\ reap' = [reap EXCEPT ![loop[t].run] = "done"]
  /\ UNCHANGED <<mode, state, conn, slot, queue, told, tab, proc, left, pipe, fwd, cancelled, script, histVars>>

\* ... or closes the turn when there is no process: dispatchClaudeError.
SpawnFails(t) ==
  /\ loop[t].do = "spawn" /\ loop' = [loop EXCEPT ![t] = Idle]
  /\ reap' = [reap EXCEPT ![loop[t].run] = "done"]
  /\ state' = Apply(state, [kind |-> "claude_error", code |-> "claude_spawn_failed"])
  /\ UNCHANGED <<mode, conn, slot, queue, told, tab, proc, left, pipe, fwd, cancelled, script, histVars>>

-----------------------------------------------------------------------------
(* The process, its parser, the forwarder and the reaper *)

\* The process prints a line, ParseStream sends its events.  (What it prints between
\* its cancellation and its death might as well be in the pipe already.)
Emit(r) ==
  /\ proc[r] = "live" /\ r \notin cancelled /\ left[r] # <<>> /\ Len(pipe[r]) < PipeCap
  /\ left' = [left EXCEPT ![r] = Tail(@)]
  /\ pipe' = [pipe EXCEPT ![r] = @ \o ParseLine(Head(left[r]))]
  /\ UNCHANGED <<mode, state, tabVars, tab, proc, fwd, reap, cancelled, script, histVars>>

\* It ends, at the end of its work or before: a crash, an interrupt, the kill
\* that a cancelled context means.  Wait, called at once, closes the pipe: what
\* the parser has not read of it is lost.
Exit(r) ==
  /\ proc[r] = "live" /\ proc' = [proc EXCEPT ![r] = "dead"]
  /\ left' = [left EXCEPT ![r] = <<>>]
  /\ \E n \in 0..Len(pipe[r]) : pipe' = [pipe EXCEPT ![r] = SubSeq(@, 1, n)]
  /\ UNCHANGED <<mode, state, tabVars, tab, fwd, reap, cancelled, script, histVars>>

\* claudeEventPayload: an event on its way to the main loop.
Envelope(r, ev) == [run |-> r, ev |-> ev]

\* The forwarder's select: send to the main loop ...
Forward(r) ==
  /\ fwd[r] = "read" /\ pipe[r] # <<>> /\ Len(queue[tab[r]]) < QueueCap
  /\ queue' = [queue EXCEPT ![tab[r]] = Append(@, Envelope(r, Head(pipe[r])))]
  /\ pipe' = [pipe EXCEPT ![r] = Tail(@)]
  /\ LET result == Head(pipe[r]).kind = "result" IN
     /\ fwd' = [fwd EXCEPT ![r] = IF result THEN "free" ELSE "read"]
     /\ gave' = IF result THEN gave \cup {r} ELSE gave
  /\ UNCHANGED <<mode, state, conn, loop, slot, told, tab, proc, left, reap, cancelled, script,
                 mixed, stolen, dropped, heard>>

\* ... or notice the cancelled context; ...
Quit(r) ==
  /\ fwd[r] = "read" /\ pipe[r] # <<>> /\ r \in cancelled
  /\ fwd' = [fwd EXCEPT ![r] = "closed"] /\ pipe' = [pipe EXCEPT ![r] = <<>>]
  /\ UNCHANGED <<mode, state, tabVars, tab, proc, left, reap, cancelled, script, histVars>>

EndOfEvents(r) ==
  /\ fwd[r] = "read" /\ pipe[r] = <<>> /\ proc[r] = "dead"
  /\ fwd' = [fwd EXCEPT ![r] = "closed"]
  /\ UNCHANGED <<mode, state, tabVars, tab, proc, left, pipe, reap, cancelled, script, histVars>>

\* A goroutine of run r takes the entry of the session, whosever it is.
Take(r) ==
  /\ slot' = [slot EXCEPT ![tab[r]] = None]
  /\ stolen' = (stolen \/ slot[tab[r]] \notin {r, None})

\* ... after a result the composer may prompt again.
FreeSlot(r) ==
  /\ fwd[r] = "free" /\ fwd' = [fwd EXCEPT ![r] = "read"] /\ Take(r)
  /\ UNCHANGED <<mode, state, conn, loop, queue, told, tab, proc, left, pipe, reap, cancelled, script,
                 mixed, dropped, gave, heard>>

\* Deviation: the reaper does not wait for the forwarder.
ReapEarly(r) ==
  /\ reap[r] = "wait" /\ proc[r] = "dead"
  /\ reap' = [reap EXCEPT ![r] = IF slot[tab[r]] = None THEN "done" ELSE "report"]
  /\ Take(r) /\ cancelled' = cancelled \cup {r}
  /\ UNCHANGED <<mode, state, conn, loop, queue, told, tab, proc, left, pipe, fwd, script,
                 mixed, dropped, gave, heard>>

\* Deviation: the reaper looks the slot up and leaves it.
ReapKeeps(r) ==
  /\ reap[r] = "wait" /\ fwd[r] = "closed" /\ proc[r] = "dead"
  /\ reap' = [reap EXCEPT ![r] = IF slot[tab[r]] = None THEN "done" ELSE "report"]
  /\ cancelled' = cancelled \cup {r}
  /\ UNCHANGED <<mode, state, conn, loop, slot, queue, told, tab, proc, left, pipe, fwd, script, histVars>>

\* The reaper: after the forwarder and the process, take what is in the slot.
Reap(r) ==
  /\ reap[r] = "wait" /\ fwd[r] = "closed" /\ proc[r] = "dead"
  /\ reap' = [reap EXCEPT ![r] = IF slot[tab[r]] = None THEN "done" ELSE "report"]
  /\ Take(r) /\ cancelled' = cancelled \cup {r}
  /\ UNCHANGED <<mode, state, conn, loop, queue, told, tab, proc, left, pipe, fwd, script,
                 mixed, dropped, gave, heard>>

ApplyRunEnded(text) == state' = Apply(state, [kind |-> "claude_run_ended", text |-> text])

\* dispatchClaudeRunEnded, with the exit error if there is one.
Report(r) ==
  /\ reap[r] = "report" /\ reap' = [reap EXCEPT ![r] = "done"]
  /\ \E text \in {"", "exit status"} : ApplyRunEnded(text)
  /\ UNCHANGED <<mode, tabVars, tab, proc, left, pipe, fwd, cancelled, script, histVars>>

-----------------------------------------------------------------------------
(* The main loop of a tab *)

\* dispatchClaudeStreamEvent.
Deliver(t) ==
  /\ Serves(t) /\ queue[t] # <<>>
  /\ state' = Apply(state, Decode(Head(queue[t]).ev))
  /\ queue' = [queue EXCEPT ![t] = Tail(@)]
  /\ heard' = IF mixed THEN heard ELSE Append(heard, Head(queue[t]))
  /\ UNCHANGED <<mode, conn, loop, slot, told, runVars, mixed, stolen, dropped, gave>>

\* take and stopRun: SIGINT, and the context is cancelled; the turn is closed next.
StopTaken(t) ==
  IF slot[t] = None THEN UNCHANGED <<loop, slot, cancelled>>
  ELSE /\ loop' = [loop EXCEPT ![t] = [do |-> "ended", run |-> slot[t]]]
       /\ slot' = [slot EXCEPT ![t] = None]
       /\ cancelled' = cancelled \cup {slot[t]}

\* exit_claude stops the tab's run, also when the mode was left already.
ExitClaude(t) ==
  /\ Serves(t) /\ StopTaken(t)
  /\ mode' = IF mode = "ui" THEN "shell" ELSE mode
  /\ UNCHANGED <<state, conn, queue, told, tab, proc, left, pipe, fwd, reap, script, histVars>>

EnterClaude(t) ==
  /\ Serves(t) /\ mode = "shell" /\ mode' = "ui"
  /\ UNCHANGED <<state, tabVars, runVars, histVars>>

\* Manager.Close tells every connection.
CloseSession ==
  /\ mode # "closed" /\ mode' = "closed" /\ told' = {t \in Tabs : conn[t] = "on"}
  /\ UNCHANGED <<state, conn, loop, slot, queue, runVars, histVars>>

Closed(t) ==
  /\ Serves(t) /\ t \in told /\ told' = told \ {t} /\ StopTaken(t)
  /\ UNCHANGED <<mode, state, conn, queue, tab, proc, left, pipe, fwd, reap, script, histVars>>

Connect(t) ==
  /\ conn[t] = "off" /\ conn' = [conn EXCEPT ![t] = "on"]
  /\ UNCHANGED <<mode, state, loop, slot, queue, told, runVars, histVars>>

\* The loop returns: takeAll, and for what it finds stopRun and applyClaudeRunEnded.
Disconnect(t) ==
  /\ Serves(t) /\ conn' = [conn EXCEPT ![t] = "gone"] /\ StopTaken(t)
  /\ queue' = [queue EXCEPT ![t] = <<>>]
  /\ dropped' = (dropped \/ \E i \in DOMAIN queue[t] : queue[t][i].ev.kind = "result")
  /\ UNCHANGED <<mode, state, told, tab, proc, left, pipe, fwd, reap, script, mixed, stolen, gave,
                 heard>>

\* applyClaudeRunEnded, after exit_claude, the session's end or the tab's.
EndTaken(t) ==
  /\ loop[t].do = "ended" /\ loop' = [loop EXCEPT ![t] = Idle]
  /\ ApplyRunEnded("stopped")
  /\ UNCHANGED <<mode, conn, slot, queue, told, runVars, histVars>>

-----------------------------------------------------------------------------

Init ==
  /\ mode = "ui" /\ state = EmptyState
  /\ conn = [t \in Tabs |-> "off"] /\ loop = [t \in Tabs |-> Idle]
  /\ slot = [t \in Tabs |-> None] /\ queue = [t \in Tabs |-> <<>>] /\ told = {}
  /\ tab = [r \in Runs |-> None] /\ proc = [r \in Runs |-> "new"]
  /\ left = [r \in Runs |-> <<>>] /\ pipe = [r \in Runs |-> <<>>] /\ script = [r \in Runs |-> <<>>]
  /\ fwd = [r \in Runs |-> "off"] /\ reap = [r \in Runs |-> "off"] /\ cancelled = {}
  /\ mixed = FALSE /\ stolen = FALSE /\ dropped = FALSE /\ gave = {} /\ heard = <<>>

RunStep(r) ==
  Emit(r) \/ Exit(r) \/ Forward(r) \/ Quit(r) \/ EndOfEvents(r) \/ FreeSlot(r) \/ Reap(r) \/ Report(r)

LoopStep(t) == Spawn(t) \/ SpawnFails(t) \/ Deliver(t) \/ Closed(t) \/ EndTaken(t)

Next ==
  \/ CloseSession
  \/ \E r \in Runs : RunStep(r)
  \/ \E t \in Tabs : Connect(t) \/ Prompt(t) \/ ExitClaude(t) \/ EnterClaude(t) \/ Disconnect(t) \/ LoopStep(t)

Spec == Init /\ [][Next]_vars

\* Goroutines are scheduled, and a claude process ends some day; people need not
\* do anything.
Progress == (\E r \in Runs : RunStep(r)) \/ (\E t \in Tabs : LoopStep(t))

FairSpec == Spec /\ WF_vars(Progress)

-----------------------------------------------------------------------------
(* Properties *)

\* Every variable keeps its type, and the index of the open turn fits it.
TypeOK ==
  /\ mode \in {"ui", "shell", "closed"} /\ IsState(state) /\ IndexFits(state)
  /\ conn \in [Tabs -> {"off", "on", "gone"}] /\ told \subseteq Tabs
  /\ loop \in [Tabs -> [do : {"select", "spawn", "ended"}, run : Runs \cup {None}]]
  /\ slot \in [Tabs -> Runs \cup {None}]
  /\ \A t \in Tabs : \A i \in DOMAIN queue[t] : queue[t][i].run \in Runs
  /\ tab \in [Runs -> Tabs \cup {None}] /\ proc \in [Runs -> {"new", "live", "dead"}]
  /\ fwd \in [Runs -> {"off", "read", "free", "closed"}]
  /\ reap \in [Runs -> {"off", "wait", "report", "done"}]
  /\ cancelled \subseteq Runs /\ gave \subseteq Runs /\ {mixed, stolen, dropped} \subseteq BOOLEAN

\* A slot is held by a run of that tab whose reaper will still come for it: a dead
\* run never keeps the next prompt out as busy.
SlotWillBeFreed ==
  \A t \in Tabs : slot[t] # None => tab[slot[t]] = t /\ reap[slot[t]] = "wait"

\* The composer is locked exactly while the last turn is open, whatever events of
\* whatever run arrive.
LockedIffOpen == state.inFlight = Open(state)

\* What the text blocks of a turn say.
Spoken(turn) == FlattenSeq([i \in DOMAIN turn.blocks |->
                  IF turn.blocks[i].kind = "text" THEN turn.blocks[i].text ELSE <<>>])

\* A turn that has ended keeps its outcome, its reason and its text: a result that
\* comes after a synthetic end, or the other way round, changes nothing.
ClosedTurnStays ==
  [][\A i \in DOMAIN state.turns : state.turns[i].outcome # "open" =>
       /\ state'.turns[i].outcome = state.turns[i].outcome
       /\ state'.turns[i].reason = state.turns[i].reason
       /\ Spoken(state'.turns[i]) = Spoken(state.turns[i])]_vars

Events(lines) == FlattenSeq([i \in DOMAIN lines |-> ParseLine(lines[i])])
Texts(events) == LET deltas == SelectSeq(events, LAMBDA e : e.kind = "text_delta")
                 IN [i \in DOMAIN deltas |-> deltas[i].text]

\* The message of a script that contains a text.
MessageOf(events, text) ==
  LET at == CHOOSE i \in DOMAIN events : events[i].kind = "text_delta" /\ events[i].text = text
  IN Cardinality({i \in 1..at : events[i].kind = "message_start"})

\* The letters run r writes with these events.
Letters(r, events) == [i \in DOMAIN events |-> Envelope(r, events[i])]

\* As long as each prompt waited until the run before was over, what reaches a turn is
\* a beginning of what its own claude printed: nothing of another run, nothing twice,
\* nothing out of order and, whoever left, was cancelled or died, no gap in the middle.
\* A turn that ended without a reason was told the result, hence all that came before it.
SoloHearsOwn ==
  ~mixed /\ state.turns # <<>> =>
    LET turn == LastTurn(state) IN
    /\ IsPrefix(heard, Letters(turn.id, Events(script[turn.id])))
    /\ turn.outcome # "open" /\ turn.reason = "none" =>
         \E i \in DOMAIN heard : heard[i].ev.kind = "result"

Own(turn) == Texts(Events(script[turn.id]))
Said(turn, own) == SelectSeq(Spoken(turn), LAMBDA x : x \in Range(own))

\* The results of the script's tools arrived at their blocks.
ToolsAnswered(turn) ==
  LET events == Events(script[turn.id]) IN
  \A i \in DOMAIN events : events[i].kind = "tool_result" =>
    \E b \in DOMAIN turn.blocks : /\ turn.blocks[b].kind = "tool" /\ turn.blocks[b].id = events[i].id
                                  /\ turn.blocks[b].outcome = OutcomeForError(events[i].isError)

\* As long as each prompt waited until the run before was over, a turn shows a part
\* of what its own claude said, in that order and message by message, and all of it
\* once a result has closed it.
SoloTurnIsWhole ==
  ~mixed => \A i \in DOMAIN state.turns :
    LET turn == state.turns[i]
        own  == Own(turn)
        said == Said(turn, own)
    IN
    /\ IsPrefix(said, own)
    /\ turn.outcome # "open" /\ turn.reason = "none" => said = own /\ ToolsAnswered(turn)
    /\ \A b \in DOMAIN turn.blocks : turn.blocks[b].kind = "text" =>
         Cardinality({MessageOf(Events(script[turn.id]), x) :
                       x \in {y \in Range(turn.blocks[b].text) : y \in Range(own)}}) <= 1

\* A locked composer is unlocked, except by two races: a tab leaves with the result
\* in its queue and the slot already free, or a run's goroutine takes the slot of
\* the run that followed it.
ComposerUnlocks == state.inFlight ~> ~state.inFlight \/ dropped \/ stolen

\* "claude_run_ended only fires when the process died without ever emitting `result`".
RunEndedMeansCrash == \A r \in Runs : reap[r] = "report" => r \notin gave

=============================================================================
