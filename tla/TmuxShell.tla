----------------------------- MODULE TmuxShell -----------------------------
(***************************************************************************)
(* One session's shell: internal/shell/tmux_shell.go, with the sentinel    *)
(* parser (sentinel.go) and the tmux pane it drives.                       *)
(*                                                                         *)
(* Goroutines: one writer per submitted command (TmuxShell.Write called by *)
(* handleRun), the read loop, the dead-pane poller, any number of request  *)
(* handlers running Stop, ExitClaude or EnterClaude, and one closer        *)
(* (Manager.Close).  They share the fields guarded by ts.mu; every step    *)
(* below is one critical section or one tmux call.                         *)
(*                                                                         *)
(* The pane is the environment: bash runs what is typed into it, and       *)
(* pipe-pane appends what it prints to a stream the read loop consumes.    *)
(***************************************************************************)
EXTENDS Naturals, Sequences, FiniteSets

CONSTANTS
  Cmds,      \* command ids; handleRun mints a fresh one per run frame
  Handlers,  \* request handler goroutines that call Stop, ExitClaude, EnterClaude
  Faults,    \* the tmux calls that may fail
  MayExit,   \* may bash exit on its own (exit, Ctrl-D)?
  MaxChunks, \* bound: chunks a command prints
  Size,      \* the length of each chunk a command may print
  MaxBuf,    \* MaxBufferBytes
  MaxOps,    \* bound: handler operations started
  None, Claude

TmuxCalls == {"SendText", "SendEnter", "PanePID", "RespawnPane"}

ASSUME ShellAssumption ==
  /\ MaxChunks \in Nat /\ MaxBuf \in Nat /\ MaxOps \in Nat
  /\ Size \in [Cmds -> [1..MaxChunks -> Nat]]
  /\ Faults \subseteq TmuxCalls
  /\ MayExit \in BOOLEAN
  /\ None \notin Cmds /\ Claude \notin Cmds /\ None # Claude

VARIABLES
  wpc,       \* progress of each command's Write
  cur,       \* currentCmd: its id (or None), buffer and truncated flag
  stopping,  \* stoppingForRespawn
  closed,    \* closed, and with it the two stop channels
  inside,    \* the parser: the command whose body it is in, or None
  unsent,    \* the read loop's event that is built but not yet published
  rpc,       \* read loop: "run" or "exited"
  ppc,       \* poller: "tick", "sawDead", "onUserExit", "exited"
  fired,     \* the poller's fired flag
  hpc,       \* progress of each handler
  hpid,      \* the pane pid a handler has read
  hev,       \* a handler's event that is built but not yet published
  ops,       \* handler operations started so far
  mode,      \* the session's mode in the Manager: "shell" or "claude"
  closer,    \* who runs Manager.Close: None, "api" or "poller"
  cpc,       \* progress of Close: "open", "wait", "kill", "done"
  pane,      \* "alive", "dead" or "gone"
  pid,       \* pid of the pane's bash (a generation number)
  input,     \* what is typed into the pane and not yet read by bash
  fg,        \* what bash runs: None, a command, or Claude
  stream,    \* pty.stream past the reader's offset
  made,      \* history: how many chunks each command has printed
  death,     \* history: why the pane died last, since it was last respawned
  published  \* history: the events handed to the EventBroadcaster, in order

shellVars == <<cur, stopping, closed, unsent>>
loopVars  == <<inside, rpc>>
pollVars  == <<ppc, fired>>
handVars  == <<hpc, hpid, hev, ops>>
closeVars == <<closer, cpc>>
paneVars  == <<pane, pid, input, fg, death>>
vars == <<wpc, shellVars, loopVars, pollVars, handVars, mode, closeVars,
          paneVars, stream, made, published>>

\* A chunk that was kept: whose, which one, and where the buffer ends with it.
Piece == [cmd : Cmds, no : 1..MaxChunks, end : Nat]

Event == [kind : {"Started", "Chunk", "Ended"}, cmd : Cmds,
          out : Seq(Piece), trunc : BOOLEAN]
Item  == [kind : {"START", "END"}, cmd : Cmds, no : {0}] \cup
         [kind : {"CHUNK"}, cmd : Cmds, no : 1..MaxChunks]
Running == [id : Cmds \cup {None}, buf : Seq(Piece), trunc : BOOLEAN]

NoCmd    == [id |-> None, buf |-> <<>>, trunc |-> FALSE]
Fresh(c) == [id |-> c, buf |-> <<>>, trunc |-> FALSE]
Busy     == cur.id # None

\* How much of the buffer its first j pieces take, and all of them.
Upto(buf, j) == IF j = 0 THEN 0 ELSE buf[j].end
Used(buf)    == Upto(buf, Len(buf))

MayFail(call) == pane = "gone" \/ call \in Faults

\* send-keys -l: a live pane's bash will read the text; a dead pane drops it.
Type(x) ==
  /\ pane # "gone"
  /\ input' = IF pane = "alive" THEN Append(input, x) ELSE input

-----------------------------------------------------------------------------
(* Write(cmdID, userCmd) *)

\* Deviation: Write does not look at currentCmd.
AdmitsWhileBusy == ~closed

\* What Write requires under ts.mu before it reserves currentCmd.
Admits == ~closed /\ ~Busy

WriteAdmit(c) ==
  /\ wpc[c] = "new"
  /\ IF Admits THEN wpc' = [wpc EXCEPT ![c] = "admitted"] /\ cur' = Fresh(c)
               ELSE wpc' = [wpc EXCEPT ![c] = "failed"]   /\ UNCHANGED cur
  /\ UNCHANGED <<stopping, closed, unsent, loopVars, pollVars, handVars, mode,
                 closeVars, paneVars, stream, made, published>>

WriteSendText(c) ==
  /\ wpc[c] = "admitted"
  /\ \/ Type(c) /\ wpc' = [wpc EXCEPT ![c] = "typed"]
     \/ MayFail("SendText") /\ wpc' = [wpc EXCEPT ![c] = "errored"] /\ UNCHANGED input
  /\ UNCHANGED <<shellVars, loopVars, pollVars, handVars, mode, closeVars,
                 pane, pid, fg, death, stream, made, published>>

\* The wrapper ends in a newline, so bash does not wait for this Enter.
WriteSendEnter(c) ==
  /\ wpc[c] = "typed"
  /\ \/ pane # "gone" /\ wpc' = [wpc EXCEPT ![c] = "accepted"]
     \/ MayFail("SendEnter") /\ wpc' = [wpc EXCEPT ![c] = "errored"]
  /\ UNCHANGED <<shellVars, loopVars, pollVars, handVars, mode, closeVars,
                 paneVars, stream, made, published>>

\* The error branches clear currentCmd whatever it holds by then.
WriteRollback(c) ==
  /\ wpc[c] = "errored"
  /\ wpc' = [wpc EXCEPT ![c] = "failed"]
  /\ cur' = NoCmd
  /\ UNCHANGED <<stopping, closed, unsent, loopVars, pollVars, handVars, mode,
                 closeVars, paneVars, stream, made, published>>

-----------------------------------------------------------------------------
(* The pane: bash reading typed input, and pipe-pane *)

Emit(k, c, n) == stream' = Append(stream, [kind |-> k, cmd |-> c, no |-> n])

BashRead ==
  /\ pane = "alive" /\ fg = None /\ input # <<>>
  /\ fg' = Head(input) /\ input' = Tail(input)
  /\ IF Head(input) = Claude THEN UNCHANGED stream ELSE Emit("START", Head(input), 0)
  /\ UNCHANGED <<wpc, shellVars, loopVars, pollVars, handVars, mode, closeVars,
                 pane, pid, death, made, published>>

BashOutput ==
  /\ pane = "alive" /\ fg \in Cmds /\ made[fg] < MaxChunks
  /\ Emit("CHUNK", fg, made[fg] + 1)
  /\ made' = [made EXCEPT ![fg] = @ + 1]
  /\ UNCHANGED <<wpc, shellVars, loopVars, pollVars, handVars, mode, closeVars,
                 paneVars, published>>

BashEnd ==
  /\ pane = "alive" /\ fg \in Cmds
  /\ Emit("END", fg, 0) /\ fg' = None
  /\ UNCHANGED <<wpc, shellVars, loopVars, pollVars, handVars, mode, closeVars,
                 pane, pid, input, death, made, published>>

\* The Claude TUI reads what is typed, and quits on /exit.
ClaudeReads ==
  /\ pane = "alive" /\ fg = Claude
  /\ \/ input # <<>> /\ input' = Tail(input) /\ UNCHANGED fg
     \/ fg' = None /\ UNCHANGED input
  /\ UNCHANGED <<wpc, shellVars, loopVars, pollVars, handVars, mode, closeVars,
                 pane, pid, death, stream, made, published>>

PaneDies(why) ==
  /\ pane' = "dead" /\ fg' = None /\ input' = <<>> /\ death' = why

\* bash exits on its own: the command is exit, or raw stdin reaches the prompt.
BashExit ==
  /\ MayExit /\ pane = "alive"
  /\ fg \in Cmds \/ (fg = None /\ mode = "claude")
  /\ PaneDies("own")
  /\ UNCHANGED <<wpc, shellVars, loopVars, pollVars, handVars, mode, closeVars,
                 pid, stream, made, published>>

-----------------------------------------------------------------------------
(* readLoop: StreamReader.ReadOnce -> Parser.Feed -> onParserEvent *)

ToPublish(k, c, r) ==
  unsent' = <<[kind |-> k, cmd |-> c, out |-> r.buf, trunc |-> r.trunc]>>

\* START: keep the reservation Write made, or install an unknown command.
OnStart(c) ==
  /\ inside' = c
  /\ cur' = IF cur.id = c THEN cur ELSE Fresh(c)
  /\ ToPublish("Started", c, NoCmd)

Keep(c, n) ==
  [cur EXCEPT !.buf = Append(@, [cmd |-> c, no |-> n, end |-> Used(cur.buf) + Size[c][n]])]
Skip == [cur EXCEPT !.trunc = TRUE]

\* Deviation: the chunk that fills the buffer is let in whole.
BufferedPastCap(c, n) == IF Used(cur.buf) <= MaxBuf THEN Keep(c, n) ELSE Skip

\* Deviation: nothing is kept any more once a chunk was skipped.
BufferedUntilFull(c, n) ==
  IF ~cur.trunc /\ Used(cur.buf) + Size[c][n] <= MaxBuf THEN Keep(c, n) ELSE Skip

\* A chunk goes to the current command, whichever command printed it: as a
\* whole if it fits, else not at all, and a smaller one after it may fit again.
Buffered(c, n) == IF Used(cur.buf) + Size[c][n] <= MaxBuf THEN Keep(c, n) ELSE Skip

OnChunk(c, n) ==
  /\ UNCHANGED inside
  /\ IF inside = None \/ ~Busy
     THEN UNCHANGED <<cur, unsent>>
     ELSE cur' = Buffered(c, n) /\ ToPublish("Chunk", cur.id, NoCmd)

\* Deviation: a command without output is not reported.
OnEndSilent(c) ==
  /\ inside' = None /\ cur' = NoCmd
  /\ IF cur.buf = <<>> THEN UNCHANGED unsent ELSE ToPublish("Ended", c, cur)

\* END: the id on the sentinel names the event, the current command its output.
OnEnd(c) ==
  /\ inside' = None
  /\ IF ~Busy
     THEN UNCHANGED <<cur, unsent>>
     ELSE cur' = NoCmd /\ ToPublish("Ended", c, cur)

ReadItem ==
  /\ rpc = "run" /\ unsent = <<>> /\ stream # <<>>
  /\ stream' = Tail(stream)
  /\ \/ Head(stream).kind = "START" /\ OnStart(Head(stream).cmd)
     \/ Head(stream).kind = "CHUNK" /\ OnChunk(Head(stream).cmd, Head(stream).no)
     \/ Head(stream).kind = "END"   /\ OnEnd(Head(stream).cmd)
  /\ UNCHANGED <<wpc, stopping, closed, rpc, pollVars, handVars, mode, closeVars,
                 paneVars, made, published>>

\* evtBcast.Publish, after ts.mu is released.
ReadPublish ==
  /\ unsent # <<>>
  /\ published' = published \o unsent
  /\ unsent' = <<>>
  /\ UNCHANGED <<wpc, cur, stopping, closed, loopVars, pollVars, handVars, mode,
                 closeVars, paneVars, stream, made>>

ReadLoopExit ==
  /\ rpc = "run" /\ unsent = <<>> /\ closed
  /\ rpc' = "exited"
  /\ UNCHANGED <<wpc, shellVars, inside, pollVars, handVars, mode, closeVars,
                 paneVars, stream, made, published>>

-----------------------------------------------------------------------------
(* Stop, ExitClaude and EnterClaude, run by request handlers *)

Goto(h, pc) == hpc' = [hpc EXCEPT ![h] = pc]

Begin(h, pc) == hpc[h] = "idle" /\ ops < MaxOps /\ ops' = ops + 1 /\ Goto(h, pc)

\* StopCommandHandler: the command to stop must be the current one.
StopRequest(h) ==
  /\ Busy /\ Begin(h, "stopMark")
  /\ UNCHANGED <<wpc, shellVars, loopVars, pollVars, hpid, hev, mode, closeVars,
                 paneVars, stream, made, published>>

\* Stop: return if there is no current command, else raise the flag.
StopMark(h) ==
  /\ hpc[h] = "stopMark"
  /\ IF Busy THEN stopping' = TRUE /\ Goto(h, "stopPID")
             ELSE UNCHANGED stopping /\ Goto(h, "idle")
  /\ UNCHANGED <<wpc, cur, closed, unsent, loopVars, pollVars, hpid, hev, ops,
                 mode, closeVars, paneVars, stream, made, published>>

\* ExitClaude: only in claude mode, only while the shell is open.
ExitMark(h) ==
  /\ mode = "claude" /\ ~closed /\ Begin(h, "exitPID")
  /\ stopping' = TRUE
  /\ UNCHANGED <<wpc, cur, closed, unsent, loopVars, pollVars, hpid, hev, mode,
                 closeVars, paneVars, stream, made, published>>

\* Stop leaves the flag up on its error paths; ExitClaude always lowers it.
Stopping(h) == hpc[h] \in {"stopPID", "stopKill", "stopRespawn", "stopConfigure"}
Fails(h)    == Goto(h, IF Stopping(h) THEN "idle" ELSE "exitFail")
Then(h, stop, exit) == Goto(h, IF Stopping(h) THEN stop ELSE exit)

PanePID(h) ==
  /\ hpc[h] \in {"stopPID", "exitPID"}
  /\ \/ /\ pane # "gone"
        /\ hpid' = [hpid EXCEPT ![h] = pid]
        /\ Then(h, "stopKill", "exitKill")
     \/ MayFail("PanePID") /\ Fails(h) /\ UNCHANGED hpid
  /\ UNCHANGED <<wpc, shellVars, loopVars, pollVars, hev, ops, mode, closeVars,
                 paneVars, stream, made, published>>

\* killPID: SIGKILL fails on a process that is already gone; Stop then gives up.
KillPane(h) ==
  /\ hpc[h] \in {"stopKill", "exitKill"}
  /\ IF pane = "alive" /\ hpid[h] = pid
     THEN PaneDies("killed") /\ Then(h, "stopRespawn", "exitRespawn")
     ELSE /\ Then(h, "idle", "exitRespawn")
          /\ UNCHANGED <<pane, fg, input, death>>
  /\ UNCHANGED <<wpc, shellVars, loopVars, pollVars, hpid, hev, ops, mode,
                 closeVars, pid, stream, made, published>>

\* Deviation: Stop lowers the flag on its way out also when the respawn failed.
RespawnPaneUnflags(h) ==
  /\ hpc[h] \in {"stopRespawn", "exitRespawn"}
  /\ \/ /\ pane # "gone"
        /\ pane' = "alive" /\ pid' = pid + 1 /\ input' = <<>> /\ fg' = None /\ death' = "none"
        /\ Then(h, "stopConfigure", "exitConfigure") /\ UNCHANGED stopping
     \/ /\ MayFail("RespawnPane") /\ Fails(h) /\ stopping' = FALSE
        /\ death' = IF Stopping(h) THEN "stopFailed" ELSE death
        /\ UNCHANGED <<pane, pid, input, fg>>
  /\ UNCHANGED <<wpc, cur, closed, unsent, loopVars, pollVars, hpid, hev, ops, mode,
                 closeVars, stream, made, published>>

\* respawn-pane -k replaces whatever the pane runs by a fresh bash.
RespawnPane(h) ==
  /\ hpc[h] \in {"stopRespawn", "exitRespawn"}
  /\ \/ /\ pane # "gone"
        /\ pane' = "alive" /\ pid' = pid + 1 /\ input' = <<>> /\ fg' = None /\ death' = "none"
        /\ Then(h, "stopConfigure", "exitConfigure")
     \/ /\ MayFail("RespawnPane") /\ Fails(h)
        /\ death' = IF Stopping(h) THEN "stopFailed" ELSE death
        /\ UNCHANGED <<pane, pid, input, fg>>
  /\ UNCHANGED <<wpc, shellVars, loopVars, pollVars, hpid, hev, ops, mode,
                 closeVars, stream, made, published>>

\* configurePane: two lines typed into the fresh bash, silent in the stream.
ConfigurePane(h) ==
  /\ hpc[h] \in {"stopConfigure", "exitConfigure"}
  /\ \/ pane # "gone" /\ Then(h, "stopTake", "exitDone")
     \/ (MayFail("SendText") \/ MayFail("SendEnter")) /\ Fails(h)
  /\ UNCHANGED <<wpc, shellVars, loopVars, pollVars, hpid, hev, ops, mode,
                 closeVars, paneVars, stream, made, published>>

\* Stop clears whatever is current now, and builds its Ended event.
Synthetic ==
  IF Busy THEN <<[kind |-> "Ended", cmd |-> cur.id, out |-> cur.buf, trunc |-> cur.trunc]>>
          ELSE <<>>

StopTake(h) ==
  /\ hpc[h] = "stopTake"
  /\ hev' = [hev EXCEPT ![h] = Synthetic]
  /\ cur' = NoCmd
  /\ Goto(h, "stopPublish")
  /\ UNCHANGED <<wpc, stopping, closed, unsent, loopVars, pollVars, hpid, ops,
                 mode, closeVars, paneVars, stream, made, published>>

\* Deviation: the flag is lowered only when there was a command to report.
StopPublishEarlyReturn(h) ==
  /\ hpc[h] = "stopPublish"
  /\ published' = published \o hev[h]
  /\ hev' = [hev EXCEPT ![h] = <<>>]
  /\ stopping' = (hev[h] = <<>>)
  /\ Goto(h, "idle")
  /\ UNCHANGED <<wpc, cur, closed, unsent, loopVars, pollVars, hpid, ops, mode,
                 closeVars, paneVars, stream, made>>

\* Publish the synthetic event; the deferred function then lowers the flag.
StopPublish(h) ==
  /\ hpc[h] = "stopPublish"
  /\ published' = published \o hev[h]
  /\ hev' = [hev EXCEPT ![h] = <<>>]
  /\ stopping' = FALSE
  /\ Goto(h, "idle")
  /\ UNCHANGED <<wpc, cur, closed, unsent, loopVars, pollVars, hpid, ops, mode,
                 closeVars, paneVars, stream, made>>

\* ExitClaude's deferred function; handleExitClaude resets the mode on success.
ExitReturn(h) ==
  /\ hpc[h] \in {"exitDone", "exitFail"}
  /\ stopping' = FALSE
  /\ mode' = IF hpc[h] = "exitDone" THEN "shell" ELSE mode
  /\ death' = IF hpc[h] = "exitFail" /\ pane = "dead" THEN "exitFailed" ELSE death
  /\ Goto(h, "idle")
  /\ UNCHANGED <<wpc, cur, closed, unsent, loopVars, pollVars, hpid, hev, ops,
                 closeVars, pane, pid, input, fg, stream, made, published>>

\* handleEnterClaude (TUI renderer): reject while a command runs, ...
EnterCheck(h) ==
  /\ mode = "shell" /\ ~Busy /\ Begin(h, "enterType")
  /\ UNCHANGED <<wpc, shellVars, loopVars, pollVars, hpid, hev, mode, closeVars,
                 paneVars, stream, made, published>>

\* ... then type claude into the pane ...
EnterType(h) ==
  /\ hpc[h] = "enterType"
  /\ \/ ~closed /\ Type(Claude) /\ Goto(h, "enterMode")
     \/ (closed \/ MayFail("SendText")) /\ Goto(h, "idle") /\ UNCHANGED input
  /\ UNCHANGED <<wpc, shellVars, loopVars, pollVars, hpid, hev, ops, mode,
                 closeVars, pane, pid, fg, death, stream, made, published>>

\* ... and record the mode.
EnterMode(h) ==
  /\ hpc[h] = "enterMode"
  /\ mode' = "claude" /\ Goto(h, "idle")
  /\ UNCHANGED <<wpc, shellVars, loopVars, pollVars, hpid, hev, ops, closeVars,
                 paneVars, stream, made, published>>

-----------------------------------------------------------------------------
(* Manager.Close -> TmuxShell.Close, called by a request or by the poller *)

\* Close removes the session from the Manager, so only one caller gets here.
CloseBegin(who) ==
  /\ cpc = "open"
  /\ closed' = TRUE /\ closer' = who /\ cpc' = "wait"

CloseRequest ==
  /\ CloseBegin("api")
  /\ UNCHANGED <<wpc, cur, stopping, unsent, loopVars, pollVars, handVars, mode,
                 paneVars, stream, made, published>>

\* Deviation: only the read loop is waited for.
ReadLoopReturned == rpc = "exited"

\* ts.wg.Wait(): both goroutines must have returned.
LoopsReturned == rpc = "exited" /\ ppc = "exited"

CloseWait ==
  /\ cpc = "wait" /\ LoopsReturned
  /\ cpc' = "kill"
  /\ UNCHANGED <<wpc, shellVars, loopVars, pollVars, handVars, mode, closer,
                 paneVars, stream, made, published>>

\* KillSession; then Manager.Close deletes the directory and saves the list.
CloseKill ==
  /\ cpc = "kill"
  /\ cpc' = "done" /\ pane' = "gone" /\ fg' = None /\ input' = <<>>
  /\ UNCHANGED <<wpc, shellVars, loopVars, pollVars, handVars, mode, closer,
                 pid, death, stream, made, published>>

-----------------------------------------------------------------------------
(* poller *)

PollDead ==
  /\ ppc = "tick" /\ pane = "dead"
  /\ ppc' = "sawDead"
  /\ UNCHANGED <<wpc, shellVars, loopVars, fired, handVars, mode, closeVars,
                 paneVars, stream, made, published>>

\* Read the flag under ts.mu; fire OnUserExit at most once.
PollCheck ==
  /\ ppc = "sawDead"
  /\ IF stopping \/ fired
     THEN ppc' = "tick" /\ UNCHANGED fired
     ELSE ppc' = "onUserExit" /\ fired' = TRUE
  /\ UNCHANGED <<wpc, shellVars, loopVars, handVars, mode, closeVars, paneVars,
                 stream, made, published>>

\* OnUserExit calls Manager.Close in the poller's own goroutine.
UserExitClose ==
  /\ ppc = "onUserExit"
  /\ CloseBegin("poller")
  /\ UNCHANGED <<wpc, cur, stopping, unsent, loopVars, pollVars, handVars, mode,
                 paneVars, stream, made, published>>

\* Manager.Close has returned: done, or ErrSessionNotFound behind another closer.
UserExitReturn ==
  /\ ppc = "onUserExit"
  /\ cpc # "open" /\ (closer = "poller" => cpc = "done")
  /\ ppc' = "tick"
  /\ UNCHANGED <<wpc, shellVars, loopVars, fired, handVars, mode, closeVars,
                 paneVars, stream, made, published>>

\* Deviation: the poller looks at stopPoller only once the pane is dead.
PollExitWhenDead ==
  /\ ppc = "tick" /\ closed /\ pane = "dead"
  /\ ppc' = "exited"
  /\ UNCHANGED <<wpc, shellVars, loopVars, fired, handVars, mode, closeVars,
                 paneVars, stream, made, published>>

PollExit ==
  /\ ppc = "tick" /\ closed
  /\ ppc' = "exited"
  /\ UNCHANGED <<wpc, shellVars, loopVars, fired, handVars, mode, closeVars,
                 paneVars, stream, made, published>>

-----------------------------------------------------------------------------
Init ==
  /\ wpc = [c \in Cmds |-> "new"] /\ cur = NoCmd
  /\ stopping = FALSE /\ closed = FALSE /\ inside = None /\ unsent = <<>>
  /\ rpc = "run" /\ ppc = "tick" /\ fired = FALSE
  /\ hpc = [h \in Handlers |-> "idle"] /\ hpid = [h \in Handlers |-> 0]
  /\ hev = [h \in Handlers |-> <<>>] /\ ops = 0
  /\ mode = "shell" /\ closer = None /\ cpc = "open"
  /\ pane = "alive" /\ pid = 0 /\ input = <<>> /\ fg = None
  /\ stream = <<>> /\ made = [c \in Cmds |-> 0]
  /\ death = "none" /\ published = <<>>

Writer(c) ==
  WriteAdmit(c) \/ WriteSendText(c) \/ WriteSendEnter(c) \/ WriteRollback(c)
Bash     == BashRead \/ BashOutput \/ BashEnd \/ ClaudeReads \/ BashExit
ReadLoop == ReadItem \/ ReadPublish \/ ReadLoopExit
StopSteps(h) ==
  \/ StopMark(h) \/ PanePID(h) \/ KillPane(h) \/ RespawnPane(h)
  \/ ConfigurePane(h) \/ StopTake(h) \/ StopPublish(h) \/ ExitReturn(h)
Handler(h) ==
  \/ StopRequest(h) \/ ExitMark(h) \/ StopSteps(h)
  \/ EnterCheck(h) \/ EnterType(h) \/ EnterMode(h)
Closing == CloseRequest \/ CloseWait \/ CloseKill
Poller  == PollDead \/ PollCheck \/ UserExitClose \/ UserExitReturn \/ PollExit

Next ==
  \/ \E c \in Cmds : Writer(c)
  \/ Bash
  \/ ReadLoop
  \/ \E h \in Handlers : Handler(h)
  \/ Closing
  \/ Poller

Spec == Init /\ [][Next]_vars

(* Fairness: goroutines that can run do run; tmux calls return; the poller's *)
(* select does not prefer a tick over the closed stop channel for ever.      *)
(* Nothing obliges a user to act, nor a command to print or to finish.       *)
Fairness ==
  /\ \A c \in Cmds : WF_vars(WriteSendText(c) \/ WriteSendEnter(c) \/ WriteRollback(c))
  /\ WF_vars(BashRead)
  /\ WF_vars(ReadItem) /\ WF_vars(ReadPublish) /\ WF_vars(ReadLoopExit)
  /\ \A h \in Handlers : WF_vars(StopSteps(h) \/ EnterType(h) \/ EnterMode(h))
  /\ WF_vars(CloseWait) /\ WF_vars(CloseKill)
  /\ WF_vars(PollDead) /\ WF_vars(PollCheck)
  /\ WF_vars(UserExitClose) /\ WF_vars(UserExitReturn)
  /\ SF_vars(PollExit)

FairSpec == Spec /\ Fairness

-----------------------------------------------------------------------------
(* Properties *)

Elems(s) == {s[i] : i \in DOMAIN s}

WriterPc  == {"new", "admitted", "typed", "errored", "accepted", "failed"}
HandlerPc == {"idle", "stopMark", "stopPID", "stopKill", "stopRespawn",
              "stopConfigure", "stopTake", "stopPublish", "exitPID", "exitKill",
              "exitRespawn", "exitConfigure", "exitDone", "exitFail",
              "enterType", "enterMode"}

TypeWrite == wpc \in [Cmds -> WriterPc]
TypeCur   == cur \in Running /\ stopping \in BOOLEAN /\ closed \in BOOLEAN
TypeLoop  == inside \in Cmds \cup {None} /\ rpc \in {"run", "exited"}
TypePoll  == ppc \in {"tick", "sawDead", "onUserExit", "exited"} /\ fired \in BOOLEAN
TypeHand  == hpc \in [Handlers -> HandlerPc] /\ hpid \in [Handlers -> Nat] /\ ops \in Nat
TypeClose == /\ closer \in {None, "api", "poller"}
             /\ cpc \in {"open", "wait", "kill", "done"}
             /\ mode \in {"shell", "claude"}
TypePane  == /\ pane \in {"alive", "dead", "gone"} /\ pid \in Nat
             /\ death \in {"none", "own", "killed", "stopFailed", "exitFailed"}
             /\ input \in Seq(Cmds \cup {Claude}) /\ fg \in Cmds \cup {None, Claude}
TypeData  == stream \in Seq(Item) /\ made \in [Cmds -> 0..MaxChunks]
TypeEvents == /\ unsent \in Seq(Event) /\ hev \in [Handlers -> Seq(Event)]
              /\ published \in Seq(Event)

\* Every variable keeps its type.
TypeOK == /\ TypeWrite /\ TypeCur /\ TypeLoop /\ TypePoll /\ TypeHand /\ TypeClose
          /\ TypePane /\ TypeData /\ TypeEvents

\* c is somewhere between the keyboard and the parser.
InPipe(c) ==
  \/ c \in Elems(input) \/ fg = c \/ inside = c
  \/ \E i \in DOMAIN stream : stream[i].cmd = c

\* ErrBusy serialises: whatever is typed, running or unparsed belongs to the
\* current command, so a second Write can never reach a bash that has work.
OneInFlight == pane # "gone" => \A c \in Cmds : InPipe(c) => cur.id = c

\* The events handed to the subscribers or about to be, and which are about c.
Reports == published \o unsent
Told(c) == {i \in DOMAIN Reports : Reports[i].cmd = c}
Reported(k, c) == \E i \in Told(c) : Reports[i].kind = k

\* Which of the first k chunks of c a buffer holds: whole ones, in order and one
\* after the other, within the cap; a chunk is missing only if it did not fit
\* behind those before it, and the flag says whether one is.
Fits(buf, c) ==
  \A j \in DOMAIN buf :
    /\ buf[j].cmd = c /\ buf[j].end = Upto(buf, j - 1) + Size[c][buf[j].no]
    /\ buf[j].end <= MaxBuf
    /\ j > 1 => buf[j - 1].no < buf[j].no

Missing(buf, i) == \A j \in DOMAIN buf : buf[j].no # i

NoRoom(buf, c, i) ==
  \E j \in 0..Len(buf) : /\ Upto(buf, j) + Size[c][i] > MaxBuf
                        /\ \A l \in DOMAIN buf : buf[l].no < i <=> l <= j

Filled(b, c, k) ==
  /\ Fits(b.buf, c) /\ \A j \in DOMAIN b.buf : b.buf[j].no <= k
  /\ \A i \in 1..k : Missing(b.buf, i) => NoRoom(b.buf, c, i)
  /\ b.trunc <=> \E i \in 1..k : Missing(b.buf, i)

\* The Ended event carries what of its own command's output fits under the cap.
CarriesOutput(e, c) == Filled([buf |-> e.out, trunc |-> e.trunc], c, made[c])

\* Subscribers see, for each command, Started, one Chunk per chunk printed, and
\* one Ended with the chunks that fitted into the buffer.
EventProtocol ==
  \A c \in Cmds : \A i \in Told(c) :
    /\ Reports[i].kind = "Started" <=> \A j \in Told(c) : i <= j
    /\ Reports[i].kind = "Ended" => /\ Cardinality(Told(c)) = made[c] + 2
                                    /\ \A j \in Told(c) : j <= i
                                    /\ CarriesOutput(Reports[i], c)

\* The current command is one whose end has not been announced: a command
\* reported as ended never occupies the shell again.
EndedIsFinal ==
  \A c \in Cmds : cur.id = c => \A i \in DOMAIN published :
    ~(published[i].kind = "Ended" /\ published[i].cmd = c)

Small(s) == \A i \in DOMAIN s : Used(s[i].out) <= MaxBuf

\* A command's output never occupies more than MaxBuf, in memory or in an event.
BufferBounded == Used(cur.buf) <= MaxBuf /\ Small(published)

\* The reader is closed and the session killed only when both goroutines that
\* use them have returned.
KilledAfterLoops == pane = "gone" => rpc = "exited" /\ ppc = "exited"

\* A dead pane with the flag down, the state in which the poller may take it for
\* a voluntary exit, is one that bash left by itself, or one with which ExitClaude
\* returned an error. A pane that Stop killed is not in it, also when its respawn
\* fails.
DeadUnflaggedIsVoluntary ==
  pane = "dead" /\ ~stopping => death \in {"own", "exitFailed"}

\* A command that has printed its END sentinel is reported as ended.
FinishedIsReported ==
  \A c \in Cmds :
    (\E i \in DOMAIN stream : stream[i].kind = "END" /\ stream[i].cmd = c)
    ~> (closed \/ \E i \in DOMAIN published :
                     published[i].kind = "Ended" /\ published[i].cmd = c)

\* A Stop or ExitClaude under way ends with a live bash and the flag down, unless
\* the session is closed, bash leaves on its own or tmux does not respawn it.
StopRestoresBash ==
  stopping ~> \/ ~stopping /\ pane = "alive"
              \/ closed
              \/ death \in {"own", "stopFailed", "exitFailed"}

\* Closing a session gets as far as killing its tmux session.
CloseKillsSession == closed ~> (pane = "gone")

-----------------------------------------------------------------------------
(* Inductive strengthenings                                                 *)

HoldsFlag(h) == hpc[h] \notin {"idle", "stopMark", "enterType", "enterMode"}

\* A pane that was killed is about to be respawned, or given up by ExitClaude;
\* one that Stop gave up keeps the flag; a handler keeps it up until it returns,
\* and once it has respawned bash, a dead pane is bash's own doing.
FlagInv ==
  /\ pane = "dead" => death # "none"
  /\ pane = "dead" /\ death = "killed" =>
       \E h \in Handlers : hpc[h] \in {"stopRespawn", "exitRespawn", "exitFail"}
  /\ pane = "dead" /\ death = "stopFailed" => stopping
  /\ \A h \in Handlers :
       /\ HoldsFlag(h) => stopping
       /\ hpc[h] \in {"stopConfigure", "stopTake", "stopPublish", "exitConfigure", "exitDone"} =>
            (pane = "dead" => death = "own")

\* Close kills the session after its wait, and goroutines do not come back.
CloseInv ==
  /\ cpc \in {"kill", "done"} => LoopsReturned
  /\ pane = "gone" => cpc = "done"
  /\ cpc # "open" => closed

\* Every buffer, wherever it has got to, is within MaxBuf.
BufferInv ==
  /\ Used(cur.buf) <= MaxBuf
  /\ Small(unsent) /\ Small(published)
  /\ \A h \in Handlers : Small(hev[h])

\* Nobody has typed claude.
ShellMode == fg # Claude /\ Claude \notin Elems(input) /\ mode = "shell"

\* In an open session without Stop: a command that is not yet typed holds the
\* shell alone, one that has printed its END is the last thing in the pipe,
\* and bash never has a second command waiting.
OpenInv ==
  /\ \A c \in Cmds : InPipe(c) => cur.id = c
  /\ \A c \in Cmds : wpc[c] \in {"admitted", "errored"} => cur.id = c
  /\ \A c \in Cmds : wpc[c] \notin {"typed", "accepted"} => ~InPipe(c)
  /\ fg # None => input = <<>>
  /\ Len(input) <= 1
  /\ \A i \in DOMAIN stream : stream[i].kind = "END" =>
       i = Len(stream) /\ fg = None /\ input = <<>>

SerialInv == ShellMode /\ (pane # "gone" => OpenInv)

\* The chunks that are printed and not yet parsed: what the stream holds between
\* its START, which the parser has read once it is inside, and its END.
Left == Len(stream) - (IF stream # <<>> /\ inside = None THEN 1 ELSE 0)
                    - (IF stream # <<>> /\ stream[Len(stream)].kind = "END" THEN 1 ELSE 0)

\* A stream begins with its START and has no other; what is still typed has
\* printed nothing.
StreamInv ==
  /\ stream # <<>> /\ inside = None => stream[1].kind = "START"
  /\ \A i \in DOMAIN stream : stream[i].kind = "START" => i = 1 /\ inside = None
  /\ fg # None => stream # <<>> \/ inside # None
  /\ input # <<>> => stream = <<>> /\ inside = None

\* The chunks of c that are printed and not yet parsed are its last ones.
Numbered(c) ==
  \A i \in DOMAIN stream : stream[i].kind = "CHUNK" =>
    stream[i].no = made[c] - Left + i - (IF inside = None THEN 1 ELSE 0)

\* The current command was admitted and has not ended; it was told started when
\* the parser went inside and a chunk at a time since, and these chunks are in its buffer.
OwnerInv(c) ==
  /\ wpc[c] \in {"admitted", "errored", "typed", "accepted"}
  /\ ~Reported("Ended", c)
  /\ Left <= made[c] /\ Numbered(c) /\ Filled(cur, c, made[c] - Left)
  /\ inside = None => Told(c) = {} /\ Left = made[c]
  /\ inside # None => Reported("Started", c) /\ Cardinality(Told(c)) + Left = made[c] + 1

\* What EventProtocol and the refinement of SerialShell rest on.
ReportInv ==
  /\ cpc = "open" => ~closed
  /\ \A c \in Cmds : wpc[c] \in {"new", "admitted"} => Told(c) = {}
  /\ pane # "gone" =>
       /\ StreamInv
       /\ \A c \in Cmds :
            /\ cur.id = c => OwnerInv(c)
            /\ wpc[c] \notin {"typed", "accepted"} => Told(c) = {} /\ made[c] = 0
            /\ wpc[c] \in {"typed", "accepted"} => cur.id = c \/ Reported("Ended", c)

-----------------------------------------------------------------------------
(* The shell implements SerialShell when nobody runs Stop or ExitClaude.    *)

PhaseOf(c) ==
  IF Reported("Ended", c) THEN "ended"
  ELSE IF Reported("Started", c) THEN "started"
  ELSE CASE wpc[c] = "failed" -> "refused" [] wpc[c] = "new" -> "new" [] OTHER -> "accepted"

Phase  == [c \in Cmds |-> PhaseOf(c)]
Serial == INSTANCE SerialShell WITH phase <- Phase, open <- ~closed

\* Every step of the shell is a step of SerialShell, or changes nothing of it.
RefinesSerialShell == Serial!Spec

=============================================================================
