# Headless-Alfred in TLA+

Headless-Alfred is a server that keeps up to eight bash sessions in tmux and shows them in a
browser; in each of them the user may also talk to a `claude` process. This directory models the
parts of it in which several goroutines, tmux, processes, files and restarts meet: the shell of a
session, the stream it is read from, the records of its commands, the session manager and the list
of sessions on disk; and, for claude, the approval of its tools, its runs, the state they leave and
the snapshots of that state. TLC checks small instances of the models; of the safety properties
that hold there, TLAPS proves all but one for instances of every size, some under hypotheses that
the theorem states. Paths are relative to the repository.

## 1. The system

### Components, their state and operations

| component | state | operations | talks to |
|---|---|---|---|
| shell of a session, `internal/shell/tmux_shell.go` | `currentCmd` with its buffer, `stopping`, `closed`, the reader, two goroutines (`readLoop`, `poller`) | `Start`, `Resume`, `Write`, `Stop`, `EnterClaude`, `ExitClaude`, `SendStdin`, `Close` | tmux calls; `StreamReader`; publishes `CommandEvent`s; `OnUserExit` calls the manager |
| sentinels, `internal/shell/sentinel.go` | a half-read sentinel (`buf`), the command it is inside of | `Wrap`, `Feed`, `ResumeInside` | fed by the reader, calls `onParserEvent` |
| stream reader, `internal/shell/tmuxio/stream_reader.go` | position in `pty.stream`, the file `pty.offset` | `ReadOnce`, `TruncateConsumed` | the file tmux's `pipe-pane` appends to |
| broadcasters, `internal/shell/event_broadcaster.go`, `broadcaster.go` | a bounded channel per subscriber | `Subscribe`, `Publish` | persister of commands, WebSocket fan-in |
| session manager, `internal/session/manager.go` | `metas`, `shells` under `m.mu` | `Create`, `CreateOrGetRecapSession`, setters, `EnsureClaudeConvoID`, `Close`, `Reconcile` | shells, tmux, `sessions.json`, directories, close listeners |
| list of sessions, `internal/store/sessions.go` | `sessions.json`, `sessions.json.tmp` | `Save`, `Load` | manager |
| command records, `internal/store/store.go` | `commands/<id>.json`, `outputs/<id>.log` | `Save`, `Get`, `WriteOutput`, `SweepRunningToInterrupted` | `handleRun`, `StopCommandHandler`, persister, boot |
| WebSocket and REST, `internal/api` | subscriptions, queues and run slots of a connection | a frame or a request per operation | all of the others |
| tool approvals, `internal/claude/bridge.go`, `dispatcher*.go` | `pending` requests, one subscription per session | `handleAsk`, `Resolve`, `onAsk`, `SubscribeAsks` | the hook of a claude process, the tabs, claude state |
| claude runs, `internal/claude/runner.go`, `parser.go`, `internal/api/claude_handlers.go` | a process per prompt with its parser, forwarder and reaper; the slot of a session in a tab | `Prompt`, `ParseStream`, `Wait`, `Interrupt`, `stopRun`, `takeAll` | claude state, through the tab's main loop |
| claude state, `internal/claudestate/state.go` | turns with their blocks and tools, `InFlight`, background tasks, subagents | `BeginTurn`, `Apply` | runs, approvals, snapshots |
| loading it, `internal/claudestate/loader.go`, `internal/claudehistory` | none | `Load`, `Parse`, the history handler | `claude.json`, the CLI's transcript |
| keeping it, `internal/claudestate/manager.go`, `persister.go` | the map of loaded sessions; one goroutine, timer, `claude.json` and lock file for each | `GetOrLoad`, `DeleteSession`, `FinalizeAllInFlight`, `Shutdown`; `Signal`, `Close`, `CloseNoFlush` | tabs, GET handlers, the delete listener, `main` |
| background logs, disk watcher, broadcasts | timers and subscribers | tail, debounce, poll | browser |
| stores of notes, recaps, summaries, templates; authentication; web client; deployment | one file per key, a cookie, React views, manifests | | |

### What is hard in it

* **Interleavings.** `Write`, `Stop`, `ExitClaude`, the read loop and the poller share a shell and
  release `ts.mu` around every tmux call; requests share the manager and release `m.mu` around tmux
  and every save; three goroutines read, change and save the same record; a prompt has a process, a
  parser, a forwarder and a reaper next to the tab's loop; two tabs take a session's approvals over
  from each other.
* **Time lag.** What bash has done reaches the shell later, through a file; what claude has done
  reaches the state later, through three queues. A handler acts on an older state of the world.
* **Crashes.** The process dies alone (tmux and its bashes go on) or with the pod (everything but
  the volume is lost). `Reconcile` has to bring memory, tmux, directories and `sessions.json`
  together, `Resume` has to find its place in the stream, records and turns left running must be
  settled.
* **Partial failure.** Each tmux call and each file write may fail half-way through an operation; a
  directory is removed under a goroutine that writes to it.
* **Timeouts.** An approval expires while its answer is on the way; a deletion gives up on a busy
  Persister after five seconds; a snapshot is debounced.
* **Limits.** The output cap, `MaxSessions`, the 64 slots of the command persister, the size at
  which `pty.stream` is truncated, the channels of a subscription and of a tab.

### What correctness means, per component

* *Shell*: a command that was admitted is alone until it has ended; its subscribers see Started, its
  chunks and one Ended with the chunks that fitted in its buffer; the flag is up whenever a pane
  that Stop killed is dead; a Stop ends with a live bash; Close kills the tmux session after its
  goroutines have returned.
* *Stream*: every byte that reached the file is parsed, in order, over any number of restarts;
  truncation takes nothing from a running command.
* *Records*: no record stays running when its command is over; a completed record has its exit code
  and its output; no stale copy turns a settled record back.
* *Manager*: outside requests, memory, tmux and directories agree, and the stored list follows; the
  limit holds; an acknowledged session survives; a closed one does not return; one conversation per
  session.
* *List on disk*: an atomic file.
* *Approvals*: a tool call ends once, and goes through only because a person or a rule let it;
  nothing is sent to a subscription whose tab has gone; a takeover loses no request.
* *Runs and state*: a turn shows what its own claude said, ends once and stays as it ended; the
  composer is locked while a turn is open and unlocks again; a run in a slot has somebody left to
  free it.
* *Snapshots*: a change is on disk in the end, at the latest when the server stops; after a restart
  nothing waits for a claude that is gone; no Persister outlives its session.

## 2. Modules

| module | models | composed with |
|---|---|---|
| `SerialShell` | what a shell promises its clients: commands one at a time, each started once and ended once | abstract specification of `TmuxShell` |
| `TmuxShell` | one session's shell, its goroutines and its pane | refines `SerialShell` |
| `PtyStream` | pane to file to reader to parser to current command, with truncation and restarts | |
| `CommandRecords` | the life of a record through everybody who writes it | |
| `AtomicFile` | what "atomically (tmp + rename)" promises | abstract specification of `SessionsFile` |
| `SessionsFile` | `Save` over two names and their inodes | refines `AtomicFile`; instantiated by `Manager` |
| `Manager` | session manager, boot, tmux, directories, `sessions.json` | `SessionsFile` as `File` |
| `ToolGate` | what a tool call is promised: at most one end, and passage only by consent | abstract specification of `Approvals` |
| `Approvals` | bridge, dispatcher and the tabs' queues and cards, for one session | refines `ToolGate` |
| `ClaudeState` | the parser of claude's lines and the reducer of its events, as operators | used by the next three |
| `ClaudeRuns` | the processes, goroutines and tabs that produce and apply the events | `ClaudeState` |
| `ClaudeLoader` | `Load` with all its repairs, the transcript's `Parse` and its pages, as operators | `ClaudeState` |
| `ClaudeSnapshots` | registry, Persister, deletion, shutdown and boots of one session's state | `ClaudeLoader` |
| `MC*` | values of the constants for TLC; the loader, the pages and the task counters against reference definitions, as `ASSUME`s | |
| `TmuxShellProofs`, `SessionsFileProofs`, `ManagerProofs`, `PtyStreamProofs`, `CommandRecordsProofs`, `ApprovalsProofs`, `ClaudeRunsProofs`, `ClaudeSnapshotsProofs` | theorems | |

A definition whose comment says *Deviation* is a plausible mistake in the code. Nothing uses it in
the specification; it documents which error a property would catch, and is put in the place of the
definition below it to see that the property notices. `PROJECT.json` maps each definition to its
lines.

### How state and actions correspond

**TmuxShell.** `cur` is `currentCmd` with `OutputBuf` and `Truncated`; `stopping` and `closed` are
the fields of these names; `unsent` and `hev` hold the events that were decided under the lock and
are published after it. The pane is `pane`, `pid`, `input` (typed and not read), `fg` (what bash
runs); `stream` is what it printed and the read loop has not consumed. One action is one critical
section of `ts.mu` or one tmux call: `Write` is `WriteAdmit`, `WriteSendText`, `WriteSendEnter`,
`WriteRollback`; `Stop` is `StopMark`, `PanePID`, `KillPane`, `RespawnPane`, `ConfigurePane`,
`StopTake`, `StopPublish`; the poller is `PollDead` (the tmux call), `PollCheck` (what it decides
with the answer), `UserExitClose` and the wait in `wg.Wait`. Handlers run concurrently with
everything. A command prints up to `MaxChunks` chunks; `Size` gives the length of each, and the
buffer keeps a chunk whole or skips it (`Buffered`). `EnterClaude`'s failures are one outcome.
Bytes, the working directory and timestamps are left out.

**PtyStream.** A unit of the file is half a sentinel line or a piece of output, so that a read can
end in the middle of a sentinel; `n`, `offset`, `pos` are the variables of `ReadOnce` and the
position of its file handle, `stored` is `pty.offset`. `ReadOnce` is `Read`, `Feed` once per unit,
`Fed`, `PersistOffset`; the END that starts a truncation runs `StopPipe`, `Truncate`, `StoreZero`,
`StartPipe` inside `Feed`, as `maybeTruncate` does. `ProcessGone` and `PodGone` may come between any
two of them; `Resume` opens the stream again, seeds the command and the parser. Errors of local file
calls are left out, a failing `pipe-pane` is not.

**CommandRecords.** `run` is each `handleRun`'s place (save the record, `Write`, and on error read
and interrupt the record); `ppc` the persister's, `hpc` each stop handler's. Each reads the record
in one step and saves it in another, with its own copy (`rrec`, `prec`, `hrec`) in between.
`Publish` drops at a full channel. `Save` is one step: two saves of one record share a temporary
name, and that case is not modelled here. A save, or `WriteOutput`, may fail, which the code logs
and goes on from. The shell is reduced to its admission and its two tmux calls (`RunAdmit`,
`RunSend`, `RunRelease`), its current command and its unread sentinels, each read once. `Faults`
says which faults an instance has (a tmux call, Stop's included, the disk, the process, the pod) and
`MaxFaults` how many of them in all. `orphaned` and `failed` are history: the commands that nothing
is left to end, and those of which a write failed. Chunk events, which also fill the channel, are
left out: the bound of two slots makes the channel full in their place.

**SessionsFile.** `tmp` and `final` are names, `content` belongs to inodes; `Open` truncates,
`Write` may leave a torn file when two writers share an inode, `Rename`, `Clean` (the deferred
remove). An inode that loses its name is emptied (`Free`): no reader can reach it. `Crash` stops
every writer.

**Manager.** A worker is a request goroutine with its program counter; between two actions `m.mu` is
free. `Persist` takes the snapshot under the lock and runs `File!Save` step by step after it, which
is where two saves interleave. `Create` is `CreateReserve`, `StartDirs`, `StartTmux`, `Register`,
`CreateSave`, `CreateReturn` with the rollbacks `CreateUnreserve` and `CreateRollback`; `Close` is
`CloseForget`, `CloseShell`, `CloseDir`, `CloseSave`, `CloseReturn`. `Reconcile` is `BootLoad`,
`BootResume` or `BootRecreate` per stored session in order with four resets saved each on its own
(`BootReset`, one per member of `Options`), and `BootServe`. A shell is alive or not; what it does
is `TmuxShell`'s matter. `acked`, `closing`, `notified` and `omitted` are history: sessions
reported, asked to close, told closed, and those left out of a list that a boot saved before it came
to them. `Rename` is a setter of another field and is not repeated. `UserExit` closes as `Close`
does: that the real one never gets through is a disagreement of section 6.

**Approvals.** `hpc` is the place of each request's HTTP handler: registered (`Post`), then inside
`onAsk` the lookup of the conversation, the rules, the look at the subscription and the send, then
the `select` of `handleAsk`. Between `Route`, which reads the subscription under the dispatcher's
lock, and `Send`, which uses it after the lock, another tab may take over and close it; the send
then panics, `net/http` recovers, and the entry stays in `pending`. `resolved` is the buffered
channel of one decision: `Resolve` delivers only if it removed the entry. A tab has three stages:
its dispatcher channel (`chan`, `shut` when closed), what `forwardAsks` took off it (`asks`), and
the cards it shows. `Answer` is the whole of `tool_decision`: `Resolve`, whose answer nobody looks
at, and the record in the claude state (`card`). `Show` denies when the session has gone. `consent`
and `answers` are history. What is called matters only to the rules and is one of four kinds; the
socket's bytes and the payload are left out.

**ClaudeState.** A line is a record of the fields the parser reads of it (`Line`), an event is what
`ParseLine` makes of it (`AnEvent`). `Apply` has one operator per kind of event, in the order of the
switch in `state.go`; `BeginTurn` and the two synthetic ends of a turn go through the same
`SetTurnOutcome`. Texts, inputs and results are tokens from `Words`, the text of a block is the
sequence of tokens appended to it; `index` is the map from a content block's index to its block.
Times and token counts are left out.

**ClaudeRuns.** `proc`, `left`, `pipe` are the process, the lines it has still to print and the
events its parser made of them; `fwd` and `reap` the two goroutines that `handleClaudePrompt`
starts; `slot` the tab's `claudeRunStateMap` entry for the session; `queue` its `claudeEvents`. The
tab's main loop does one thing at a time (`loop`): a prompt is `Prompt` (announced) and then `Spawn`
or `SpawnFails`; leaving claude mode, the closed session and the disconnect take the slot
(`StopTaken`) and close the turn after (`EndTaken`). `Exit` loses any part of what the parser has
not read, as `Wait` closes the pipe. `mixed`, `stolen`, `dropped`, `gave`, `script` and `heard` are
history, for properties that speak of what happened before: `heard` is what the main loops applied
since the last turn began.

**ClaudeLoader.** `Load` is the loader from its two inputs, `snap` (the turns of `claude.json`, or
`NoFile`) and the lines of the transcript: `LoadJsonl`, `MergeTurns`, the repairs in their order,
the replay of background tasks. `Parse` and `ClaudeHistory` give the pages of the history handler.

**ClaudeSnapshots.** `entry` is the session's entry in the map, `flight` its singleflight call,
`obj` each `SessionState` created in this process with its Persister: the one-slot `dirty` signal,
the timer, and the write it is in (`job`, with the copy of the turns taken first, then the temporary
file, then the rename). A caller asks (`GetOrLoad`), changes the state under its lock (`Change`) and
signals after it (`Mark`). `del` is the deletion: the directory goes first, then the listener calls
`DeleteSession` and `CloseNoFlush`, which may time out. `proc` is `main`: signal,
`FinalizeAllInFlight`, the HTTP server's stop, `Shutdown`, one last write per Persister; or a crash.
A load that lands after `Shutdown` panics (`Panic`) with the manager's lock held; its callers
recover from it, so the process goes on, with a Persister that nobody has and a map that nobody can
reach (`jammed`). `jsonl` is what the CLI writes, under ids of its own. A write fails when its
directory has gone; other disk errors are left out.

## 3. Runs

| run | instance | shows |
|---|---|---|
| `shell_serial` | 2 commands, up to 3 chunks of lengths 1, 2, 1, cap 2, the first `send-keys` may fail, close at any time, no Stop | one command in flight; the event protocol; a finished command is reported; Close ends; `TmuxShell` implements `SerialShell` |
| `shell_stop` | 1 command, chunks of lengths 2, 1, cap 1, 1 handler with 2 operations (Stop, ExitClaude, EnterClaude), `respawn-pane` may fail, bash may exit | a pane that Stop killed is never dead with the flag down; the cap; the order of Close; every Stop ends with a live bash if the respawn succeeds |
| `file_atomic` | 1 writer, 3 lists, write errors, crashes | a reader finds a whole list; `Save` implements `AtomicFile` |
| `manager_restart` | 2 sessions, 1 worker, 3 operations, 2 crashes of either kind anywhere, in a boot with stored sessions too | memory, tmux and directories agree, and the file with them but for what a boot left out of it; nothing else that was acknowledged is lost; nothing closed returns; the server comes up |
| `manager_race` | 3 ids, limit 2, 2 workers, 3 operations, tmux and disk fail, bash exits | the limit, slots given back, one conversation id |
| `stream` | 2 commands, 1 output each, reads of 3 units, threshold 6, 1 crash of either kind, `pipe-pane` fails | nothing read is lost without truncation; units are fed in order; sentinels survive any split; truncation spares a begun command |
| `records` | 2 run frames, 1 stop, channel of 2, any 2 faults of tmux, the disk, the process or the pod | records settle, completed ones have their exit code and output, none runs again |
| `approvals` | 2 requests, 2 tabs, channels of 1, the session closed and the bypass toggled at any time | the subscription is a live tab's; a single answer is obeyed; every call ends; a takeover loses nothing; `Approvals` implements `ToolGate` |
| `claude_runs` | 2 runs (two messages with a tool; one short), 1 tab, pipe and queue of 1 | the composer is locked with the last turn and unlocks; a held slot will be freed; a turn hears a beginning of what its own claude prints, and shows it; a closed one stays |
| `runs_reaper` *(disagreement)* | 2 short runs, 1 tab | the reaper of a run that gave its result takes the slot of the next and reports it as ended |
| `snapshots` | 2 objects, 2 callers (a tab's loop and a GET), 1 turn, 2 events, 3 processes, 1 deletion | nothing waits for a claude that is gone; `Shutdown` flushes; no Persister leaks; changes reach the disk; and, as `ASSUME`s, `Load`, the pages and the task counters against their reference definitions |
| `snapshots_tools` *(disagreement)* | the same with 2 processes and no deletion | after a restart a completed tool is shown as aborted |

The definitions behind the last column, in the module of the run:

* `shell_serial`: `OneInFlight`, `EventProtocol`, `FinishedIsReported`, `CloseKillsSession`,
  `RefinesSerialShell`.
* `shell_stop`: `DeadUnflaggedIsVoluntary`, `BufferBounded`, `KilledAfterLoops`, `StopRestoresBash`.
* `file_atomic`: `RefinesAtomicFile`, which implies `NeverTorn`.
* `manager_restart`: `SettledSound`, `AckedSurvives`, `ClosedIsGone`, `Reboots`.
* `manager_race`: `LimitRespected`, `SlotsBacked`, `OneConvo`.
* `stream`: `AtLeastOnce`, `BegunKeepsOutput`, `FedInOrder`, `CommandEnds`.
* `records`: `CompletedHasResult`, `NeverRunningAgain`, `RecordsSettle`.
* `approvals`: `SubIsLive`, `LoneAnswerIsObeyed`, `RefinesToolGate`, `EveryAskEnds`,
  `QueuedIsShown`.
* `claude_runs`: `TypeOK`, `SlotWillBeFreed`, `LockedIffOpen`, `SoloHearsOwn`, `SoloTurnIsWhole`,
  `ClosedTurnStays`, `ComposerUnlocks`.
* `runs_reaper`: `RunEndedMeansCrash`.
* `snapshots`: `NothingHangs`, `ShutdownFlushes`, `NoPersisterLeaks`, `ChangesReachDisk`.
* `snapshots_tools`: `LoadedToolMatches`.

Deadlock is not checked: every bound ends in a state where nothing is left to do, and a closed
session or a failed respawn is a place where the real code stops too.

**Why the bounds are enough.** Two commands are what it takes for one to be refused, displaced or
overtaken by another; two workers for a race on a read-modify-write or on a slot. A limit of two
with three ids lets a creation be refused, and succeed after a rollback gave a slot back. One crash
can fall between any two steps of what was running; the second one of `manager_restart` and
`records` falls into the boot after it, or into what a resumed process does. Three units per read
split a sentinel in every place. Chunks of lengths 1, 2, 1 and a cap of 2 give a chunk that fits,
one that does not, and a smaller one that does again behind it; a cap smaller than the first chunk
keeps nothing of it. Threshold 6 is about one command and a half, so truncation happens with and
without a second command in the file. `manager_race` counts sessions and workers up to symmetry (it
has no liveness property).

Two tabs are what a takeover takes, two requests and a channel of one fill it: the second is denied
at the full channel, or overtakes the takeover. Two runs let the goroutines of the first meet the
slot and the turn of the second; the first script has all that a run does (text, a tool and its
failed result, a second message, the end), the second ends in an error; with queues of one, each of
the three stages of an event can hold it while the tab does something else. Slots, queues and loops
belong to one tab each, so one tab is enough for what `claude_runs` says; a second one could only
prompt on its own and set `mixed`. One turn with a tool and one result is all a snapshot tells
apart, two objects are a session deleted and loaded again by a late event, or loaded twice, three
processes are a shutdown after a crash and the load after both. `LoadAssumption` runs the loader on
every pair of up to two turns and up to three transcript lines of the kinds it reads,
`PagingAssumption` scrolls through up to four turns with every limit up to three.

**Fairness.** `TmuxShell`: weak fairness of the steps of a request once it has begun (tmux calls
return), of the read loop, of the poller's ticks, of bash reading its input and of Close once begun.
The poller's `select` has a tick and the closed stop channel to choose from at each round, and Go's
choice among ready cases is random, so its exit (`PollExit`) is strongly fair. Nothing obliges a
client to send a request, nor a command to print or to end. `PtyStream`: the read loop (it polls),
bash, the restart of the process by its supervisor (`deployment.yaml`). `CommandRecords`: one
fairness for everything that goes on by itself, which is weaker than one for each and enough because
the bounds leave no infinite run; it has bash end its commands, as `PtyStream` has, since a record
of an endless command rightly says running. `Manager`: the steps of the boot; nothing is assumed of
clients. `Approvals` and `ClaudeRuns`: again one fairness for what goes on by itself, that is
goroutines, the `AskTimeout` timer and the end of a claude process, which has work for a finite
time; nobody has to answer, prompt or leave. `ClaudeSnapshots`: the Persisters, and a caller that
has changed the state and is about to signal it; that is all `ChangesReachDisk` needs.

## 4. Proofs

* **TmuxShell, types and flag** (`TypeCorrect`, `FlagCorrect`). `DeadUnflaggedIsVoluntary` is not
  inductive: nothing in it says who will respawn a killed pane. `FlagInv` adds that a pane that
  was killed has a handler right before its respawn, that a handler keeps the flag up from its mark
  to its return, and that a Stop which gave up after the kill leaves it up. `death`, the history of
  how the pane died, tells that Stop from an ExitClaude that gave up, which takes the flag down and
  returns an error. Any tmux call may fail, the respawn included; the theorem assumes one handler at
  most, because two take each other's flag down (section 6).
* **TmuxShell, close and cap** (`CloseCorrect`, `BufferCorrect`). `CloseInv` ties `gone` to Close's
  place and to both loops having returned; `BufferInv` bounds the buffer wherever it is: in the
  current command, in events decided but not published, in a handler's hand, published. Chunks
  have any length.
* **TmuxShell, one at a time** (`SerialCorrect`: any number of commands, no handlers, a `SendEnter`
  that does not fail, since the command runs although its caller was told it failed). `OpenInv`: a
  command between admission and typing holds the shell, one that is not typed is not in the pipe, an
  END is the last thing in the stream with bash idle. The last conjunct is what makes the next
  admission safe.
* **TmuxShell, what subscribers are told** (`ProtocolCorrect`, `ShellCorrect`: the same assumptions;
  bash may exit at any time, which no run of the two combines). `EventProtocol` counts the events
  about a command against the chunks it printed, and most of these are on their way when an event is
  published. `ReportInv` follows them: `StreamInv` gives the stream its shape (a START, chunks, an
  END), so that `Left`, the chunks printed and not yet parsed, is a difference of lengths, and
  `OwnerInv` says of the current command that what it was told and what is left make up what it
  printed, and that its buffer holds the chunks of the difference that fitted (`Filled`): whole
  ones, and one is missing only if it had no room behind those before it. A command that is accepted
  and not reported as ended owns the shell; that, with `ReportInv`, is the refinement of
  `SerialShell`: only the admission, the rollback, the reading of a START or an END and the close
  move a phase.
* **SessionsFile** (`NeverTornCorrect`, `AtomicCorrect`, one writer). `SavingInv`: the temporary
  inode is never the stored one, and what is about to be renamed is the whole list. The refinement
  maps the abstract value to what a reader finds and the abstract job to the list not yet renamed;
  the rename commits.
* **Manager** (`TypeCorrect`, `LimitCorrect`). Types and limit need each other: `LimitInv` says that
  no list, in memory, loaded, wanted by a writer or in any inode is over the limit, because a boot
  takes its sessions from the file without counting them, and that nobody creates unless the process
  serves.
* **Manager, until the process first goes away** (`SlotsCorrect`, `ConvoCorrect`; any number of
  concurrent requests). `FirstLife` says that nothing is known before the first boot is over, that a
  session that is known has been reported and has its shell or is in the hands of its creator
  (`SlotsInv`), and that the id a caller got is the one in memory (`ConvoInv`). Both properties end
  with the first crash, which may come between a reservation or an id and the save of it.
* **Manager, requests one at a time** (`AckedCorrect`, `ClosedCorrect`, `SettledCorrect`; `Serial`:
  at most one worker, any number of sessions and crashes). Several requests save their lists in
  another order than they took them (section 6), so the properties are false without `Serial`, and
  the runs check them under it. `SerialInv` has a part per hazard. `SavesInv`: one goroutine saves,
  into a file nobody reads. `MintInv`: an id that was never handed out is nowhere. `AckInv`: what
  was reported and not closed is in the list that is being saved, then in the stored one; after a
  crash in what the boot has still to do, then in memory. Where it is in none of these, a boot has
  saved a list without it (`omitted`), and if that boot's process went away before another save, the
  next boot cannot know of it (`Lost`). `ClosedInv`: what was closed is in no list and has no tmux
  session; a failing `startShell` leaves one that nobody knows (section 6), hence `~TmuxFails`.
  `AliveInv` and `StoredInv` say that memory, tmux, the directories and the file differ by the
  request in progress only, and by what a boot omitted from the file; a tmux, a disk or a bash that
  fails makes them differ, hence the other hypotheses of `SettledCorrect`.
* **PtyStream** (`OnceCorrect`, `OrderCorrect`). `AtLeastOnce` speaks of the stored offset only;
  `Positions` adds where the rest of a read is: until the first truncation the offset and the bytes
  being fed end at the handle's position, and the buffer is the end of what was read. `InOrder` says
  that the last unit fed, the buffer and the unread file follow one another in the order of
  printing, which survives a truncation in the middle of a read because the buffer does; `Down`
  empties the reader while the process is gone.
* **PtyStream, truncation** (`BegunCorrect`). `BegunInv` holds as long as the process lives:
  whatever is printed and not yet parsed belongs to the current command (`Alone`), its END is
  followed by one separator at most (`Closes`), and while the file is being cut the parser is not in
  a command (`Windows`). So a truncation can take units of a command only before its START was read,
  and since the START is among them (`Starts`) it never will be.
* **CommandRecords** (`ResultCorrect`, `SettledCorrect`; any number of faults of any kind). The
  hazard is a stale copy, so the invariant speaks of copies as well as of the disk: `Frames`, a
  record exists from `RunSave` on and a rollback's copy is a record; `Ending`, an event on its way
  to the persister carries an exit code, and its output was written, or failed to be, before the
  persister reads the record; `Stopping`, a stop handler has copied only a record that exists.
* **Approvals** (`TypeCorrect`, `SubCorrect`, `LoneCorrect`, `GateCorrect`). `SubInv` adds to
  `SubIsLive` that a tab which is not connected has not been closed. `GateInv`: an allowance that is
  on its way to a handler, in `resolved` or decided, has consent behind it, and only requests that
  were asked are pending, queued or shown; `LoneInv` follows a request from no answer (no card, no
  verdict) to one, which is what is delivered and what the card says. With them every step maps to a
  step of `ToolGate` or to a stutter: `Outcome` reads the abstract call off the handler's place and
  verdict.
* **ClaudeRuns** (`TypeCorrect`, `SlotCorrect`, `LockedCorrect`, `ClosedCorrect`; any number of runs
  and tabs, any scripts of lines). `Inv` is `Types /\ Owned /\ Turns`. `Good(state)` says that the
  state is well formed, that `inFlight` is the openness of the last turn and that the index points
  into it. For each of the events of `Apply` one lemma shows that it keeps a good state good and its
  closed turns as they were, also an event that comes too late. `Turns` adds that every turn, and
  the index, is of a run that was started, so that the next prompt finds no index. `Owned` gives a
  slot its run's tab and a reaper that waits. That the next run exists is the well-foundedness of
  `<`.
* **ClaudeRuns, the way of an event** (`HearsCorrect`, the same generality). `SoloHearsOwn` says
  that what was applied to the last turn is a beginning of what its own process prints, as long as
  each prompt waited for the run before (`mixed` is false). `HearInv` follows the events: `Path`,
  what was heard, what waits in the tab's queue and what is in the parser's pipe, one after the
  other, are a beginning of the script's events, and what the process has still to print is exactly
  the rest while it lives and is not cancelled; after the tab has gone, only what was heard is.
  `Others`: the other runs have nothing on the way. `Places` ties each queue to its tab's runs and
  each goroutine to its reaper, so that a run that is over can neither send nor print. `Concludes`:
  the two synthetic ends of a turn leave their reason, so that a turn closed without one was told
  the result. A step moves an event from one end of a concatenation to the other, so the proof needs
  little more than the associativity of concatenation, and that the events of a script are those of
  its first line and then those of the others; since `FlattenSeq` is a fold, that is shown by a
  least counterexample.
* **ClaudeSnapshots** (`LeaksCorrect`, `FlushCorrect`; any number of objects, callers, prompts,
  events and processes). `Known`: an object that the map, Shutdown or a deletion has is in use, and
  the one a flight is loading is the flight's alone, which finds the map empty. The two exceptions
  of `NoPersisterLeaks` are the `leaked` and the `jammed` of section 6: a Persister is without an
  owner in no other way. `Stopping`: only a deletion makes a Persister leak, and Shutdown's object
  is neither in the map nor in a deletion's hand any more. `Writers`: as long as the directory is
  there, a Persister that runs holds its lock, so that there is one, and what it has written is in
  the temporary file; the last write's copy is the state unless something changed after it. Renaming
  that file gives `ShutdownFlushes`.
* **ClaudeSnapshots, what a load leaves** (`LoadSettles`, `HangsCorrect`). `LoadSettles` is about
  the loader alone: whatever the snapshot and the transcript say, `Load` returns nothing in flight,
  its last turn and every tool closed and every background task finished. `NothingHangs` needs that
  of every state in memory and of every file it may come from: `HangInv` has `Files`, the contents
  of `claude.json`, its temporary file and the transcript are ones the loader can take; `Doings`,
  callers bring only what the reducers take; `States`, each state is `Calm`: what is in flight, open
  or waiting for a tool is a turn of a prompt of this process. The loader folds over the transcript;
  what such a fold returns is typed by taking the least prefix on which it would not be.

The assumptions are those of the modules (`ShellAssumption`, `FileAssumption`, the manager's,
`StreamAssumption`, `ApprovalsAssumption`, `NoneAssumption`, `WordsAssumption`, `RunsAssumption`,
`SnapshotsAssumption`), which TLC evaluates on every run, and those a theorem states itself.

Only model-checked: every liveness property (`FinishedIsReported`, `CloseKillsSession`,
`StopRestoresBash`, `Reboots`, `CommandEnds`, `RecordsSettle`, `EveryAskEnds`, `QueuedIsShown`,
`ComposerUnlocks`, `ChangesReachDisk`), since fairness and `ENABLED` are beyond the prover, and one
invariant, `SoloTurnIsWhole`. `HearsCorrect` gives the half of it that is about the goroutines, for
all scripts; what `Apply` makes of a beginning of a script is the other half, and not true of all of
them (a script may repeat a text, or go back to an earlier content block after a later one), only of
those the CLI prints, of which the run's are examples. The exact results of the loader, the pages
and the task counters are compared with reference definitions on bounded inputs only: of the loader
it is proved what `LoadSettles` says, not which turns it keeps.

## 5. Not modelled

* *Storage migration* (`internal/store/migrate.go`): a one-time move of the single-session layout,
  at most once in the life of an installation.
* *Background logs*: a reader of one growing file, which shares no state with the rest.
* *Disk watcher and broadcasts*: two goroutines and a timer. Two races in it: a timer that fired
  before `Stop` still calls `onWrite` after it (`internal/diskwatcher/watcher.go:107`), and a poll
  runs beside an unsubscribe (`internal/api/disk_broadcast.go:107`).
* *Authentication, markdown stores, web client, deployment*: no state that two actors of the server
  share.

Within the modelled parts: reads that split a separator from its X, and separators printed by the
user's program (a model of the parser's bytes); the socket's bytes of the bridge; the arguments and
the environment of a claude process; the cache of the transcript's locator; snapshots older than the
outcome field; timestamps. Mode and renderer are saved in two steps
(`internal/api/claude_handlers.go:240`), between which a crash or another request sees one without
the other. Two first recap requests create two sessions (`internal/session/manager.go:267`); the
comment there says so, and a later call closes the extra one.

## 6. Where code and words part

Two runs show a disagreement with a comment; the quotes are in `PROJECT.json`. Five more have no run
of their own and are reproduced by changing an instance:

| disagreement | how to reproduce it |
|---|---|
| `sessions.json` tears when two saves share its temporary name (`internal/store/sessions.go:94-97`) | `file_atomic.cfg` with `Writers <- TwoWriters`, `IOFails = FALSE` and the invariant `NeverTorn`, which fails |
| a START read after the Stop of its command occupies the shell for good (`internal/shell/tmux_shell.go:406-409`) | `shell_stop.cfg` with `Cmds <- Cmds2`, `MaxOps = 1` and the invariant `EndedIsFinal`, which fails |
| `Close` called from the poller waits for the poller (`internal/session/manager.go:317`, `776-778`) | `shell_serial.cfg` with `MayExit = TRUE`: `CloseKillsSession` fails |
| a crash inside `Reconcile` loses sessions (`internal/session/manager.go:667`) | `manager_restart.cfg` with `AckedSurvives` without `\cup Lost`, which fails; `SettledSound` fails with `{}` in the place of `omitted` |
| `pty.offset` is wrong after a truncation (`internal/shell/tmuxio/stream_reader.go:18-20`) | `stream.cfg` with `Threshold = 4`, `MaxCrashes = 0` and the invariant `ResumesExactly`, which fails |

The following were met while modelling; the properties are stated so that they allow for them.

*Shell.* A Stop takes whatever command is current after its tmux calls, and may report a later one
as ended. If `SendEnter` fails the command still runs, because the wrapper ends in a newline, while
the caller is told it failed. `enter_claude` checks for a running command and types later. Two
handlers at once take each other's `stopping` flag down, and an answer of `PaneDead` that is older
than the flag it is combined with makes the poller take a stopped bash for an exit.

*Stream.* A command admitted between an END and the truncation it starts loses its START and the
shell stays busy ("cannot strand bytes from a running command", `internal/shell/tmux_shell.go:481`;
the property `BegunKeepsOutput` therefore speaks of commands whose START was read). A crash between
the stop and the start of the pipe leaves it off. After a pod is lost, the old stream and offset are
kept, where `docs/superpowers/specs/2026-06-11-multi-session-tmux-design.md:323` has them reset: a
stale START installs a dead command. A crash after the offset and before the record seeds a command
that has ended. A crash with half a sentinel read changes the parity of the separators.

*Records.* The stop handler and the persister overwrite each other: a stopped command becomes
completed, or loses its exit code, although `internal/api/commands.go:89` stamps it first to prevent
that. A record stays running when nothing is left that
ends its command (`orphaned` in `RecordsSettle`): its Ended was dropped at a full channel, another
command took its place, or the process died before it was typed or after its END was read. A failed
`WriteOutput` is logged and the record completed without its output, a failed save of a record is
logged only (`failed`); after a restart the output is what the new process read of it. A Stop whose
respawn fails leaves no bash. With two running records after a crash (`manager.go:734`
expects at most one), the newest is seeded, which need not be the one bash runs.

*Manager.* Lists are saved in another order than they were taken: an update is lost, a closed
session comes back at the next boot (so `SettledSound` and `ClosedIsGone` are checked with one
request at a time). A Close between a reservation and its registration leaves a tmux session nobody
knows. A failing `startShell` leaves its tmux session. `EnsureClaudeConvoID` hands out an id before
it is saved, so two ids are used if it crashes there. A boot that resumes some sessions and
recreates others saves lists that lack those it has not come to, and the last of these lists stays
until the next change: `omitted` in `SettledSound`, and `Lost` in `AckedSurvives` once the process
has gone away in between.

*Approvals.* A decision that `Resolve` has accepted may still be reported as a timeout, since the
`select` takes either (`internal/claude/bridge.go:136-140`), and a late answer is recorded on the
card of a call that was denied: card and verdict differ. Of two answers the last one is on the card,
the first one counts. When a newer tab closes, the older one that is still open has no subscription,
and every call is denied (`internal/claude/dispatcher.go:69-73` gives "closed all tabs" as the
reason for that denial). A request routed to a tab that dies is shown nowhere until it times out. A
send to a channel that was just closed panics and leaves its entry in `pending`. The calls of a
closed session count as some other claude's and are let through.

*Runs.* A tab that disconnects with the result in its queue, when the slot is already free, leaves
the composer locked (`dropped` in `ComposerUnlocks`; `internal/api/ws.go:234-243` means to prevent
it). A prompt sent before the queue of the previous run is applied lets that run's result close the
new turn (`mixed` in `SoloTurnIsWhole`). `FreeSlot` and `Reap` take by session and may take another
run's slot (`stolen`). `Wait` does not wait for the parser (`internal/claude/runner.go:98`), so the
last events may be lost. A line over 1 MiB ends `ParseStream` without a word
(`internal/claude/parser.go:25-28`); a forwarder that quits on its context leaves it blocked. A
`message_delta` without a delta is a nil dereference. A second result of a tool replaces its text
and keeps its outcome. A task that was killed becomes completed by a late notification. `Pending`
and `PendingQuestions` of the state are never filled.

*Snapshots.* With a transcript, the snapshot's turns are dropped, because the ids differ
(`snapshots_tools`); a crash before the first flush shows a killed turn as completed; a merged
aborted turn becomes errored. An open turn that is not the last stays open, and what `Load` repairs
is not saved until the next change. A write that fails is not tried again before the next change. A
load that lands after `Shutdown` writes to a nil map (`internal/claudestate/manager.go:101`;
`Panic`): the HTTP layer recovers, the manager's lock stays locked and the Persister just started
runs on without an owner (`jammed` in `NoPersisterLeaks`). Events after the copy of the last write
are lost (`late`). After its five seconds `CloseNoFlush` has used up the `Once`: that Persister
never ends (`leaked` in `NoPersisterLeaks`). A late `claude_run_ended` makes a deleted session's
directory again, an old Persister's write may land in it, and its lock, in a removed directory,
excludes nobody. `Load` reads the files before the lock is taken. If the first request brings no
conversation id, the transcript is not merged until the next restart. A page before an unknown turn
is the last page.

## 7. Plan

Done: all modules of section 2, the theorems of section 4. What is left, in this order:

1. A composition of `ClaudeRuns` with `Approvals` and `ClaudeSnapshots`, so that one run interleaves
   a turn, its approvals and its snapshots.
2. `SentinelParser`: the result does not depend on how bytes are split into reads, over all splits
   of short streams.
3. `DiskWatcher`, `BgTaskLog`, `Migrate`: stop against a fired timer, a growing file, a rerun after
   a crash.
4. A definition of the scripts the CLI prints, under which `SoloTurnIsWhole` follows from
   `HearsCorrect` by the reducers alone.
