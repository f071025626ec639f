--------------------------- MODULE CommandRecords ---------------------------
(***************************************************************************)
(* The record of a command (internal/store/store.go) and everybody who     *)
(* writes it: handleRun (internal/api/ws.go) before the shell has admitted *)
(* the command, StopCommandHandler (internal/api/commands.go) before it    *)
(* stops it, the persister of the session's events (Manager.startPersister)*)
(* when it has ended, and the sweep of a boot that finds no bash.  Nobody  *)
(* holds a lock from reading a record to saving it.                        *)
(*                                                                         *)
(* The shell is TmuxShell cut down to what the records depend on: its      *)
(* current command, the sentinels it has not read, the events it publishes.*)
(* A sentinel counts as read once; PtyStream has the cases where it is not.*)
(***************************************************************************)
EXTENDS Naturals, Sequences, FiniteSets, Functions

CONSTANTS
  Cmds,       \* bound: run frames
  Handlers,   \* bound: stop requests under way at a time
  MaxStops,   \* bound: stop requests
  QueueCap,   \* the persister's subscription, 64 events
  Faults,     \* what may happen: "process" or "pod" goes away, the tmux calls "text",
              \* "enter" or "stop" or a write to the "disk" fails
  MaxFaults,  \* bound: how often in all
  None

ASSUME RecordsAssumption ==
  /\ QueueCap \in Nat \ {0} /\ MaxStops \in Nat /\ MaxFaults \in Nat
  /\ Faults \subseteq {"process", "pod", "text", "enter", "stop", "disk"}
  /\ None \notin Cmds \cup {"started"} /\ "started" \notin Cmds

VARIABLES
  up, live, \* the server has attached to the session; tmux has it
  rec,      \* commands/<id>.json, None where there is no file
  out,      \* the commands that have outputs/<id>.log
  asked,    \* the run frames served so far, in their order
  run, rrec, \* each run frame's place in handleRun, and the record its rollback has read
  cur,      \* ts.currentCmd
  typed,    \* what was typed and bash has not started
  bash,     \* what bash is running
  dead,     \* a Stop has killed bash and failed to respawn it
  tail,     \* sentinels in pty.stream, not read yet
  queue,    \* the persister's channel
  ppc, pcmd, prec, \* the persister, its command, the record it has read
  hpc, hcmd, hrec, \* the same for each stop handler
  stops, faults,   \* bounded counters
  orphaned, \* history: commands left with nothing that ends them: their Ended found the
            \* channel full, another command took their place, or the process died
  failed    \* history: commands of which a record or an output could not be written

shellVars == <<cur, typed, bash, dead, tail>>
persVars  == <<ppc, pcmd, prec>>
stopVars  == <<hpc, hcmd, hrec, stops>>
diskVars  == <<rec, out>>
runVars   == <<asked, run, rrec>>
faultVars == <<up, live, faults>>
histVars  == <<orphaned, failed>>
vars == <<faultVars, diskVars, runVars, shellVars, queue, persVars, stopVars, histVars>>

Statuses == {"running", "completed", "stopped", "interrupted"}
Record   == [status : Statuses, exit : {None, "code", "killed"}]
Event    == [cmd : Cmds \cup {"started"}, exit : {None, "code", "killed"}]

\* None is told from what a file, a channel or a variable may hold.
ASSUME NoneAssumption == None \notin Record \cup Event \cup {"code", "killed"}

Started     == [cmd |-> "started", exit |-> None]
Ended(c, e) == [cmd |-> c, exit |-> e]
Is(c, s)    == rec[c] # None /\ rec[c].status = s

Fault(kind) == kind \in Faults /\ faults < MaxFaults /\ faults' = faults + 1

DiskFails(c) == Fault("disk") /\ failed' = failed \cup {c}

\* The error of a save is ignored, or logged: the handler goes on.
SaveRec(c, r) ==
  \/ rec' = [rec EXCEPT ![c] = r] /\ UNCHANGED <<faults, failed>>
  \/ UNCHANGED rec /\ DiskFails(c)

\* Publish never waits: a full subscriber misses the event.
Full == Len(queue) = QueueCap
Publish(e) == queue' = IF Full THEN queue ELSE Append(queue, e)
Missed(c)  == IF Full THEN {c} ELSE {}

Orphans(cs) == orphaned' = orphaned \cup (cs \ {None})

-----------------------------------------------------------------------------
(* handleRun *)

RunAt(c, p, q) == run[c] = p /\ run' = [run EXCEPT ![c] = q]

\* The id of the next frame; which one it is does not matter.
Minted == CHOOSE c \in Cmds : run[c] = "new"

\* The record is saved as running before Write is tried, ...
RunSave(c) ==
  /\ up /\ RunAt(c, "new", "write") /\ c = Minted
  /\ SaveRec(c, [status |-> "running", exit |-> None]) /\ asked' = Append(asked, c)
  /\ UNCHANGED <<up, live, out, rrec, shellVars, queue, persVars, stopVars, orphaned>>

\* ... which reserves the shell or finds it busy, ...
RunAdmit(c) ==
  /\ up
  /\ \/ RunAt(c, "write", "send") /\ cur = None /\ cur' = c
     \/ RunAt(c, "write", "rollback") /\ cur # None /\ UNCHANGED cur
  /\ UNCHANGED <<faultVars, diskVars, asked, rrec, typed, bash, dead, tail, queue, persVars, stopVars, histVars>>

\* A dead pane takes no keys.
Types(c) == typed' = IF dead THEN typed ELSE Append(typed, c)

\* ... and types the command.  SendText or, when the command is typed already,
\* SendEnter may fail; bash does not wait for this Enter.
RunSend(c) ==
  /\ up
  /\ \/ RunAt(c, "send", "done") /\ Types(c) /\ UNCHANGED faults
     \/ RunAt(c, "send", "release") /\ Fault("text") /\ UNCHANGED typed
     \/ RunAt(c, "send", "release") /\ Fault("enter") /\ Types(c)
  /\ UNCHANGED <<up, live, diskVars, asked, rrec, cur, bash, dead, tail, queue, persVars, stopVars, histVars>>

\* When a tmux call has failed the shell is free again, whoever is current by then, ...
RunRelease(c) ==
  /\ up /\ RunAt(c, "release", "rollback") /\ cur' = None /\ Orphans({cur} \ {c})
  /\ UNCHANGED <<faultVars, diskVars, asked, rrec, typed, bash, dead, tail, queue, persVars, stopVars, failed>>

\* ... and after any error of Write the record is read again and becomes interrupted.
RollbackGet(c) ==
  /\ up
  /\ IF rec[c] = None THEN RunAt(c, "rollback", "done") /\ UNCHANGED rrec
     ELSE RunAt(c, "rollback", "interrupt") /\ rrec' = [rrec EXCEPT ![c] = rec[c]]
  /\ UNCHANGED <<faultVars, diskVars, asked, shellVars, queue, persVars, stopVars, histVars>>

RollbackSave(c) ==
  /\ up /\ RunAt(c, "interrupt", "done")
  /\ SaveRec(c, [rrec[c] EXCEPT !.status = "interrupted"]) /\ rrec' = [rrec EXCEPT ![c] = None]
  /\ UNCHANGED <<up, live, out, asked, shellVars, queue, persVars, stopVars, orphaned>>

-----------------------------------------------------------------------------
(* bash and the read loop *)

BashStarts ==
  /\ live /\ ~dead /\ bash = None /\ typed # <<>>
  /\ bash' = Head(typed) /\ typed' = Tail(typed)
  /\ tail' = Append(tail, <<"start", bash'>>)
  /\ UNCHANGED <<faultVars, diskVars, runVars, cur, dead, queue, persVars, stopVars, histVars>>

BashEnds ==
  /\ bash # None /\ bash' = None
  /\ tail' = Append(tail, <<"end", bash>>)
  /\ UNCHANGED <<faultVars, diskVars, runVars, cur, typed, dead, queue, persVars, stopVars, histVars>>

\* onParserEvent: START installs its command, END ends the one that is current.
\* The Started event takes a slot of the channel; so do the chunks of output that
\* follow it, which are left out.
ReadSentinel ==
  /\ up /\ tail # <<>> /\ tail' = Tail(tail)
  /\ LET c == Head(tail)[2] IN
       CASE Head(tail)[1] = "start" -> cur' = c /\ Publish(Started) /\ Orphans({cur} \ {c})
         [] cur = None              -> UNCHANGED <<cur, queue, orphaned>>
         [] OTHER                   -> /\ cur' = None /\ Publish(Ended(c, "code"))
                                       /\ Orphans(({cur} \ {c}) \cup Missed(c))
  /\ UNCHANGED <<faultVars, diskVars, runVars, typed, bash, dead, persVars, stopVars, failed>>

-----------------------------------------------------------------------------
(* The persister *)

\* Deviation: the output is not written.
PersistTakeOnly ==
  /\ up /\ ppc = "idle" /\ queue # <<>> /\ queue' = Tail(queue)
  /\ IF Head(queue).cmd = "started" THEN UNCHANGED <<ppc, pcmd>>
     ELSE ppc' = "get" /\ pcmd' = Head(queue)
  /\ UNCHANGED <<faultVars, diskVars, runVars, shellVars, prec, stopVars, histVars>>

\* WriteOutput: what the shell has read since the command is current, after a
\* resume the tail only; its error is logged.
WriteOutput(c) ==
  \/ out' = out \cup {c} /\ UNCHANGED <<faults, failed>>
  \/ UNCHANGED out /\ DiskFails(c)

\* Everything but an Ended is skipped; the output is written first.
PersistTake ==
  /\ up /\ ppc = "idle" /\ queue # <<>> /\ queue' = Tail(queue)
  /\ IF Head(queue).cmd = "started" THEN UNCHANGED <<ppc, pcmd, out, faults, failed>>
     ELSE ppc' = "get" /\ pcmd' = Head(queue) /\ WriteOutput(Head(queue).cmd)
  /\ UNCHANGED <<up, live, rec, runVars, shellVars, prec, stopVars, orphaned>>

PersistGet ==
  /\ up /\ ppc = "get"
  /\ IF rec[pcmd.cmd] = None THEN ppc' = "idle" /\ pcmd' = None /\ UNCHANGED prec
     ELSE ppc' = "save" /\ prec' = rec[pcmd.cmd] /\ UNCHANGED pcmd
  /\ UNCHANGED <<faultVars, diskVars, runVars, shellVars, queue, stopVars, histVars>>

\* A record that was running when it was read is completed; the others keep
\* their status and get the exit code.
PersistSave ==
  /\ up /\ ppc = "save" /\ ppc' = "idle" /\ pcmd' = None /\ prec' = None
  /\ SaveRec(pcmd.cmd, [status |-> IF prec.status = "running" THEN "completed" ELSE prec.status,
                        exit |-> pcmd.exit])
  /\ UNCHANGED <<up, live, out, runVars, shellVars, queue, stopVars, orphaned>>

-----------------------------------------------------------------------------
(* StopCommandHandler and TmuxShell.Stop *)

StopAt(h, p, q) == hpc[h] = p /\ hpc' = [hpc EXCEPT ![h] = q]

\* The request names the current command; otherwise it is refused.
StopCheck(h) ==
  /\ up /\ StopAt(h, "idle", "get") /\ cur # None /\ stops < MaxStops
  /\ stops' = stops + 1 /\ hcmd' = [hcmd EXCEPT ![h] = cur]
  /\ UNCHANGED <<faultVars, diskVars, runVars, shellVars, queue, persVars, hrec, histVars>>

StopGet(h) ==
  /\ up /\ StopAt(h, "get", "save")
  /\ hrec' = [hrec EXCEPT ![h] = rec[hcmd[h]]]
  /\ UNCHANGED <<faultVars, diskVars, runVars, shellVars, queue, persVars, hcmd, stops, histVars>>

\* Deviation: the record is saved without the new status.
StopSaveUnstamped(h) ==
  /\ up /\ StopAt(h, "save", "kill")
  /\ SaveRec(hcmd[h], hrec[h])
  /\ hcmd' = [hcmd EXCEPT ![h] = None] /\ hrec' = [hrec EXCEPT ![h] = None]
  /\ UNCHANGED <<up, live, out, runVars, shellVars, queue, persVars, stops, orphaned>>

\* Stamp the record as it was read.
StopSave(h) ==
  /\ up /\ StopAt(h, "save", "kill")
  /\ IF hrec[h] = None THEN UNCHANGED <<rec, faults, failed>> ELSE SaveRec(hcmd[h], [hrec[h] EXCEPT !.status = "stopped"])
  /\ hcmd' = [hcmd EXCEPT ![h] = None] /\ hrec' = [hrec EXCEPT ![h] = None]
  /\ UNCHANGED <<up, live, out, runVars, shellVars, queue, persVars, stops, orphaned>>

\* What bash runs or is about to read goes with it.
KillsBash == bash' = None /\ typed' = <<>>
Killed    == Range(typed) \cup {bash}

\* Kill and respawn bash, if any command is current, which need not be what bash runs.
\* A failure leaves bash as it is, dead, or new and not configured.
StopKill(h) ==
  /\ up
  /\ \/ cur = None /\ StopAt(h, "kill", "idle") /\ UNCHANGED <<bash, typed, dead, orphaned, faults>>
     \/ /\ cur # None /\ StopAt(h, "kill", "publish") /\ UNCHANGED faults
        /\ KillsBash /\ Orphans(Killed \ {cur}) /\ dead' = FALSE
     \/ /\ cur # None /\ Fault("stop") /\ StopAt(h, "kill", "idle")
        /\ \/ UNCHANGED <<bash, typed, dead, orphaned>>
           \/ KillsBash /\ Orphans(Killed) /\ dead' \in BOOLEAN
  /\ UNCHANGED <<up, live, diskVars, runVars, cur, tail, queue, persVars, hcmd, hrec, stops, failed>>

\* Report whatever is current now as ended.
StopPublish(h) ==
  /\ up /\ StopAt(h, "publish", "idle") /\ cur' = None
  /\ IF cur = None THEN UNCHANGED <<queue, orphaned>> ELSE Publish(Ended(cur, "killed")) /\ Orphans(Missed(cur))
  /\ UNCHANGED <<failed, faultVars, diskVars, runVars, typed, bash, dead, tail, persVars, hcmd, hrec, stops>>

-----------------------------------------------------------------------------
(* Crashes and restarts *)

Gone ==
  /\ up /\ up' = FALSE
  /\ cur' = None /\ queue' = <<>> /\ ppc' = "idle" /\ pcmd' = None /\ prec' = None
  /\ run' = [c \in Cmds |-> IF run[c] = "new" THEN "new" ELSE "done"]
  /\ rrec' = [c \in Cmds |-> None]
  /\ hpc' = [h \in Handlers |-> "idle"] /\ hcmd' = [h \in Handlers |-> None]
  /\ hrec' = [h \in Handlers |-> None]
  /\ UNCHANGED <<diskVars, asked, tail, stops, failed>>

\* Something of the command is still between the keyboard and the parser.
ToCome(c) == c \in Range(typed) \/ bash = c \/ <<"end", c>> \in Range(tail)

ProcessGone ==
  /\ Fault("process") /\ Gone /\ UNCHANGED <<live, bash, typed, dead>>
  /\ Orphans({c \in Cmds : Is(c, "running") /\ ~ToCome(c)})
PodGone ==
  /\ Fault("pod") /\ Gone /\ live' = FALSE /\ bash' = None /\ typed' = <<>> /\ dead' = FALSE
  /\ UNCHANGED orphaned

\* Deviation: a resumed shell starts without a current command.
SeedNothing == None

\* resumeShell: the newest record that is running becomes the current command.
Seed ==
  LET rs == {i \in DOMAIN asked : Is(asked[i], "running")}
  IN IF rs = {} THEN None ELSE asked[CHOOSE i \in rs : \A j \in rs : j <= i]

Resume ==
  /\ ~up /\ live /\ up' = TRUE /\ cur' = Seed
  /\ IF cur' = None THEN UNCHANGED orphaned ELSE Orphans({c \in Cmds : Is(c, "running")} \ {cur'})
  /\ UNCHANGED <<live, faults, diskVars, runVars, typed, bash, dead, tail, queue, persVars, stopVars, failed>>

\* SweepRunningToInterrupted.
Sweep ==
  [c \in Cmds |-> IF Is(c, "running") THEN [rec[c] EXCEPT !.status = "interrupted"] ELSE rec[c]]

Recreate ==
  /\ ~up /\ ~live /\ up' = TRUE /\ live' = TRUE /\ rec' = Sweep
  /\ UNCHANGED <<faults, out, runVars, shellVars, queue, persVars, stopVars, histVars>>

-----------------------------------------------------------------------------
Init ==
  /\ up = TRUE /\ live = TRUE /\ rec = [c \in Cmds |-> None] /\ out = {}
  /\ asked = <<>> /\ run = [c \in Cmds |-> "new"] /\ rrec = [c \in Cmds |-> None]
  /\ cur = None /\ typed = <<>> /\ bash = None /\ dead = FALSE /\ tail = <<>> /\ queue = <<>>
  /\ ppc = "idle" /\ pcmd = None /\ prec = None
  /\ hpc = [h \in Handlers |-> "idle"] /\ hcmd = [h \in Handlers |-> None]
  /\ hrec = [h \in Handlers |-> None]
  /\ stops = 0 /\ faults = 0 /\ orphaned = {} /\ failed = {}

HandleRun(c) ==
  RunAdmit(c) \/ RunSend(c) \/ RunRelease(c) \/ RollbackGet(c) \/ RollbackSave(c)
Shell        == BashStarts \/ BashEnds \/ ReadSentinel
Persister    == PersistTake \/ PersistGet \/ PersistSave
StopCommand(h) == StopGet(h) \/ StopSave(h) \/ StopKill(h) \/ StopPublish(h)
Restart      == Resume \/ Recreate

Next ==
  \/ \E c \in Cmds : RunSave(c) \/ HandleRun(c)
  \/ \E h \in Handlers : StopCheck(h) \/ StopCommand(h)
  \/ Shell \/ Persister \/ ProcessGone \/ PodGone \/ Restart

Spec == Init /\ [][Next]_vars

\* What goes on by itself: request goroutines, the read loop, the persister, bash,
\* and the supervisor that starts the process again.
Progress ==
  \/ Shell \/ Persister \/ Restart
  \/ \E c \in Cmds : HandleRun(c)
  \/ \E h \in Handlers : StopCommand(h)

\* Weaker than fairness to each of them, and enough: the bounds leave no infinite run.
FairSpec == Spec /\ WF_vars(Progress)

-----------------------------------------------------------------------------
(* Properties *)

\* Every variable keeps its type.
TypeRecords ==
  /\ rec \in [Cmds -> Record \cup {None}] /\ out \subseteq Cmds /\ asked \in Seq(Cmds)
  /\ run \in [Cmds -> {"new", "write", "send", "release", "rollback", "interrupt", "done"}]
  /\ rrec \in [Cmds -> Record \cup {None}]

TypeShell ==
  /\ up \in BOOLEAN /\ live \in BOOLEAN /\ dead \in BOOLEAN
  /\ cur \in Cmds \cup {None} /\ bash \in Cmds \cup {None}
  /\ typed \in Seq(Cmds) /\ tail \in Seq({"start", "end"} \X Cmds)

TypeHistory == orphaned \subseteq Cmds /\ failed \subseteq Cmds /\ faults \in 0..MaxFaults

TypePersister ==
  /\ queue \in Seq(Event) /\ Len(queue) <= QueueCap
  /\ ppc \in {"idle", "get", "save"} /\ pcmd \in Event \cup {None} /\ prec \in Record \cup {None}

TypeStop ==
  /\ hpc \in [Handlers -> {"idle", "get", "save", "kill", "publish"}] /\ stops \in 0..MaxStops
  /\ hcmd \in [Handlers -> Cmds \cup {None}] /\ hrec \in [Handlers -> Record \cup {None}]

TypeOK == TypeRecords /\ TypeShell /\ TypeHistory /\ TypePersister /\ TypeStop

\* A completed record tells the exit code, and the output (after a restart, what the
\* new process read of it) was on disk before it, whoever wrote the record in between
\* and wherever the process died, unless a write for the command failed.
CompletedHasResult ==
  \A c \in Cmds : Is(c, "completed") => rec[c].exit # None /\ c \in out \cup failed

\* Nobody's stale copy makes a record that had left "running" running again.
NeverRunningAgain ==
  [][\A c \in Cmds : rec[c] # None /\ ~Is(c, "running") => rec'[c] # None /\ rec'[c].status # "running"]_vars

\* The ways in which a record is known to stay running for ever: its Ended found
\* the persister's channel full; another command took its place, by its START, by its
\* END, when Stop killed bash, when a failed send was released or when the shell was seeded;
\* the process died before it was typed, or after its END was read; the disk failed.
Excused == orphaned \cup failed

\* A record does not stay running for ever, unless a Stop leaves no bash behind.
\* After a crash of the process alone the command goes on in tmux, and what
\* is seeded from its record ends it; after the loss of the pod the sweep does.
RecordsSettle ==
  \A c \in Cmds : Is(c, "running") ~> (~Is(c, "running") \/ dead \/ c \in Excused)

=============================================================================
