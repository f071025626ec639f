--------------------------- MODULE ClaudeSnapshots ---------------------------
(***************************************************************************)
(* The claude state of one session in the server process: SessionManager   *)
(* (internal/claudestate/manager.go) loads it on first use, hands it to    *)
(* the WebSocket loops and GET handlers, and forgets it when the session   *)
(* is deleted or the server stops; a Persister goroutine for each loaded   *)
(* state (persister.go) writes claude.json some time after a change.       *)
(*                                                                         *)
(* Writes fail only because their directory is gone.  One process runs at  *)
(* a time (the deployment's strategy is Recreate).                         *)
(***************************************************************************)
EXTENDS ClaudeLoader, FiniteSets

CONSTANTS
  Objects,    \* bound: SessionStates that a process may create
  Callers,    \* goroutines that use the state: WebSocket loops and GET handlers
  Loops,      \* the former
  MaxTurns,   \* bound on prompts
  MaxEvents,  \* bound on events
  MaxBoots,   \* bound on server processes, one after the other
  MaxDeletes, \* 1, or 0: the session is never deleted
  None

ASSUME SnapshotsAssumption ==
  /\ None \notin Objects /\ Loops \subseteq Callers /\ {MaxTurns, MaxEvents, MaxBoots} \subseteq Nat /\ MaxDeletes \in {0, 1}

VARIABLES
  proc,    \* "up", then main's way out: "finalizing", "draining", "closing"; or "down"
  boots,   \* processes so far
  closed,  \* SessionManager.closed
  jammed,  \* a panic has left SessionManager.mu locked for good
  entry,   \* sessions[sid]: an object or None
  obj,     \* each SessionState with its Persister, see Fresh
  flight,  \* the singleflight call for the session
  call,    \* what each caller is doing
  del,     \* DeleteSession, and the object it is stopping
  leaving, \* the object that main finalizes and then closes
  dir,     \* whether the session's directory is there
  snap,    \* claude.json
  tmp,     \* claude.json.tmp: a set of at most one content, none without the file
  lock,    \* who holds the flock on the directory's claude.json.lock
  deleted, \* the session has been deleted
  jsonl,   \* the transcript, written by the claude CLI
  made,    \* prompts so far
  events,  \* events so far
  begun    \* history: the turns this process began

diskVars == <<dir, snap, tmp>>
pastVars == <<deleted, jsonl, made, events, begun>>
procVars == <<proc, boots, closed, jammed, leaving>>
vars == <<procVars, entry, obj, flight, call, del, diskVars, lock, pastVars>>

\* loop: the Persister's goroutine; job: the write it is in the middle of, copy: what
\* that write saves, wrote: whether the temporary file has it.  History: changed since it was loaded, late: after the last copy
\* was taken, leaked: CloseNoFlush gave up.
Fresh == [used |-> FALSE, state |-> EmptyState, loop |-> "off", dirty |-> FALSE, timer |-> FALSE,
          job |-> "none", wrote |-> FALSE, copy |-> <<>>, changed |-> FALSE, late |-> FALSE, leaked |-> FALSE]
NoCall   == [at |-> "idle", do |-> Event("get"), obj |-> None]
NoFlight == [at |-> "none", uuid |-> FALSE, obj |-> None]
NoDelete == [at |-> "none", obj |-> None]

Running == proc # "down"
Selects(o) == obj[o].loop = "run" /\ obj[o].job = "none"

-----------------------------------------------------------------------------
(* The callers *)

\* The prompt reaches the CLI, and with it the transcript, under an id of the CLI's
\* own; and every result is there before the event is here.
Transcribed(ev) ==
  CASE ev.kind = "begin"          -> <<[type |-> "user", content |-> "prompt", uuid |-> MaxTurns + ev.id]>>
    [] ev.kind = "tool_use_start" -> <<[type |-> "assistant", items |->
                                         <<[type |-> "tool_use", id |-> ev.id, input |-> "in"]>>]>>
    [] ev.kind = "tool_result"    -> <<[type |-> "user", content |-> "results", results |->
                                         <<[id |-> ev.id, content |-> "out"]>>]>>
    [] OTHER                      -> <<>>

\* A run starts a tool, which may give its result before the run ends.
Stream == <<[kind |-> "tool_use_start", index |-> 0, id |-> "tool"],
            [kind |-> "tool_result", id |-> "tool", content |-> "out", isError |-> FALSE]>>
RunEnd == [kind |-> "claude_run_ended", text |-> "exit"]

\* What a caller wants the state for: a GET, a prompt, or an event of the stream.
Wishes(c) ==
  IF c \notin Loops THEN {Event("get")}
  ELSE {[kind |-> "begin", id |-> n] : n \in {made + 1} \cap 1..MaxTurns}
       \cup {ev \in {Stream[n] : n \in {events + 1} \cap DOMAIN Stream} \cup {RunEnd} :
              made > 0 /\ events < MaxEvents}

\* GetOrLoad's first look: a hit, or one load for all who miss.  Only a GET and the
\* events of the stream bring the CLI's uuid; nobody asks for a session that is
\* deleted except for an event that was on its way.
GetOrLoad(c, ev) ==
  /\ Running /\ call[c] = NoCall /\ ~closed
  /\ deleted => ev.kind = "claude_run_ended"
  /\ \/ entry # None /\ ev.kind # "get"
        /\ call' = [call EXCEPT ![c] = [at |-> "has", do |-> ev, obj |-> entry]] /\ UNCHANGED flight
     \/ entry = None /\ call' = [call EXCEPT ![c] = [at |-> "wait", do |-> ev, obj |-> None]]
        /\ IF flight = NoFlight
           THEN \E uuid \in IF ev.kind \in {"begin", "claude_run_ended"} THEN {FALSE} ELSE BOOLEAN :
                  flight' = [at |-> "check", uuid |-> uuid, obj |-> None]
           ELSE UNCHANGED flight
  /\ made'   = made + (IF ev.kind = "begin" THEN 1 ELSE 0)
  /\ events' = events + (IF ev.kind \in {"begin", "get"} THEN 0 ELSE 1)
  /\ jsonl'  = jsonl \o Transcribed(ev)
  /\ UNCHANGED <<procVars, entry, obj, del, diskVars, lock, deleted, begun>>

\* The flight lands: everybody who waited gets the object, or an error.
Answer(o) ==
  /\ flight' = NoFlight
  /\ call' = [c \in Callers |->
       CASE call[c].at # "wait"                                 -> call[c]
         [] call[c].at = "wait" /\ (o = None \/ call[c].do.kind = "get") -> NoCall
         [] OTHER                                               -> [call[c] EXCEPT !.at = "has", !.obj = o]]

\* In the flight: once more under the lock, ...
FlightCheck ==
  /\ flight.at = "check"
  /\ IF closed \/ entry # None THEN Answer(entry)
     ELSE flight' = [flight EXCEPT !.at = "load"] /\ UNCHANGED call
  /\ UNCHANGED <<procVars, entry, obj, del, diskVars, lock, pastVars>>

\* ... buildSession reads the files, ...
Unused == {o \in Objects : ~obj[o].used}
FlightLoad ==
  LET o == CHOOSE o \in Unused : TRUE IN
  /\ flight.at = "load" /\ Unused # {}
  /\ obj' = [obj EXCEPT ![o] = [Fresh EXCEPT !.used = TRUE,
                                  !.state = Load(snap, IF flight.uuid /\ jsonl # <<>> THEN jsonl ELSE NoFile)]]
  /\ flight' = [flight EXCEPT !.at = "lock", !.obj = o]
  /\ UNCHANGED <<procVars, entry, call, del, diskVars, lock, pastVars>>

\* ... NewPersister makes the directory, takes the lock in it and removes an orphan, ...
FlightLock ==
  LET o == flight.obj IN
  /\ flight.at = "lock" /\ dir' = TRUE
  /\ IF lock = None
     THEN /\ lock' = o /\ tmp' = {}
          /\ obj' = [obj EXCEPT ![o].loop = "run"]
          /\ flight' = [flight EXCEPT !.at = "insert"] /\ UNCHANGED call
     ELSE obj' = [obj EXCEPT ![o] = Fresh] /\ Answer(None) /\ UNCHANGED <<lock, tmp>>
  /\ UNCHANGED <<procVars, entry, del, snap, pastVars>>

\* ... and the object goes into the map.  (Nobody else can have put one there: SoleFlight.)
FlightInsert ==
  /\ flight.at = "insert" /\ ~closed
  /\ entry' = flight.obj /\ Answer(flight.obj)
  /\ UNCHANGED <<procVars, obj, del, diskVars, lock, pastVars>>

\* After Shutdown the map is nil and the write panics, under SessionManager.mu and with
\* the Persister running.  The middleware and net/http recover from the panic, in
\* the caller that loads and in those that wait: they are gone, the process is not.
Panic ==
  /\ flight.at = "insert" /\ closed
  /\ jammed' = TRUE /\ Answer(None)
  /\ UNCHANGED <<proc, boots, closed, leaving, entry, obj, del, diskVars, lock, pastVars>>

\* BeginTurn and Apply, under the state's lock ...
Changed(x, ev) ==
  [x EXCEPT !.state = IF ev.kind = "begin" THEN BeginTurn(@, ev.id) ELSE Apply(@, ev),
            !.changed = TRUE, !.late = @ \/ x.job = "close" \/ x.loop = "stopped"]

Change(c) ==
  LET o == call[c].obj IN
  /\ call[c].at = "has"
  /\ obj' = [obj EXCEPT ![o] = Changed(@, call[c].do)]
  /\ call' = [call EXCEPT ![c].at = "mark"]
  /\ begun' = IF call[c].do.kind = "begin" THEN begun \cup {call[c].do.id} ELSE begun
  /\ UNCHANGED <<procVars, entry, flight, del, diskVars, lock, deleted, jsonl, made, events>>

\* ... and, after it is unlocked, markDirty.
Mark(c) ==
  /\ call[c].at = "mark"
  /\ obj' = [obj EXCEPT ![call[c].obj].dirty = TRUE]
  /\ call' = [call EXCEPT ![c] = NoCall]
  /\ UNCHANGED <<procVars, entry, flight, del, diskVars, lock, pastVars>>

-----------------------------------------------------------------------------
(* The Persister's goroutine *)

\* Every signal restarts the timer.
TakeDirty(o) ==
  /\ Selects(o) /\ obj[o].dirty
  /\ obj' = [obj EXCEPT ![o] = [@ EXCEPT !.dirty = FALSE, !.timer = TRUE]]
  /\ UNCHANGED <<procVars, entry, flight, call, del, diskVars, lock, pastVars>>

\* writeSnapshot copies the turns first.
Writing(x, job) == [x EXCEPT !.timer = FALSE, !.job = job, !.copy = x.state.turns]

Fire(o) ==
  /\ Selects(o) /\ obj[o].timer
  /\ obj' = [obj EXCEPT ![o] = Writing(@, "timer")]
  /\ UNCHANGED <<procVars, entry, flight, call, del, diskVars, lock, pastVars>>

\* The copy goes to the temporary file, ...
WriteTmp(o) ==
  /\ obj[o].job # "none" /\ ~obj[o].wrote /\ dir
  /\ tmp' = {obj[o].copy} /\ obj' = [obj EXCEPT ![o].wrote = TRUE]
  /\ UNCHANGED <<procVars, entry, flight, call, del, dir, snap, lock, pastVars>>

\* After the write the goroutine goes on, or releases the lock and ends.
Written(x) ==
  [x EXCEPT !.job = "none", !.wrote = FALSE, !.loop = IF x.job = "close" THEN "stopped" ELSE @]

\* Deviation: signals that came during the write are taken as answered.
DoneDrains(o) ==
  /\ obj' = [obj EXCEPT ![o] = [Written(@) EXCEPT !.dirty = FALSE]]
  /\ lock' = IF obj[o].job = "close" /\ lock = o THEN None ELSE lock

Done(o) ==
  /\ obj' = [obj EXCEPT ![o] = Written(@)]
  /\ lock' = IF obj[o].job = "close" /\ lock = o THEN None ELSE lock

\* ... which is renamed, ...
Rename(o) ==
  /\ obj[o].wrote
  /\ snap' \in tmp /\ tmp' = {} /\ Done(o)
  /\ UNCHANGED <<procVars, entry, flight, call, del, dir, pastVars>>

\* ... or is gone with its directory: the error is logged, and nothing tries again.
WriteFails(o) ==
  /\ obj[o].job # "none" /\ (IF obj[o].wrote THEN tmp = {} ELSE ~dir) /\ Done(o)
  /\ UNCHANGED <<procVars, entry, flight, call, del, diskVars, pastVars>>

-----------------------------------------------------------------------------
(* Deletion: session.Manager removes the directory, then calls its listener *)

RemoveDir ==
  /\ Running /\ ~deleted /\ MaxDeletes = 1 /\ deleted' = TRUE
  /\ dir' = FALSE /\ snap' = NoFile /\ tmp' = {}
  /\ lock' = None \* the file that is locked has no name any more
  /\ del' = [at |-> "removed", obj |-> None]
  /\ UNCHANGED <<procVars, entry, obj, flight, call, jsonl, made, events, begun>>

DeleteSession ==
  /\ del.at = "removed" /\ ~jammed
  /\ del' = IF closed \/ entry = None THEN NoDelete ELSE [at |-> "stop", obj |-> entry]
  /\ entry' = IF closed THEN entry ELSE None
  /\ UNCHANGED <<procVars, obj, flight, call, diskVars, lock, pastVars>>

\* Deviation: gives up on a Persister that is busy.
StopIfIdle ==
  LET o == del.obj IN
  /\ del.at = "stop" /\ del' = NoDelete
  /\ obj' = [obj EXCEPT ![o] = IF Selects(o) THEN [@ EXCEPT !.loop = "stopped", !.timer = FALSE] ELSE @]
  /\ lock' = IF lock = o THEN None ELSE lock
  /\ UNCHANGED <<procVars, entry, flight, call, diskVars, pastVars>>

\* CloseNoFlush: the Persister ends when it comes to its select, ...
CloseNoFlush ==
  LET o == del.obj IN
  /\ del.at = "stop" /\ Selects(o) /\ del' = NoDelete
  /\ obj' = [obj EXCEPT ![o] = [@ EXCEPT !.loop = "stopped", !.timer = FALSE]]
  /\ lock' = IF lock = o THEN None ELSE lock
  /\ UNCHANGED <<procVars, entry, flight, call, diskVars, pastVars>>

\* ... or the listener's five seconds are over, and it is left running for good.
CloseTimesOut ==
  /\ del.at = "stop" /\ ~Selects(del.obj) /\ del' = NoDelete
  /\ obj' = [obj EXCEPT ![del.obj].leaked = TRUE]
  /\ UNCHANGED <<procVars, entry, flight, call, diskVars, lock, pastVars>>

-----------------------------------------------------------------------------
(* The process *)

\* main got a signal: FinalizeAllInFlight looks at every loaded state ...
Signal ==
  /\ proc = "up"
  /\ IF entry # None /\ obj[entry].state.inFlight
     THEN proc' = "finalizing" /\ leaving' = entry ELSE proc' = "draining" /\ UNCHANGED leaving
  /\ UNCHANGED <<boots, closed, jammed, entry, obj, flight, call, del, diskVars, lock, pastVars>>

\* ... and ends the turn of those that run one.
FinalizeAllInFlight ==
  /\ proc = "finalizing" /\ proc' = "draining"
  /\ obj' = [obj EXCEPT ![leaving] =
       [Changed(@, [kind |-> "claude_error", code |-> "server_shutdown"]) EXCEPT !.dirty = TRUE]]
  /\ leaving' = None
  /\ UNCHANGED <<boots, closed, jammed, entry, flight, call, del, diskVars, lock, pastVars>>

\* The HTTP server stops; its WebSocket connections live on.  Then Shutdown ...
Shutdown ==
  /\ proc = "draining" /\ proc' = "closing"
  /\ closed' = TRUE /\ leaving' = entry /\ entry' = None
  /\ UNCHANGED <<boots, jammed, obj, flight, call, del, diskVars, lock, pastVars>>

\* Deviation: no last write.
CloseQuietly ==
  LET o == leaving IN
  /\ proc = "closing" /\ o # None /\ Selects(o)
  /\ obj' = [obj EXCEPT ![o] = [@ EXCEPT !.loop = "stopped", !.timer = FALSE]]
  /\ lock' = IF lock = o THEN None ELSE lock
  /\ UNCHANGED <<procVars, entry, flight, call, del, diskVars, pastVars>>

\* ... has each Persister write once more and end.
Close ==
  /\ proc = "closing" /\ leaving # None /\ Selects(leaving)
  /\ obj' = [obj EXCEPT ![leaving] = Writing(@, "close")]
  /\ UNCHANGED <<procVars, entry, flight, call, del, diskVars, lock, pastVars>>

\* The process and all it holds is gone.
Die ==
  /\ proc' = "down" /\ closed' = FALSE /\ jammed' = FALSE /\ entry' = None /\ leaving' = None /\ lock' = None
  /\ obj' = [o \in Objects |-> Fresh] /\ flight' = NoFlight
  /\ call' = [c \in Callers |-> NoCall] /\ del' = NoDelete /\ begun' = {}
  /\ UNCHANGED <<boots, diskVars, deleted, jsonl, made, events>>

Exit == proc = "closing" /\ (leaving # None => obj[leaving].loop = "stopped") /\ Die

Crash == Running /\ Die

Boot ==
  /\ proc = "down" /\ boots < MaxBoots /\ proc' = "up" /\ boots' = boots + 1
  /\ UNCHANGED <<closed, jammed, leaving, entry, obj, flight, call, del, diskVars, lock, pastVars>>

-----------------------------------------------------------------------------

Init ==
  /\ proc = "up" /\ boots = 1 /\ closed = FALSE /\ jammed = FALSE /\ entry = None /\ leaving = None
  /\ obj = [o \in Objects |-> Fresh] /\ flight = NoFlight
  /\ call = [c \in Callers |-> NoCall] /\ del = NoDelete
  /\ dir = TRUE /\ snap = NoFile /\ tmp = {} /\ lock = None
  /\ deleted = FALSE /\ jsonl = <<>> /\ made = 0 /\ events = 0 /\ begun = {}

PersisterStep == \E o \in Objects : TakeDirty(o) \/ Fire(o) \/ WriteTmp(o) \/ Rename(o) \/ WriteFails(o)
FlightStep    == FlightCheck \/ FlightLoad \/ FlightLock \/ FlightInsert \/ Panic
CallerStep    == \E c \in Callers : Change(c) \/ Mark(c) \/ \E ev \in Wishes(c) : GetOrLoad(c, ev)
DeleteStep    == RemoveDir \/ DeleteSession \/ CloseNoFlush \/ CloseTimesOut
ProcessStep   == Signal \/ FinalizeAllInFlight \/ Shutdown \/ Close \/ Exit \/ Crash \/ Boot

Next == PersisterStep \/ FlightStep \/ CallerStep \/ DeleteStep \/ ProcessStep

Spec == Init /\ [][Next]_vars

\* A goroutine that is in the middle of a change, and those that write, are scheduled.
Progress == PersisterStep \/ \E c \in Callers : Mark(c)
FairSpec == Spec /\ WF_vars(Progress)

-----------------------------------------------------------------------------
(* Properties *)

ToolOutcomes == {"open", "completed", "errored", "aborted"}
TurnOK(turn) ==
  /\ turn.id \in 1..(2 * MaxTurns)
  /\ turn.outcome \in ToolOutcomes
  /\ \A b \in Range(turn.blocks) : b.kind = "tool" => b.outcome \in ToolOutcomes

\* A flight that is about to write to the map finds it empty, and a file that is
\* locked is locked by a Persister that runs.
SoleFlight == flight.at \in {"load", "lock", "insert"} => entry = None

TypeOK ==
  /\ proc \in {"up", "finalizing", "draining", "closing", "down"} /\ boots \in 1..MaxBoots
  /\ {closed, jammed, dir, deleted} \subseteq BOOLEAN /\ {entry, leaving, lock} \subseteq Objects \cup {None}
  /\ \A o \in Objects : /\ obj[o].loop \in {"off", "run", "stopped"}
                        /\ obj[o].job \in {"none", "timer", "close"}
                        /\ \A turn \in Range(obj[o].state.turns) : TurnOK(turn)
  /\ flight.at \in {"none", "check", "load", "lock", "insert"}
  /\ \A c \in Callers : call[c].at \in {"idle", "wait", "has", "mark"}
  /\ del.at \in {"none", "removed", "stop"}
  /\ \A file \in ({snap} \ {NoFile}) \cup tmp : \A turn \in Range(file) : TurnOK(turn)
  /\ SoleFlight /\ (lock # None => obj[lock].loop = "run")

\* After a restart nothing waits for a claude that is gone: a turn that is running,
\* and a tool without an outcome, belong to a prompt of this process.
NothingHangs ==
  \A o \in Objects :
    LET s == obj[o].state IN
    /\ s.inFlight => LastTurn(s).id \in begun
    /\ \A turn \in Range(s.turns) : turn.id \notin begun =>
         \A b \in Range(turn.blocks) : b.kind = "tool" => b.outcome # "open"

\* When a Persister has stopped for Shutdown, claude.json holds every change that
\* was made before its last write.
ShutdownFlushes ==
  proc = "closing" /\ leaving # None /\ ~deleted /\ obj[leaving].loop = "stopped" /\ ~obj[leaving].late
    => snap = obj[leaving].state.turns

\* No goroutine, and no lock, outlives its session: a Persister runs for the map, for
\* the flight, or for somebody who is stopping it.  Two ways out are known: the deletion
\* of its session gave up on it, and a server that is shutting down panicked over it.
NoPersisterLeaks ==
  \A o \in Objects : obj[o].loop = "run" =>
    \/ o \in {entry, flight.obj, del.obj, leaving}
    \/ deleted /\ obj[o].leaked
    \/ proc = "closing" /\ jammed

\* When changes stop, claude.json comes to hold the state of the session.
OnDisk == \A o \in Objects : entry = o /\ obj[o].changed /\ ~deleted => snap = obj[o].state.turns
ChangesReachDisk == []<>OnDisk

\* "the loaded tool matches what the live reducer produced": a tool whose outcome is
\* in claude.json has it after the next load.
LoadedToolMatches ==
  [][\A o \in Objects : obj'[o].used /\ ~obj[o].used /\ snap # NoFile =>
       \A turn \in Range(obj'[o].state.turns), old \in Range(snap) :
       \A b \in Range(turn.blocks), c \in Range(old.blocks) :
         b.kind = "tool" /\ c.kind = "tool" /\ b.id = c.id /\ c.outcome # "open"
           => b.outcome = c.outcome]_vars

=============================================================================
