------------------------------ MODULE Manager ------------------------------
(***************************************************************************)
(* The session manager (internal/session/manager.go): the sessions it      *)
(* holds in memory, the tmux sessions and directories that back them, the  *)
(* list it keeps in sessions.json, and the boot that reconciles the three  *)
(* after the process, or the whole pod, went away.                         *)
(*                                                                         *)
(* Workers are request goroutines, each running one Manager operation at a *)
(* time; a step is a critical section of m.mu, a call that changes tmux or *)
(* the disk, or a step of SessionsFile.Save.  Boot is Reconcile's goroutine*)
(***************************************************************************)
EXTENDS Naturals, Sequences, FiniteSets

CONSTANTS
  Sessions,    \* bound: session ids (ULIDs) that can ever be minted
  Workers,     \* request goroutines
  Boot,        \* the goroutine that runs Reconcile
  Convos,      \* bound: Claude conversation ids that can be generated
  Options,     \* what entering Claude sets, in the order Reconcile resets it
  MaxSessions, \* Config.MaxSessions
  MaxOps,      \* bound: operations started
  Crashes,     \* what may go away: "process", "pod"
  MaxCrashes,  \* bound: how often
  MayExit,     \* may a session's bash exit on its own?
  TmuxFails,   \* may starting a tmux session fail?
  Inodes, IOFails, None, Empty, Torn

VARIABLES
  up,       \* the process: "down", "boot" or "serving"
  metas,    \* m.metas: session id -> meta
  shells,   \* m.shells: the ids that have a TmuxShell
  tmux,     \* the tmux sessions that exist
  dirs,     \* the session directories that exist
  pc,       \* each goroutine's place in its operation
  arg,      \* the session it works on
  recap,    \* is its Create part of CreateOrGetRecapSession?
  orphans,  \* the older recap sessions it still has to close
  convo,    \* the conversation id it has generated
  todo,     \* Reconcile: stored sessions not yet handled
  loaded,   \* Reconcile: the list it found in sessions.json
  live,     \* Reconcile: the tmux sessions listed at its start
  reset,    \* Reconcile: options of arg[Boot] already reset
  minted,   \* the session ids handed out so far, in order of creation
  uuids,    \* the conversation ids generated so far
  ops, crashes, \* bounded counters
  acked,    \* history: sessions whose creation was reported
  closing,  \* history: sessions somebody asked to close, or whose bash exited
  notified, \* history: sessions whose close listeners were called
  handed,   \* history: conversation ids returned by EnsureClaudeConvoID
  omitted,  \* history: sessions that a save of Reconcile left out, and no save has brought back
  spc, want, fd, saved, tmp, final, content \* see SessionsFile

Goroutines == Workers \cup {Boot}
OptionSet  == {Options[i] : i \in DOMAIN Options}
Meta       == [kind : {"chat", "recap"}, convo : Convos \cup {None}, opts : SUBSET OptionSet]
MetaLists  == UNION {[S -> Meta] : S \in SUBSET Sessions}

File == INSTANCE SessionsFile WITH Writers <- Goroutines, Lists <- MetaLists

memVars  == <<metas, shells>>
worldVars == <<tmux, dirs>>
callVars == <<arg, recap, orphans, convo>>
bootVars == <<up, loaded, todo, live, reset>>
boundVars == <<minted, uuids, ops, crashes>>
histVars == <<acked, closing, notified, handed, omitted>>
saveVars == <<spc, want, fd, saved, tmp, final, content>>
vars == <<memVars, worldVars, pc, callVars, bootVars, boundVars, histVars, saveVars>>

ASSUME ManagerAssumption ==
  /\ MaxSessions \in Nat \ {0} /\ Boot \notin Workers
  /\ Options \in Seq(STRING) /\ None \notin Convos
  /\ {None, Empty, Torn} \cap MetaLists = {} /\ Empty # Torn /\ None \notin Inodes

At(w, p)   == pc[w] = p
GoTo(w, p) == pc' = [pc EXCEPT ![w] = p]
Step(w, p, q) == At(w, p) /\ GoTo(w, q)

Known == DOMAIN metas
NewMeta == [kind |-> "chat", convo |-> None, opts |-> {}]
With(s, m) == [t \in Known \cup {s} |-> IF t = s THEN m ELSE metas[t]]
Without(s) == [t \in Known \ {s} |-> metas[t]]

\* Lists are sorted by time of creation.
Age(s) == CHOOSE i \in DOMAIN minted : minted[i] = s
Newest(S) == CHOOSE s \in S : \A t \in S : Age(t) <= Age(s)

\* What the next boot would find.
StoredIds == IF File!Stored \in {None, Empty, Torn} THEN {} ELSE DOMAIN File!Stored

\* Save hands its list to the file; Returned waits for it to come back.
Persist(w, list) == File!Save(w, list)
Returned(w) == spc[w] = "idle"

\* An operation starts: a request reaches an idle worker of a serving process.
Request(w, p) ==
  /\ up = "serving" /\ w \in Workers /\ ops < MaxOps
  /\ Step(w, "idle", p) /\ ops' = ops + 1

-----------------------------------------------------------------------------
(* Create *)

\* Deviation: the limit counts the shells already started.
ReserveByShells(w, s) ==
  /\ s \notin {minted[i] : i \in DOMAIN minted}
  /\ Cardinality(shells) < MaxSessions
  /\ metas' = With(s, NewMeta)
  /\ arg' = [arg EXCEPT ![w] = s]
  /\ minted' = Append(minted, s)

\* Reserve the slot, or report ErrSessionLimit.
Reserve(w, s) ==
  /\ s \notin {minted[i] : i \in DOMAIN minted}
  /\ Cardinality(Known) < MaxSessions
  /\ metas' = With(s, NewMeta)
  /\ arg' = [arg EXCEPT ![w] = s]
  /\ minted' = Append(minted, s)

CreateReserve(w, s) ==
  /\ Request(w, "startDirs") /\ Reserve(w, s)
  /\ recap' = [recap EXCEPT ![w] = FALSE]
  /\ UNCHANGED <<shells, worldVars, orphans, convo, bootVars, uuids, crashes, histVars, saveVars>>

\* startShell: EnsureSessionDirs, ...
StartDirs(w) ==
  /\ Step(w, "startDirs", "startTmux")
  /\ dirs' = dirs \cup {arg[w]}
  /\ UNCHANGED <<memVars, tmux, callVars, bootVars, boundVars, histVars, saveVars>>

\* ... TmuxShell.Start: a failure before or after the tmux session exists, ...
StartTmux(w) ==
  /\ At(w, "startTmux")
  /\ \/ arg[w] \in dirs /\ tmux' = tmux \cup {arg[w]} /\ GoTo(w, "register")
     \/ (TmuxFails \/ arg[w] \notin dirs) /\ tmux' = tmux \cup {arg[w]} /\ GoTo(w, "unreserve")
     \/ TmuxFails /\ UNCHANGED tmux /\ GoTo(w, "unreserve")
  /\ UNCHANGED <<memVars, dirs, callVars, bootVars, boundVars, histVars, saveVars>>

\* Deviation: the slot of a session that did not start stays reserved.
SlotKept(w) ==
  /\ Step(w, "unreserve", "idle")
  /\ UNCHANGED <<memVars, worldVars, callVars, bootVars, boundVars, histVars, saveVars>>

CreateUnreserve(w) ==
  /\ Step(w, "unreserve", "idle")
  /\ metas' = Without(arg[w])
  /\ UNCHANGED <<shells, worldVars, callVars, bootVars, boundVars, histVars, saveVars>>

\* ... and registration of the shell.
Register(w) ==
  /\ Step(w, "register", "createSave")
  /\ shells' = shells \cup {arg[w]}
  /\ UNCHANGED <<metas, worldVars, callVars, bootVars, boundVars, histVars, saveVars>>

\* persistMetas: a snapshot under m.mu, saved after m.mu is released.
CreateSave(w) ==
  /\ Step(w, "createSave", "createReturn") /\ Persist(w, metas)
  /\ UNCHANGED <<memVars, worldVars, callVars, bootVars, boundVars, histVars>>

\* Deviation: the creation is reported while its list is being saved.
CreateReturnEarly(w) ==
  /\ Step(w, "createReturn", IF recap[w] THEN "recapTag" ELSE "idle")
  /\ acked' = acked \cup {arg[w]}
  /\ UNCHANGED <<memVars, worldVars, callVars, bootVars, boundVars, closing, notified, handed, omitted, saveVars>>

CreateReturn(w) ==
  /\ At(w, "createReturn") /\ Returned(w)
  /\ IF saved[w]
     THEN /\ acked' = acked \cup {arg[w]} /\ UNCHANGED memVars
          /\ GoTo(w, IF recap[w] THEN "recapTag" ELSE "idle")
     ELSE /\ UNCHANGED acked
          /\ metas' = Without(arg[w]) /\ shells' = shells \ {arg[w]}
          /\ GoTo(w, IF arg[w] \in shells THEN "rollback" ELSE "idle")
  /\ UNCHANGED <<worldVars, callVars, bootVars, boundVars, closing, notified, handed, omitted, saveVars>>

\* The rollback closes the shell outside m.mu.
CreateRollback(w) ==
  /\ Step(w, "rollback", "idle")
  /\ tmux' = tmux \ {arg[w]}
  /\ UNCHANGED <<memVars, dirs, callVars, bootVars, boundVars, histVars, saveVars>>

-----------------------------------------------------------------------------
(* CreateOrGetRecapSession *)

Recaps == {s \in Known : metas[s].kind = "recap"}

\* Scan; return the newest and close the others, or create one.
RecapScan(w) ==
  /\ Recaps # {} /\ Request(w, "recapOrphans")
  /\ orphans' = [orphans EXCEPT ![w] = Recaps \ {Newest(Recaps)}]
  /\ UNCHANGED <<memVars, worldVars, arg, recap, convo, bootVars, minted, uuids, crashes, histVars, saveVars>>

RecapAbsent(w) ==
  /\ Recaps = {} /\ Request(w, "recapCreate")
  /\ UNCHANGED <<memVars, worldVars, callVars, bootVars, minted, uuids, crashes, histVars, saveVars>>

RecapReserve(w, s) ==
  /\ Step(w, "recapCreate", "startDirs") /\ Reserve(w, s)
  /\ recap' = [recap EXCEPT ![w] = TRUE]
  /\ UNCHANGED <<shells, worldVars, orphans, convo, bootVars, uuids, ops, crashes, histVars, saveVars>>

RecapRefused(w) ==
  /\ Step(w, "recapCreate", "idle") /\ Cardinality(Known) >= MaxSessions
  /\ UNCHANGED <<memVars, worldVars, callVars, bootVars, boundVars, histVars, saveVars>>

\* The kind is set after Create has returned, and saved a second time.
RecapTag(w) ==
  /\ Step(w, "recapTag", "recapSave")
  /\ metas' = IF arg[w] \in Known THEN With(arg[w], [metas[arg[w]] EXCEPT !.kind = "recap"]) ELSE metas
  /\ UNCHANGED <<shells, worldVars, callVars, bootVars, boundVars, histVars, saveVars>>

\* Deviation: the kind is set after Create saved the list, and not saved again.
RecapNotSaved(w) ==
  /\ Step(w, "recapSave", "return")
  /\ UNCHANGED <<memVars, worldVars, callVars, bootVars, boundVars, histVars, saveVars>>

RecapSave(w) ==
  /\ Step(w, "recapSave", "return") /\ Persist(w, metas)
  /\ UNCHANGED <<memVars, worldVars, callVars, bootVars, boundVars, histVars>>

-----------------------------------------------------------------------------
(* mutateAndPersist *)

Return(w) ==
  /\ Step(w, "return", "idle") /\ Returned(w)
  /\ UNCHANGED <<memVars, worldVars, callVars, bootVars, boundVars, histVars, saveVars>>

\* Change one session's meta and take the snapshot in one critical section.
MutateAndPersist(w, s, m) ==
  /\ s \in Known
  /\ metas' = With(s, m) /\ Persist(w, With(s, m))

\* SetMode, SetRenderer, SetClaudeBypass, SetTemplateID: set or clear one option.
SetOption(w, s, o, on) ==
  /\ s \in Known /\ Request(w, "return")
  /\ MutateAndPersist(w, s, [metas[s] EXCEPT !.opts = IF on THEN @ \cup {o} ELSE @ \ {o}])
  /\ UNCHANGED <<shells, worldVars, callVars, bootVars, minted, uuids, crashes, histVars>>

\* EnsureClaudeConvoID: return the id there is, or generate one, ...
EnsureConvo(w, s) ==
  /\ s \in Known
  /\ IF metas[s].convo # None
     THEN /\ Request(w, "idle") /\ UNCHANGED <<arg, convo, uuids>>
          /\ handed' = [handed EXCEPT ![s] = @ \cup {metas[s].convo}]
     ELSE /\ Request(w, "convoSet") /\ arg' = [arg EXCEPT ![w] = s]
          /\ \E u \in Convos \ uuids :
               convo' = [convo EXCEPT ![w] = u] /\ uuids' = uuids \cup {u}
          /\ UNCHANGED handed
  /\ UNCHANGED <<memVars, worldVars, recap, orphans, bootVars, minted, crashes,
                 acked, closing, notified, omitted, saveVars>>

\* ... install it if there is still none, ...
ConvoInstalled(w) == [metas[arg[w]] EXCEPT !.convo = IF @ = None THEN convo[w] ELSE @]

ConvoSet(w) ==
  /\ \/ /\ Step(w, "convoSet", "convoReturn")
        /\ MutateAndPersist(w, arg[w], ConvoInstalled(w))
     \/ /\ Step(w, "convoSet", "idle")
        /\ arg[w] \notin Known /\ UNCHANGED <<metas, saveVars>>
  /\ UNCHANGED <<shells, worldVars, callVars, bootVars, boundVars, histVars>>

\* Deviation: the caller gets the id it generated.
ConvoReturnOwn(w) ==
  /\ Step(w, "convoReturn", "idle") /\ Returned(w)
  /\ handed' = [handed EXCEPT ![arg[w]] = @ \cup {convo[w]}]
  /\ UNCHANGED <<memVars, worldVars, callVars, bootVars, boundVars, acked, closing, notified, omitted, saveVars>>

\* ... and, unless the save failed, return what is there now.
ConvoReturn(w) ==
  /\ Step(w, "convoReturn", "idle") /\ Returned(w)
  /\ handed' = IF saved[w] /\ arg[w] \in Known
               THEN [handed EXCEPT ![arg[w]] = @ \cup {metas[arg[w]].convo}] ELSE handed
  /\ UNCHANGED <<memVars, worldVars, callVars, bootVars, boundVars, acked, closing, notified, omitted, saveVars>>

-----------------------------------------------------------------------------
(* Close *)

\* Forget the session under m.mu; a second Close finds nothing.
Forget(w, s) ==
  /\ s \in Known
  /\ metas' = Without(s) /\ shells' = shells \ {s}
  /\ arg' = [arg EXCEPT ![w] = s]
  /\ closing' = closing \cup {s}

CloseForget(w, s) ==
  /\ Request(w, IF s \in shells THEN "closeShell" ELSE "closeDir") /\ Forget(w, s)
  /\ orphans' = [orphans EXCEPT ![w] = {}]
  /\ UNCHANGED <<worldVars, recap, convo, bootVars, minted, uuids, crashes, acked, notified, handed, omitted, saveVars>>

\* CreateOrGetRecapSession closes its orphans one after the other.
OrphanForget(w) ==
  /\ At(w, "recapOrphans")
  /\ \E s \in orphans[w] :
       /\ orphans' = [orphans EXCEPT ![w] = @ \ {s}]
       /\ IF s \in Known
          THEN Forget(w, s) /\ GoTo(w, IF s \in shells THEN "closeShell" ELSE "closeDir")
          ELSE UNCHANGED <<memVars, arg, closing, pc>>
  /\ UNCHANGED <<worldVars, recap, convo, bootVars, boundVars, acked, notified, handed, omitted, saveVars>>

OrphansClosed(w) ==
  /\ Step(w, "recapOrphans", "idle") /\ orphans[w] = {}
  /\ UNCHANGED <<memVars, worldVars, callVars, bootVars, boundVars, histVars, saveVars>>

\* TmuxShell.Close kills the tmux session, ...
CloseShell(w) ==
  /\ Step(w, "closeShell", "closeDir")
  /\ tmux' = tmux \ {arg[w]}
  /\ UNCHANGED <<memVars, dirs, callVars, bootVars, boundVars, histVars, saveVars>>

\* ... DeleteSession removes the directory, ...
CloseDir(w) ==
  /\ Step(w, "closeDir", "closeSave")
  /\ dirs' = dirs \ {arg[w]}
  /\ UNCHANGED <<memVars, tmux, callVars, bootVars, boundVars, histVars, saveVars>>

\* ... the list is saved, ...
CloseSave(w) ==
  /\ Step(w, "closeSave", "closeReturn") /\ Persist(w, metas)
  /\ UNCHANGED <<memVars, worldVars, callVars, bootVars, boundVars, histVars>>

\* Deviation: the listeners are called while the list is being saved.
CloseReturnEarly(w) ==
  /\ Step(w, "closeReturn", "recapOrphans")
  /\ notified' = notified \cup {arg[w]}
  /\ UNCHANGED <<memVars, worldVars, callVars, bootVars, boundVars, acked, closing, handed, omitted, saveVars>>

\* ... and the listeners are called, unless saving failed.
CloseReturn(w) ==
  /\ Step(w, "closeReturn", "recapOrphans") /\ Returned(w)
  /\ notified' = IF saved[w] THEN notified \cup {arg[w]} ELSE notified
  /\ UNCHANGED <<memVars, worldVars, callVars, bootVars, boundVars, acked, closing, handed, omitted, saveVars>>

\* bash exited: the poller's call of Close gets as far as TmuxShell.Close, which
\* waits for the poller itself (TmuxShell shows that it never returns).
UserExit(s) ==
  /\ MayExit /\ up # "down" /\ s \in Known \cap shells
  /\ ops < MaxOps /\ ops' = ops + 1
  /\ metas' = Without(s) /\ shells' = shells \ {s}
  /\ closing' = closing \cup {s}
  /\ UNCHANGED <<worldVars, pc, callVars, bootVars, minted, uuids, crashes, acked, notified, handed, omitted, saveVars>>

-----------------------------------------------------------------------------
(* Restart, and Reconcile before the first request is served *)

Gone ==
  /\ up # "down" /\ crashes < MaxCrashes
  /\ up' = "down" /\ crashes' = crashes + 1
  /\ metas' = <<>> /\ shells' = {}
  /\ pc' = [w \in Goroutines |-> "idle"]
  /\ orphans' = [w \in Goroutines |-> {}] /\ convo' = [w \in Goroutines |-> None]
  /\ File!Crash
  /\ UNCHANGED <<dirs, arg, recap, loaded, todo, live, reset, minted, uuids, ops, histVars>>

\* The server process ends, at any point; tmux lives on.
ProcessGone == "process" \in Crashes /\ Gone /\ UNCHANGED tmux

\* The pod is replaced: tmux goes too.
PodGone == "pod" \in Crashes /\ Gone /\ tmux' = {}

\* Deviation: a missing sessions.json is an error.
BootLoadNeedsFile ==
  /\ up = "down" /\ up' = "boot"
  /\ File!Stored \in MetaLists
  /\ loaded' = File!Stored
  /\ todo' = DOMAIN loaded' /\ live' = tmux
  /\ GoTo(Boot, "next")
  /\ UNCHANGED <<memVars, worldVars, callVars, reset, boundVars, histVars, saveVars>>

\* Load sessions.json and list the tmux sessions; no parsable list, no boot.
BootLoad ==
  /\ up = "down" /\ up' = "boot"
  /\ File!Stored \in {None} \cup MetaLists
  /\ loaded' = IF File!Stored = None THEN <<>> ELSE File!Stored
  /\ todo' = DOMAIN loaded' /\ live' = tmux
  /\ GoTo(Boot, "next")
  /\ UNCHANGED <<memVars, worldVars, callVars, reset, boundVars, histVars, saveVars>>

IsNext(s) == s \in todo /\ \A t \in todo : Age(s) <= Age(t)

\* stored and live: attach to the tmux session.
BootResume(s) ==
  /\ At(Boot, "next") /\ IsNext(s) /\ s \in live
  /\ todo' = todo \ {s} /\ metas' = With(s, loaded[s])
  /\ dirs' = dirs \cup {s} /\ shells' = shells \cup {s}
  /\ UNCHANGED <<tmux, pc, callVars, up, loaded, live, reset, boundVars, histVars, saveVars>>

\* stored and not live: start a fresh bash, ...
BootRecreate(s) ==
  /\ Step(Boot, "next", "reset") /\ IsNext(s) /\ s \notin live
  /\ todo' = todo \ {s} /\ metas' = With(s, loaded[s])
  /\ arg' = [arg EXCEPT ![Boot] = s] /\ reset' = 0
  /\ dirs' = dirs \cup {s}
  /\ \/ tmux' = tmux \cup {s} /\ shells' = shells \cup {s}
     \/ TmuxFails /\ tmux' \in {tmux, tmux \cup {s}} /\ UNCHANGED shells
  /\ UNCHANGED <<recap, orphans, convo, up, loaded, live, boundVars, histVars, saveVars>>

\* ... and take back, one save each, what entering Claude had set.
BootReset ==
  /\ At(Boot, "reset") /\ Returned(Boot) /\ reset < Len(Options)
  /\ reset' = reset + 1
  /\ \/ MutateAndPersist(Boot, arg[Boot], [metas[arg[Boot]] EXCEPT !.opts = @ \ {Options[reset + 1]}])
     \/ arg[Boot] \notin Known /\ UNCHANGED <<metas, saveVars>>
  /\ UNCHANGED <<shells, worldVars, pc, callVars, up, loaded, todo, live, boundVars, histVars>>

BootResetDone ==
  /\ Step(Boot, "reset", "next") /\ Returned(Boot) /\ reset = Len(Options)
  /\ UNCHANGED <<memVars, worldVars, callVars, bootVars, boundVars, histVars, saveVars>>

\* Deviation: tmux sessions that are not stored are left alone.
BootServeKeeps ==
  /\ Step(Boot, "next", "idle") /\ todo = {}
  /\ up' = "serving"
  /\ UNCHANGED <<memVars, worldVars, callVars, loaded, todo, live, reset, boundVars, histVars, saveVars>>

\* live and not stored: kill; then the HTTP listener opens.
BootServe ==
  /\ Step(Boot, "next", "idle") /\ todo = {}
  /\ tmux' = tmux \ (live \ DOMAIN loaded)
  /\ up' = "serving"
  /\ UNCHANGED <<memVars, dirs, callVars, loaded, todo, live, reset, boundVars, histVars, saveVars>>

-----------------------------------------------------------------------------
Init ==
  /\ up = "down" /\ metas = <<>> /\ shells = {} /\ tmux = {} /\ dirs = {}
  /\ pc = [w \in Goroutines |-> "idle"] /\ arg = [w \in Goroutines |-> None]
  /\ recap = [w \in Goroutines |-> FALSE] /\ orphans = [w \in Goroutines |-> {}]
  /\ convo = [w \in Goroutines |-> None]
  /\ loaded = <<>> /\ todo = {} /\ live = {} /\ reset = 0
  /\ minted = <<>> /\ uuids = {} /\ ops = 0 /\ crashes = 0
  /\ acked = {} /\ closing = {} /\ notified = {} /\ handed = [s \in Sessions |-> {}]
  /\ omitted = {}
  /\ File!Init

\* Save goes on.  (Boot has the sessions of todo still to come, and does not save them.)
SaveStep(w) ==
  /\ File!Steps(w)
  /\ omitted' = (omitted \cup todo) \ StoredIds'
  /\ UNCHANGED <<memVars, worldVars, pc, callVars, bootVars, boundVars, acked, closing, notified, handed>>

Creating(w) ==
  \/ \E s \in Sessions : CreateReserve(w, s) \/ RecapReserve(w, s)
  \/ StartDirs(w) \/ StartTmux(w) \/ CreateUnreserve(w) \/ Register(w) \/ CreateSave(w)
  \/ CreateReturn(w) \/ CreateRollback(w)
  \/ RecapScan(w) \/ RecapAbsent(w) \/ RecapRefused(w) \/ RecapTag(w) \/ RecapSave(w)
Changing(w) ==
  \/ \E s \in Sessions : EnsureConvo(w, s)
  \/ \E s \in Sessions, o \in OptionSet, on \in BOOLEAN : SetOption(w, s, o, on)
  \/ ConvoSet(w) \/ ConvoReturn(w) \/ Return(w)
Closing(w) ==
  \/ \E s \in Sessions : CloseForget(w, s)
  \/ OrphanForget(w) \/ OrphansClosed(w) \/ CloseShell(w) \/ CloseDir(w) \/ CloseSave(w)
  \/ CloseReturn(w)
Booting ==
  \/ BootLoad \/ BootReset \/ BootResetDone \/ BootServe
  \/ \E s \in Sessions : BootResume(s) \/ BootRecreate(s)

Next ==
  \/ \E w \in Workers : Creating(w) \/ Changing(w) \/ Closing(w)
  \/ \E w \in Goroutines : SaveStep(w)
  \/ \E s \in Sessions : UserExit(s)
  \/ ProcessGone \/ PodGone \/ Booting

Spec == Init /\ [][Next]_vars

\* The supervisor restarts the process, and Reconcile runs to its end.
FairSpec == Spec /\ WF_vars(Booting) /\ WF_vars(SaveStep(Boot))

-----------------------------------------------------------------------------
(* Properties *)

Places == {"idle", "startDirs", "startTmux", "unreserve", "register", "createSave", "createReturn",
           "rollback", "recapCreate", "recapTag", "recapSave", "recapOrphans", "return",
           "convoSet", "convoReturn", "closeShell", "closeDir", "closeSave", "closeReturn",
           "next", "reset"}

\* The places where a goroutine is working on arg.
OnSession(w) == pc[w] \notin {"idle", "recapCreate", "recapOrphans", "return", "next"}

TypeMemory == up \in {"down", "boot", "serving"} /\ metas \in MetaLists /\ shells \subseteq Sessions
TypeWorld  == tmux \subseteq Sessions /\ dirs \subseteq Sessions
TypeCalls  == /\ pc \in [Goroutines -> Places] /\ arg \in [Goroutines -> Sessions \cup {None}]
              /\ recap \in [Goroutines -> BOOLEAN] /\ orphans \in [Goroutines -> SUBSET Sessions]
              /\ convo \in [Goroutines -> Convos \cup {None}]
              /\ \A w \in Goroutines : OnSession(w) => arg[w] \in Sessions
TypeBoot   == /\ loaded \in MetaLists /\ todo \subseteq DOMAIN loaded /\ live \subseteq Sessions
              /\ reset \in 0..Len(Options)
TypeBounds == minted \in Seq(Sessions) /\ uuids \subseteq Convos
TypeHist   == /\ acked \subseteq Sessions /\ closing \subseteq Sessions /\ notified \subseteq Sessions
              /\ handed \in [Sessions -> SUBSET (Convos \cup {None})] /\ omitted \subseteq Sessions

\* Every variable keeps its type.
TypeOK == /\ TypeMemory /\ TypeWorld /\ TypeCalls /\ TypeBoot /\ TypeBounds /\ TypeHist
          /\ File!FileTypeOK

\* Concurrent creations, rollbacks and reboots never exceed the limit.
LimitRespected == Cardinality(Known) <= MaxSessions

Settled == up = "serving" /\ \A w \in Workers : At(w, "idle")

\* When no request is in progress, the sessions known, those that have a shell
\* and those in tmux are the same, and each has its directory.
SettledAlive == Settled => shells = Known /\ tmux = Known /\ Known \subseteq dirs

\* Sessions that an earlier boot had left out when its process went away.
Lost == omitted \ DOMAIN loaded

\* A session whose creation was reported, and that nobody closed, is there whenever
\* the server serves.  One way to lose it is known: a boot that starts a session
\* anew saves the list before it comes to the next ones, and the process goes away
\* before another save brings them back.
AckedSurvives == up = "serving" => acked \ closing \subseteq Known \cup Lost

\* When no request is in progress, sessions.json has no session the server has
\* forgotten, tells of each one what the server remembers, and lacks none but those
\* that the boot left out.
SettledStored ==
  Settled => /\ \A s \in StoredIds : s \in Known /\ File!Stored[s] = metas[s]
             /\ Known \ StoredIds \subseteq omitted

\* After any restart or series of requests: nothing forgotten, left behind or told
\* otherwise in sessions.json.
SettledSound == SettledAlive /\ SettledStored

\* Once the close listeners were called (onClose.Fire, the last thing Close does)
\* nothing can bring the session back: not memory, not tmux, not sessions.json.
ClosedIsGone == notified \cap (Known \cup tmux \cup StoredIds) = {}

\* Failed creations give back their slot, and no session is left without a shell:
\* when no request is in progress, every session the server knows was reported
\* to its creator and has a shell, whatever failed in between.
SlotsBacked == Settled => Known \subseteq acked \cap shells

\* One Claude conversation per session: every caller of EnsureClaudeConvoID gets
\* the same id.
OneConvo == \A s \in Sessions : Cardinality(handed[s]) <= 1

\* Wherever the process was killed, it serves again.
Reboots == up = "down" ~> up = "serving"

-----------------------------------------------------------------------------
(* Inductive strengthening of LimitRespected: no list of sessions, in       *)
(* memory or on disk, is over the limit, and only a serving process creates.*)

Fits(l) == IsFiniteSet(DOMAIN l) /\ Cardinality(DOMAIN l) <= MaxSessions

Booted == /\ up = "down" => Known = {}
          /\ up = "boot" => Known \subseteq DOMAIN loaded
          /\ up # "serving" => \A w \in Workers : At(w, "idle")
          /\ pc[Boot] \in {"next", "reset"} => up = "boot"

LimitInv ==
  /\ Fits(metas) /\ Fits(loaded)
  /\ \A w \in Goroutines : spc[w] # "idle" => want[w] \in MetaLists /\ Fits(want[w])
  /\ \A i \in Inodes : content[i] \in MetaLists => Fits(content[i])
  /\ Booted

=============================================================================
