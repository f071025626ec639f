---------------------------- MODULE SessionsFile ----------------------------
(***************************************************************************)
(* sessions.json on disk: SessionsFile.Save in internal/store/sessions.go, *)
(* step by step.  Save writes the whole list to sessions.json.tmp and      *)
(* renames it over sessions.json.  Two names share one directory, so the   *)
(* model keeps inodes: a writer that has opened the temporary file goes on *)
(* writing to that inode whatever name it has by then.                     *)
(***************************************************************************)
EXTENDS FiniteSets

CONSTANTS
  Writers, \* goroutines that call Save
  Lists,   \* the lists of sessions they may save
  Inodes,  \* bound: inodes in use at the same time
  IOFails, \* may WriteFile fail (disk full)?
  None, Empty, Torn \* no inode or list; a file just truncated; no parsable JSON

ASSUME FileAssumption ==
  /\ None \notin Lists /\ Empty \notin Lists /\ Torn \notin Lists
  /\ Empty # Torn /\ None \notin Inodes /\ IOFails \in BOOLEAN

VARIABLES
  spc,     \* where each writer is in Save: "idle", "open", "write", "rename", "clean"
  want,    \* the list each writer is saving
  fd,      \* the inode each writer has opened
  saved,   \* did the writer's last Save return nil?
  tmp,     \* inode named sessions.json.tmp, or None
  final,   \* inode named sessions.json, or None
  content  \* what each inode holds

diskVars == <<tmp, final, content>>
saveVars == <<spc, want, fd, saved, diskVars>>

At(w, pc)   == spc[w] = pc
GoTo(w, pc) == spc' = [spc EXCEPT ![w] = pc]

\* Save(list): json.MarshalIndent cannot fail on a SessionMeta.
Save(w, l) ==
  /\ At(w, "idle") /\ GoTo(w, "open")
  /\ want' = [want EXCEPT ![w] = l]
  /\ UNCHANGED <<fd, saved, diskVars>>

Used == {tmp, final} \cup {fd[w] : w \in Writers}

\* Deviation: sessions.json itself is truncated and written.
OpenInPlace(w) ==
  /\ At(w, "open") /\ GoTo(w, "write")
  /\ \E i \in IF final = None THEN Inodes \ Used ELSE {final} :
       /\ final' = i
       /\ fd' = [fd EXCEPT ![w] = i]
       /\ content' = [content EXCEPT ![i] = Empty]
  /\ UNCHANGED <<want, saved, tmp>>

\* os.WriteFile opens the temporary name with O_CREATE|O_TRUNC, ...
Open(w) ==
  /\ At(w, "open") /\ GoTo(w, "write")
  /\ \E i \in IF tmp = None THEN Inodes \ Used ELSE {tmp} :
       /\ tmp' = i
       /\ fd' = [fd EXCEPT ![w] = i]
       /\ content' = [content EXCEPT ![i] = Empty]
  /\ UNCHANGED <<want, saved, final>>

\* Two writes to one inode start at offset 0: the longer one's tail may remain.
Written(w) == IF content[fd[w]] \in {Empty, want[w]} THEN {want[w]} ELSE {want[w], Torn}

\* ... writes the list, or fails and leaves the temporary file behind.
Write(w) ==
  /\ At(w, "write")
  /\ \/ /\ \E l \in Written(w) : content' = [content EXCEPT ![fd[w]] = l]
        /\ GoTo(w, "rename") /\ UNCHANGED saved
     \/ /\ IOFails /\ GoTo(w, "idle") /\ saved' = [saved EXCEPT ![w] = FALSE]
        /\ UNCHANGED content
  /\ fd' = [fd EXCEPT ![w] = None]
  /\ UNCHANGED <<want, tmp, final>>

\* The inode that loses its name is out of every reader's reach.
Free(inode) == content' = [i \in Inodes |-> IF i = inode THEN Empty ELSE content[i]]

\* os.Rename works on the names: it fails if the temporary one is gone.
Rename(w) ==
  /\ At(w, "rename") /\ GoTo(w, "clean")
  /\ saved' = [saved EXCEPT ![w] = tmp # None]
  /\ IF tmp # None THEN final' = tmp /\ tmp' = None /\ Free(final)
     ELSE UNCHANGED <<tmp, final, content>>
  /\ UNCHANGED <<want, fd>>

\* Deviation: the deferred os.Remove takes the wrong name.
CleanFinal(w) ==
  /\ At(w, "clean") /\ GoTo(w, "idle")
  /\ final' = None
  /\ UNCHANGED <<want, fd, saved, tmp, content>>

\* The deferred os.Remove of the temporary name, then Save returns.
Clean(w) ==
  /\ At(w, "clean") /\ GoTo(w, "idle")
  /\ tmp' = None /\ Free(tmp) /\ want' = [want EXCEPT ![w] = None]
  /\ UNCHANGED <<fd, saved, final>>

\* The process dies; what is on disk stays as it is.
Crash ==
  /\ spc' = [w \in Writers |-> "idle"] /\ fd' = [w \in Writers |-> None]
  /\ UNCHANGED <<want, saved, diskVars>>

\* What Load parses: nothing yet, a list, or something that is no list.
Stored == IF final = None THEN None ELSE content[final]

Init ==
  /\ spc = [w \in Writers |-> "idle"] /\ fd = [w \in Writers |-> None]
  /\ want = [w \in Writers |-> None] /\ saved = [w \in Writers |-> FALSE]
  /\ tmp = None /\ final = None /\ content = [i \in Inodes |-> Empty]

Steps(w) == Open(w) \/ Write(w) \/ Rename(w) \/ Clean(w)

Next == Crash \/ \E w \in Writers : Steps(w) \/ \E l \in Lists : Save(w, l)

Spec == Init /\ [][Next]_saveVars

-----------------------------------------------------------------------------
(* Properties *)

Content == Lists \cup {Empty, Torn}

FileTypeOK ==
  /\ spc \in [Writers -> {"idle", "open", "write", "rename", "clean"}]
  /\ want \in [Writers -> Lists \cup {None}] /\ saved \in [Writers -> BOOLEAN]
  /\ fd \in [Writers -> Inodes \cup {None}]
  /\ tmp \in Inodes \cup {None} /\ final \in Inodes \cup {None}
  /\ content \in [Inodes -> Content]

\* Whenever the process is killed, Load finds a list that was saved.
NeverTorn == Stored \in Lists \cup {None}

\* Strengthening of NeverTorn for one writer: the temporary file is never the
\* stored one, and what is about to be renamed is the writer's whole list.
SavingInv ==
  /\ tmp # None => tmp # final
  /\ Stored \in Lists \cup {None}
  /\ \A w \in Writers :
       /\ spc[w] \in {"open", "write", "rename"} => want[w] \in Lists
       /\ At(w, "write") => tmp # None /\ fd[w] = tmp /\ content[tmp] = Empty
       /\ At(w, "rename") => tmp # None /\ content[tmp] = want[w]

Atomic == INSTANCE AtomicFile WITH
  value <- Stored,
  job   <- [w \in Writers |-> IF spc[w] \in {"open", "write", "rename"} THEN want[w] ELSE None]

\* With one writer, Save is an atomic write.
RefinesAtomicFile == Atomic!Spec

=============================================================================
