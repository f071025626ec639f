----------------------------- MODULE PtyStream -----------------------------
(***************************************************************************)
(* What a session's bash prints, from the pane to the current command of   *)
(* its TmuxShell: tmux's pipe appends it to pty.stream, StreamReader       *)
(* (internal/shell/tmuxio/stream_reader.go) reads the file and keeps its   *)
(* position in pty.offset, Parser (internal/shell/sentinel.go) finds the   *)
(* sentinels, and after an END the shell truncates a file grown too large  *)
(* -- from inside the read that delivered the END.  The process may die at *)
(* every step and attach again (Resume), or lose tmux too (Start).         *)
(*                                                                         *)
(* A unit of the stream is a piece of a command's output or one half of a  *)
(* sentinel line: "start" and "end" are the record separator and the text, *)
(* "close" is the separator that ends the line, with its X and newline.    *)
(***************************************************************************)
EXTENDS Integers, Sequences, FiniteSets

CONSTANTS
  Cmds,       \* bound: the commands that can be submitted
  Outputs,    \* bound: how many pieces of output a command prints
  ReadMax,    \* the reader's buffer, 32 KiB
  Threshold,  \* StreamTruncateThreshold
  Crashes,    \* what may go away: "process", "pod"
  MaxCrashes, \* bound: how often
  PipeFails,  \* may a pipe-pane call fail?
  None

ASSUME StreamAssumption ==
  /\ Outputs \in Nat /\ ReadMax \in Nat \ {0} /\ Threshold \in Nat \ {0} /\ MaxCrashes \in Nat
  /\ PipeFails \in BOOLEAN /\ Crashes \subseteq {"process", "pod"} /\ None \notin Cmds

VARIABLES
  up,      \* the server process runs and has attached to the session
  live,    \* the tmux session exists
  cur,     \* ts.currentCmd
  work,    \* what bash still has to print
  printed, \* how many units it has printed
  pipe,    \* pipe-pane copies them to pty.stream
  file,    \* the content of pty.stream
  stored,  \* the number in pty.offset
  pos,     \* StreamReader.file: where the next Read starts
  offset,  \* StreamReader.offset
  buf,     \* ReadOnce: what it has read and not yet fed
  n,       \* ReadOnce: how much the last Read returned
  rpc,     \* ReadOnce: where it is
  pending, \* Parser.buf: the sentinel half it starts with
  inside,  \* Parser.state and cur: the command whose body it is in
  running, \* command records whose status is running
  toRecord,\* Ended events the persister has not handled yet
  asked,   \* the commands submitted so far, in their order
  crashes, \* bounded counter
  fed,     \* history: units some parser was fed
  last,    \* history: the last one fed to this parser
  truncated, \* history: pty.stream has been truncated
  lost     \* history: started commands of which a unit was discarded

streamVars == <<pipe, file, stored>>
readVars   == <<pos, offset, buf, n, rpc>>
parseVars  == <<pending, inside, cur>>
bashVars   == <<work, printed>>
recVars    == <<running, toRecord, asked>>
histVars   == <<fed, last, truncated, lost>>
vars == <<up, live, streamVars, readVars, parseVars, bashVars, recVars, crashes, histVars>>

Kinds == {"start", "output", "end", "close"}
Unit  == [at : Nat, cmd : Cmds, kind : Kinds]

LeastOf(a, b) == IF a <= b THEN a ELSE b

-----------------------------------------------------------------------------
(* The shell and bash *)

\* Wrap: the user's command between a START and an END sentinel.
Wrap(c) ==
  LET body == [i \in 1..Outputs |-> "output"]
      kinds == <<"start", "close">> \o body \o <<"end", "close">>
  IN [i \in DOMAIN kinds |-> [cmd |-> c, kind |-> kinds[i]]]

Taken == {asked[i] : i \in DOMAIN asked}

\* handleRun saves the record and Write, admitted, types the command.
Write(c) ==
  /\ up /\ cur = None /\ c \notin Taken
  /\ cur' = c /\ work' = work \o Wrap(c)
  /\ running' = running \cup {c} /\ asked' = Append(asked, c)
  /\ UNCHANGED <<up, live, streamVars, readVars, pending, inside, printed, toRecord, crashes, histVars>>

\* bash prints; without a pipe nobody keeps it.
BashPrints ==
  /\ work # <<>> /\ work' = Tail(work) /\ printed' = printed + 1
  /\ LET u == [at |-> printed + 1, cmd |-> Head(work).cmd, kind |-> Head(work).kind]
     IN IF pipe THEN file' = Append(file, u) /\ UNCHANGED lost
        ELSE lost' = lost \cup {u.cmd} /\ UNCHANGED file
  /\ UNCHANGED <<up, live, pipe, stored, readVars, parseVars, recVars, crashes, fed, last, truncated>>

\* The persister completes the record of an Ended event.
Record(c) ==
  /\ up /\ c \in toRecord
  /\ toRecord' = toRecord \ {c} /\ running' = running \ {c}
  /\ UNCHANGED <<up, live, streamVars, readVars, parseVars, bashVars, asked, crashes, histVars>>

-----------------------------------------------------------------------------
(* ReadOnce *)

\* Deviation: the offset is advanced before the bytes are fed, and stored at once.
ReadAhead ==
  /\ up /\ rpc \in {"idle", "more"} /\ pos < Len(file)
  /\ n' = LeastOf(ReadMax, Len(file) - pos)
  /\ buf' = SubSeq(file, pos + 1, pos + n') /\ pos' = pos + n'
  /\ rpc' = "feed" /\ stored' = pos'
  /\ UNCHANGED <<up, live, pipe, file, offset, parseVars, bashVars, recVars, crashes, histVars>>

\* file.Read returns what there is, up to the buffer.
Read ==
  /\ up /\ rpc \in {"idle", "more"} /\ pos < Len(file)
  /\ n' = LeastOf(ReadMax, Len(file) - pos)
  /\ buf' = SubSeq(file, pos + 1, pos + n') /\ pos' = pos + n'
  /\ rpc' = "feed"
  /\ UNCHANGED <<up, live, streamVars, offset, parseVars, bashVars, recVars, crashes, histVars>>

ReadEof ==
  /\ up /\ rpc = "more" /\ pos >= Len(file)
  /\ rpc' = "persist"
  /\ UNCHANGED <<up, live, streamVars, pos, offset, buf, n, parseVars, bashVars, recVars, crashes, histVars>>

\* A complete sentinel: START enters its body and installs the command if it
\* is not there yet, END leaves it and ends whatever is current.
Sentinel(u) ==
  CASE u.kind = "start" -> inside' = u.cmd /\ cur' = u.cmd /\ UNCHANGED toRecord
    [] u.kind = "end"   -> /\ inside' = None /\ cur' = None
                           /\ toRecord' = IF cur = None THEN toRecord ELSE toRecord \cup {u.cmd}
    [] OTHER            -> UNCHANGED <<inside, cur, toRecord>>

\* Deviation: the size is looked at after every sentinel.
TruncatesAnywhere(u) == u.kind # "close" /\ cur # None /\ Len(file) >= Threshold

\* Does the sentinel just completed make the shell look at the file's size?
Truncates(u) == u.kind = "end" /\ cur # None /\ Len(file) >= Threshold

\* Deviation: a sentinel whose second half is not in this read is forgotten.
FeedForgets ==
  /\ up /\ rpc = "feed" /\ buf # <<>>
  /\ LET u == Head(buf) IN
       /\ fed' = fed \cup {u} /\ last' = u.at
       /\ IF u.kind = "output" THEN UNCHANGED <<parseVars, toRecord, rpc>>
          ELSE IF pending = None
          THEN pending' = (IF Tail(buf) = <<>> THEN None ELSE u) /\ UNCHANGED <<inside, cur, toRecord, rpc>>
          ELSE /\ Sentinel(pending) /\ pending' = None
               /\ rpc' = IF Truncates(pending) THEN "stopPipe" ELSE rpc
  /\ buf' = Tail(buf)
  /\ UNCHANGED <<up, live, streamVars, pos, offset, n, bashVars, running, asked, crashes, truncated, lost>>

\* Parser.process, one unit at a time: a separator opens a sentinel or completes
\* the one that is pending, whatever it belongs to; the rest is body.
Feed ==
  /\ up /\ rpc = "feed" /\ buf # <<>>
  /\ LET u == Head(buf) IN
       /\ fed' = fed \cup {u} /\ last' = u.at
       /\ IF u.kind = "output" THEN UNCHANGED <<parseVars, toRecord, rpc>>
          ELSE IF pending = None
          THEN pending' = u /\ UNCHANGED <<inside, cur, toRecord, rpc>>
          ELSE /\ Sentinel(pending) /\ pending' = None
               /\ rpc' = IF Truncates(pending) THEN "stopPipe" ELSE rpc
  /\ buf' = Tail(buf)
  /\ UNCHANGED <<up, live, streamVars, pos, offset, n, bashVars, running, asked, crashes, truncated, lost>>

\* After Feed the offset is advanced by what was read; a full buffer means more.
Fed ==
  /\ up /\ rpc = "feed" /\ buf = <<>>
  /\ offset' = offset + n
  /\ rpc' = IF n < ReadMax THEN "persist" ELSE "more"
  /\ UNCHANGED <<up, live, streamVars, pos, buf, n, parseVars, bashVars, recVars, crashes, histVars>>

PersistOffset ==
  /\ up /\ rpc = "persist"
  /\ stored' = offset /\ rpc' = "idle"
  /\ UNCHANGED <<up, live, pipe, file, pos, offset, buf, n, parseVars, bashVars, recVars, crashes, histVars>>

-----------------------------------------------------------------------------
(* TruncateConsumed, called by the END's handler in the middle of Feed *)

StopPipe ==
  /\ up /\ rpc = "stopPipe"
  /\ \/ pipe' = FALSE /\ rpc' = "truncate"
     \/ PipeFails /\ rpc' = "feed" /\ UNCHANGED pipe
  /\ UNCHANGED <<up, live, file, stored, pos, offset, buf, n, parseVars, bashVars, recVars, crashes, histVars>>

Unread == {file[i] : i \in pos + 1..Len(file)}

\* Deviation: the file is reopened from its start without being cut.
TruncateNothing ==
  /\ up /\ rpc = "truncate"
  /\ pos' = 0 /\ offset' = 0
  /\ truncated' = TRUE /\ rpc' = "storeZero"
  /\ UNCHANGED <<up, live, pipe, file, stored, buf, n, parseVars, bashVars, recVars, crashes, fed, last, lost>>

\* Cut the whole file, open it again and start from 0.
Truncate ==
  /\ up /\ rpc = "truncate"
  /\ file' = <<>> /\ pos' = 0 /\ offset' = 0
  /\ lost' = lost \cup {u.cmd : u \in Unread}
  /\ truncated' = TRUE /\ rpc' = "storeZero"
  /\ UNCHANGED <<up, live, pipe, stored, buf, n, parseVars, bashVars, recVars, crashes, fed, last>>

StoreZero ==
  /\ up /\ rpc = "storeZero"
  /\ stored' = offset /\ rpc' = "startPipe"
  /\ UNCHANGED <<up, live, pipe, file, pos, offset, buf, n, parseVars, bashVars, recVars, crashes, histVars>>

StartPipe ==
  /\ up /\ rpc = "startPipe" /\ rpc' = "feed"
  /\ pipe' = TRUE \/ (PipeFails /\ UNCHANGED pipe)
  /\ UNCHANGED <<up, live, file, stored, pos, offset, buf, n, parseVars, bashVars, recVars, crashes, histVars>>

-----------------------------------------------------------------------------
(* Crashes and restarts *)

\* What the process held in memory is gone.
Gone ==
  /\ up /\ crashes < MaxCrashes /\ crashes' = crashes + 1
  /\ up' = FALSE /\ cur' = None /\ inside' = None /\ pending' = None
  /\ pos' = 0 /\ offset' = 0 /\ buf' = <<>> /\ n' = 0 /\ rpc' = "idle"
  /\ toRecord' = {} /\ last' = 0
  /\ UNCHANGED <<file, stored, printed, running, asked, fed, truncated, lost>>

ProcessGone == "process" \in Crashes /\ Gone /\ UNCHANGED <<live, pipe, work>>

\* With the pod go tmux, its pipe and bash.
PodGone == "pod" \in Crashes /\ Gone /\ live' = FALSE /\ pipe' = FALSE /\ work' = <<>>

\* NewStreamReader: start at the stored offset, or at the end of a shorter file.
OpenStream ==
  /\ pos' = LeastOf(stored, Len(file)) /\ offset' = pos'
  /\ UNCHANGED <<buf, n, rpc>>

\* resumeShell: the newest command whose record is running is current again,
\* and the parser is in its body.
Seed ==
  LET rs == {i \in DOMAIN asked : asked[i] \in running}
  IN IF rs = {} THEN None ELSE asked[CHOOSE i \in rs : \A j \in rs : j <= i]

Resume ==
  /\ ~up /\ live /\ up' = TRUE
  /\ cur' = Seed /\ inside' = Seed /\ OpenStream
  /\ UNCHANGED <<live, streamVars, pending, bashVars, recVars, crashes, histVars>>

\* startShell for a stored session: a fresh bash and pipe, the old file and
\* offset; running records become interrupted.
Recreate ==
  /\ ~up /\ ~live /\ up' = TRUE /\ live' = TRUE /\ pipe' = TRUE
  /\ running' = {} /\ OpenStream
  /\ UNCHANGED <<file, stored, parseVars, bashVars, toRecord, asked, crashes, histVars>>

-----------------------------------------------------------------------------
Init ==
  /\ up = TRUE /\ live = TRUE /\ pipe = TRUE /\ file = <<>> /\ stored = 0
  /\ pos = 0 /\ offset = 0 /\ buf = <<>> /\ n = 0 /\ rpc = "idle"
  /\ pending = None /\ inside = None /\ cur = None
  /\ work = <<>> /\ printed = 0 /\ running = {} /\ toRecord = {} /\ asked = <<>>
  /\ crashes = 0 /\ fed = {} /\ last = 0 /\ truncated = FALSE /\ lost = {}

ReadOnce == Read \/ ReadEof \/ Feed \/ Fed \/ PersistOffset
TruncateConsumed == StopPipe \/ Truncate \/ StoreZero \/ StartPipe
Restart == Resume \/ Recreate

Next ==
  \/ \E c \in Cmds : Write(c) \/ Record(c)
  \/ BashPrints \/ ReadOnce \/ TruncateConsumed \/ ProcessGone \/ PodGone \/ Restart

Spec == Init /\ [][Next]_vars

\* The read loop ticks, the process is restarted, and commands finish.
FairSpec ==
  Spec /\ WF_vars(ReadOnce) /\ WF_vars(TruncateConsumed) /\ WF_vars(Restart) /\ WF_vars(BashPrints)

-----------------------------------------------------------------------------
(* Properties *)

MaxUnits == Cardinality(Cmds) * (Outputs + 4)

\* Every variable keeps its type.
TypeStream ==
  /\ file \in Seq(Unit) /\ buf \in Seq(Unit) /\ fed \subseteq Unit
  /\ stored \in Nat /\ pos \in Nat /\ pos <= Len(file) /\ offset \in Nat /\ n \in 0..ReadMax
  /\ rpc \in {"idle", "feed", "more", "persist", "stopPipe", "truncate", "storeZero", "startPipe"}
  /\ printed \in Nat /\ last \in Nat /\ work \in Seq([cmd : Cmds, kind : Kinds])

TypeRest ==
  /\ up \in BOOLEAN /\ live \in BOOLEAN /\ pipe \in BOOLEAN /\ truncated \in BOOLEAN
  /\ cur \in Cmds \cup {None} /\ inside \in Cmds \cup {None} /\ pending \in Unit \cup {None}
  /\ running \subseteq Cmds /\ toRecord \subseteq Cmds /\ lost \subseteq Cmds
  /\ asked \in Seq(Cmds) /\ crashes \in 0..MaxCrashes

TypeOK == TypeStream /\ TypeRest

\* What a restart would skip, the units below pty.offset, was fed to a parser:
\* as long as the file was never truncated, a crash loses nothing.
AtLeastOnce == ~truncated => \A i \in 1..stored : i <= Len(file) /\ file[i] \in fed

\* "resumes from exactly where it left off" (StreamReader): between two reads the
\* stored offset is the position that was reached.
ResumesExactly == up /\ rpc = "idle" => stored = pos

\* A parser is fed each unit at most once, and in the order they were printed,
\* whatever is truncated under the reader.
FedInOrder == [][last' \notin {0, last} => last' > last]_vars

Begun == {u.cmd : u \in {v \in fed : v.kind = "start"}}

\* Truncation never takes a unit of a command whose START was read ("cannot
\* strand bytes from a running command"), as long as the process lives.
BegunKeepsOutput == crashes = 0 => Begun \cap lost = {}

\* An admitted command frees the shell, unless the process dies or the file is
\* truncated: however its sentinels are split into reads.
CommandEnds == \A c \in Cmds : cur = c ~> (cur # c \/ crashes > 0 \/ truncated)

=============================================================================
