-------------------------- MODULE PtyStreamProofs --------------------------
(* However reads split what bash prints, whenever the file is truncated in   *)
(* the middle of a read and wherever the process dies: a parser is fed each  *)
(* unit once and in order, a restart skips nothing that was not fed, and a   *)
(* truncation takes nothing of a command that has begun, for any commands,   *)
(* buffer size, threshold, crashes and failing pipes.                        *)
EXTENDS PtyStream, TLAPS, SequenceTheorems, WellFoundedInduction

\* Units are numbered as they are printed: the file, the reader's buffer and the
\* part of the file it has not read follow one another.
InOrder ==
  /\ \A i \in 1..Len(file) : file[i].at \in 1..printed
  /\ \A i, j \in 1..Len(file) : i < j => file[i].at < file[j].at
  /\ \A i \in 1..Len(buf) : buf[i].at \in 1..printed /\ last < buf[i].at
  /\ \A i, j \in 1..Len(buf) : i < j => buf[i].at < buf[j].at
  /\ last <= printed
  /\ \A i \in 1..Len(file) : i > pos => last < file[i].at /\ \A j \in 1..Len(buf) : buf[j].at < file[i].at

Feeding == {"feed", "stopPipe", "truncate"}

\* The reader's two positions: until the first truncation the buffer is the end of
\* what was read, all before it was fed, and the offsets never run ahead of that.
Positions ==
  ~truncated =>
    /\ rpc \notin {"storeZero", "startPipe"} /\ stored <= Len(file) /\ Len(buf) <= pos
    /\ IF rpc \in Feeding THEN offset + n = pos ELSE offset = pos /\ buf = <<>>
    /\ \A i \in 1..Len(buf) : buf[i] = file[pos - Len(buf) + i]
    /\ \A i \in 1..pos - Len(buf) : file[i] \in fed
    /\ \A i \in 1..stored : file[i] \in fed

\* Without a process there is no reader.
Down == ~up => rpc = "idle" /\ buf = <<>> /\ n = 0 /\ last = 0

Inv == TypeStream /\ InOrder /\ Positions /\ Down

\* What a step may do to the last unit fed.
Later == last' \notin {0, last} => last' > last

LEMMA InvInit == Init => Inv
<1> SUFFICES ASSUME Init PROVE Inv
  OBVIOUS
<1>1. TypeStream
  BY StreamAssumption DEF Init, TypeStream
<1>2. InOrder /\ Positions /\ Down
  BY DEF Init, InOrder, Positions, Feeding, Down
<1> QED BY <1>1, <1>2 DEF Inv

\* The steps that leave the stream and the reader alone.
LEMMA Same ==
  ASSUME Inv, work' \in Seq([cmd : Cmds, kind : Kinds]),
         UNCHANGED <<up, file, stored, readVars, printed, fed, last, truncated>>
  PROVE  Inv' /\ Later
BY DEF Inv, TypeStream, InOrder, Positions, Down, Later, readVars

LEMMA WriteInv ==
  ASSUME Inv, NEW c \in Cmds, Write(c) PROVE Inv' /\ Later
<1>1. Wrap(c) \in Seq([cmd : Cmds, kind : Kinds])
  BY StreamAssumption DEF Wrap, Kinds
<1>2. work' \in Seq([cmd : Cmds, kind : Kinds])
  BY <1>1 DEF Write, Inv, TypeStream
<1> QED BY <1>2, Same DEF Write, streamVars, histVars

LEMMA BashPrintsInv ==
  ASSUME Inv, BashPrints PROVE Inv' /\ Later
<1> DEFINE u == [at |-> printed + 1, cmd |-> Head(work).cmd, kind |-> Head(work).kind]
<1> USE DEF Inv
<1>1. u \in Unit /\ u.at = printed + 1
  <2>1. work \in Seq([cmd : Cmds, kind : Kinds]) /\ work # <<>> /\ printed + 1 \in Nat
    BY DEF BashPrints, TypeStream
  <2>2. Head(work) \in [cmd : Cmds, kind : Kinds]
    BY ONLY <2>1, HeadTailProperties
  <2> QED BY <2>1, <2>2 DEF Unit
<1>2. work' \in Seq([cmd : Cmds, kind : Kinds]) /\ printed' = printed + 1
  BY DEF BashPrints, TypeStream
<1>3. UNCHANGED <<up, stored, pos, offset, buf, n, rpc, fed, last, truncated>>
  BY DEF BashPrints, readVars
<1>4. file' = file \/ file' = Append(file, u)
  BY DEF BashPrints
<1> HIDE DEF u
<1>5. CASE file' = file
  <2>1. TypeStream'
    BY <1>2, <1>3, <1>5 DEF TypeStream
  <2>2. InOrder'
    <3>1. /\ printed \in Nat /\ \A x \in 1..printed : x \in 1..printed' /\ printed <= printed'
          /\ last \in Nat
      BY <1>2 DEF TypeStream
    <3>2. last' <= printed'
      BY <1>2, <1>3, <3>1 DEF InOrder
    <3> QED BY <1>3, <1>5, <3>1, <3>2 DEF InOrder
  <2>3. Positions'
    BY <1>3, <1>5 DEF Positions
  <2> QED BY <1>3, <2>1, <2>2, <2>3 DEF Down, Later
<1>6. CASE file' = Append(file, u)
  <2>1. /\ file' \in Seq(Unit) /\ Len(file') = Len(file) + 1 /\ Len(file) \in Nat
        /\ file'[Len(file) + 1] = u /\ \A i \in 1..Len(file) : file'[i] = file[i]
    <3>1. file \in Seq(Unit)
      BY DEF TypeStream
    <3> QED BY ONLY <1>1, <1>6, <3>1, AppendProperties
  <2>2. TypeStream'
    BY <1>2, <1>3, <2>1 DEF TypeStream
  <2>3. InOrder'
    <3>1. \A i \in 1..Len(file') : i \in 1..Len(file) \/ i = Len(file) + 1
      BY <2>1
    <3>2. /\ printed \in Nat /\ last \in Nat /\ pos <= Len(file) /\ pos \in Nat /\ Len(file) \in Nat
          /\ \A i \in 1..Len(file) : file[i].at \in 1..printed
          /\ \A i, j \in 1..Len(file) : i < j => file[i].at < file[j].at
      BY DEF TypeStream, InOrder
    <3>6. \A i \in 1..Len(file') : file'[i].at \in 1..printed'
      BY ONLY <1>1, <1>2, <2>1, <3>1, <3>2
    <3>3. \A i, j \in 1..Len(file') : i < j => file'[i].at < file'[j].at
      <4> SUFFICES ASSUME NEW i \in 1..Len(file'), NEW j \in 1..Len(file'), i < j
                   PROVE  file'[i].at < file'[j].at
        OBVIOUS
      <4>1. i \in 1..Len(file)
        BY ONLY <2>1, i \in 1..Len(file'), j \in 1..Len(file'), i < j
      <4>2. CASE j \in 1..Len(file)
        BY <2>1, <3>2, <4>1, <4>2
      <4>3. CASE j = Len(file) + 1
        BY ONLY <1>1, <2>1, <3>2, <4>1, <4>3
      <4> QED BY <3>1, <4>2, <4>3
    <3>4. /\ \A i \in 1..Len(buf') : buf'[i].at \in 1..printed' /\ last' < buf'[i].at
          /\ \A i, j \in 1..Len(buf') : i < j => buf'[i].at < buf'[j].at
      BY <1>2, <1>3, <3>2 DEF InOrder
    <3>5. \A i \in 1..Len(file') : i > pos' => last' < file'[i].at /\ \A j \in 1..Len(buf') : buf'[j].at < file'[i].at
      BY <1>1, <1>3, <2>1, <3>1, <3>2 DEF InOrder
    <3> QED BY <1>2, <1>3, <3>2, <3>3, <3>4, <3>5, <3>6 DEF InOrder
  <2>4. Positions'
    <3> SUFFICES ASSUME ~truncated PROVE Positions'
      BY <1>3 DEF Positions
    <3>1. \A i \in 1..Len(buf) : pos - Len(buf) + i \in 1..Len(file)
      BY DEF TypeStream, Positions
    <3>2. \A i \in 1..pos - Len(buf) : i \in 1..Len(file)
      BY DEF TypeStream, Positions
    <3>3. \A i \in 1..stored : i \in 1..Len(file)
      BY DEF TypeStream, Positions
    <3>4. /\ rpc \notin {"storeZero", "startPipe"} /\ stored <= Len(file) /\ Len(buf) <= pos
          /\ IF rpc \in Feeding THEN offset + n = pos ELSE offset = pos /\ buf = <<>>
      BY DEF Positions
    <3>5. stored <= Len(file')
      BY <2>1, <3>4 DEF TypeStream
    <3>6. \A i \in 1..Len(buf) : buf[i] = file'[pos - Len(buf) + i]
      BY <2>1, <3>1 DEF Positions
    <3>7. \A i \in 1..pos - Len(buf) : file'[i] \in fed
      BY <2>1, <3>2 DEF Positions
    <3>8. \A i \in 1..stored : file'[i] \in fed
      BY <2>1, <3>3 DEF Positions
    <3> QED BY ONLY <1>3, <3>4, <3>5, <3>6, <3>7, <3>8 DEF Positions
  <2> QED BY <1>3, <2>2, <2>3, <2>4 DEF Down, Later
<1> QED BY <1>4, <1>5, <1>6

-----------------------------------------------------------------------------
(* ReadOnce *)

LEMMA ReadInv ==
  ASSUME Inv, Read PROVE Inv' /\ Later
<1> USE DEF Inv
<1>1. /\ rpc \in {"idle", "more"} /\ pos < Len(file) /\ n' = LeastOf(ReadMax, Len(file) - pos)
      /\ buf' = SubSeq(file, pos + 1, pos + n') /\ pos' = pos + n' /\ rpc' = "feed" /\ up /\ UNCHANGED up
      /\ UNCHANGED <<file, stored, offset, work, printed, fed, last, truncated>>
  BY DEF Read, streamVars, bashVars, histVars
<1>2. /\ n' \in 1..ReadMax /\ n' <= Len(file) - pos /\ n' \in Nat /\ pos' \in Nat /\ pos' <= Len(file)
      /\ pos \in Nat /\ Len(file) \in Nat /\ file \in Seq(Unit)
  BY <1>1, StreamAssumption DEF LeastOf, TypeStream
<1>3. buf' \in Seq(Unit) /\ Len(buf') = n' /\ \A i \in 1..n' : buf'[i] = file[pos + i] /\ pos + i \in 1..Len(file)
  <2> DEFINE len == Len(file)
             m == n'
  <2>1. m \in Nat /\ m >= 1 /\ pos \in Nat /\ len \in Nat /\ m <= len - pos
    BY <1>2, StreamAssumption
  <2>7. \A i \in 1..len : file[i] \in Unit
    BY <1>2
  <2>8. buf' = SubSeq(file, pos + 1, pos + m)
    BY <1>1
  <2> SUFFICES buf' \in Seq(Unit) /\ Len(buf') = m /\ \A i \in 1..m : buf'[i] = file[pos + i] /\ pos + i \in 1..len
    OBVIOUS
  <2> HIDE DEF len, m
  <2>2. PICK a \in Int, b \in Int : a = pos + 1 /\ b = pos + m
    BY ONLY <2>1
  <2>3. a <= b /\ b - a + 1 = m /\ a >= 1 /\ b <= len
    BY ONLY <2>1, <2>2
  <2>4. \A i \in a..b : file[i] \in Unit
    BY ONLY <2>1, <2>3, <2>7, a \in Int, b \in Int
  <2>5. \A i \in 1..m : a + i - 1 = pos + i /\ pos + i \in 1..len
    BY ONLY <2>1, <2>2
  <2>6. buf' = SubSeq(file, a, b)
    BY <2>2, <2>8
  <2> QED BY ONLY <2>3, <2>4, <2>5, <2>6, a \in Int, b \in Int, SubSeqProperties
<1>4. TypeStream'
  <2>1. n' \in 0..ReadMax
    BY ONLY <1>2, StreamAssumption
  <2> QED BY <1>1, <1>2, <1>3, <2>1 DEF TypeStream
<1>5. InOrder'
  <2>1. \A i \in 1..n' : buf'[i].at \in 1..printed /\ last < buf'[i].at
    BY <1>2, <1>3 DEF InOrder
  <2>2. \A i, j \in 1..n' : i < j => buf'[i].at < buf'[j].at
    <3>1. \A i, j \in 1..n' : i < j => pos + i < pos + j
      BY ONLY <1>2
    <3>2. \A i, j \in 1..Len(file) : i < j => file[i].at < file[j].at
      BY DEF InOrder
    <3> QED BY ONLY <1>3, <3>1, <3>2
  <2>3. \A i \in 1..Len(file) : i > pos' => last < file[i].at /\ \A j \in 1..n' : buf'[j].at < file[i].at
    BY <1>1, <1>2, <1>3 DEF InOrder
  <2> QED BY <1>1, <1>3, <2>1, <2>2, <2>3 DEF InOrder
<1>6. Positions'
  <2> SUFFICES ASSUME ~truncated PROVE Positions'
    BY <1>1 DEF Positions
  <2>1. buf = <<>> /\ offset = pos /\ stored <= Len(file) /\ pos' - Len(buf') = pos
    <3>1. buf = <<>> /\ offset = pos /\ stored <= Len(file)
      BY <1>1 DEF Positions, Feeding
    <3>2. pos' - Len(buf') = pos
      BY ONLY <1>1, <1>2, <1>3
    <3> QED BY <3>1, <3>2
  <2>2. \A i \in 1..pos : file[i] \in fed
    BY <1>2, <2>1 DEF Positions
  <2>3. \A i \in 1..Len(buf') : buf'[i] = file'[pos' - Len(buf') + i]
    BY <1>1, <1>3, <2>1
  <2>4. offset' + n' = pos' /\ Len(buf') <= pos' /\ rpc' \in Feeding
    BY <1>1, <1>2, <1>3, <2>1 DEF Feeding
  <2> QED BY <1>1, <2>1, <2>2, <2>3, <2>4 DEF Positions
<1> QED BY <1>1, <1>4, <1>5, <1>6 DEF Later, Down

LEMMA FeedInv ==
  ASSUME Inv, Feed PROVE Inv' /\ Later
<1> USE DEF Inv
<1> DEFINE u == Head(buf)
<1>1. /\ rpc = "feed" /\ buf # <<>> /\ fed' = fed \cup {u} /\ last' = u.at /\ buf' = Tail(buf) /\ up
      /\ UNCHANGED <<up, file, stored, pos, offset, n, work, printed, truncated>>
  BY DEF Feed, streamVars, bashVars
<1>2. rpc' \in {"feed", "stopPipe"}
  BY DEF Feed
<1>3. /\ buf \in Seq(Unit) /\ u \in Unit /\ u = buf[1] /\ Len(buf) \in Nat \ {0} /\ 1 \in 1..Len(buf)
      /\ buf' \in Seq(Unit) /\ Len(buf') = Len(buf) - 1
      /\ \A i \in 1..Len(buf') : buf'[i] = buf[i + 1] /\ i + 1 \in 1..Len(buf)
  <2>1. buf \in Seq(Unit)
    BY DEF TypeStream
  <2> QED BY <1>1, <2>1, HeadTailProperties
<1>4. u.at \in Nat
  BY <1>3 DEF Unit
<1> HIDE DEF u
<1>5. TypeStream'
  BY <1>1, <1>2, <1>3, <1>4 DEF TypeStream
<1>6. InOrder'
  <2>1. u.at \in 1..printed /\ last < u.at /\ last \in Nat /\ printed \in Nat
    BY <1>3 DEF InOrder, TypeStream
  <2>2. \A i \in 1..Len(buf') : buf'[i].at \in 1..printed /\ u.at < buf'[i].at
    <3>1. \A i \in 1..Len(buf') : 1 < i + 1
      BY ONLY <1>3
    <3>2. /\ \A i, j \in 1..Len(buf) : i < j => buf[i].at < buf[j].at
          /\ \A i \in 1..Len(buf) : buf[i].at \in 1..printed
      BY DEF InOrder
    <3> QED BY ONLY <1>3, <3>1, <3>2
  <2>3. \A i, j \in 1..Len(buf') : i < j => buf'[i].at < buf'[j].at
    BY <1>3 DEF InOrder
  <2>4. \A i \in 1..Len(file) : i > pos => u.at < file[i].at /\ \A j \in 1..Len(buf') : buf'[j].at < file[i].at
    BY <1>3 DEF InOrder
  <2> QED BY <1>1, <2>1, <2>2, <2>3, <2>4 DEF InOrder
<1>7. Positions'
  <2> SUFFICES ASSUME ~truncated PROVE Positions'
    BY <1>1 DEF Positions
  <2>1. /\ pos \in Nat /\ Len(buf) <= pos /\ offset + n = pos /\ stored <= Len(file)
        /\ pos - Len(buf') = (pos - Len(buf)) + 1 /\ file[(pos - Len(buf)) + 1] = u
    BY <1>1, <1>3 DEF TypeStream, Positions, Feeding
  <2>2. \A i \in 1..Len(buf') : buf'[i] = file[pos - Len(buf') + i]
    <3> SUFFICES ASSUME NEW i \in 1..Len(buf') PROVE buf'[i] = file[pos - Len(buf') + i]
      OBVIOUS
    <3>1. buf'[i] = buf[i + 1] /\ i + 1 \in 1..Len(buf)
      BY <1>3
    <3>2. pos - Len(buf) + (i + 1) = pos - Len(buf') + i
      BY <1>3, <2>1
    <3> QED BY <3>1, <3>2 DEF Positions
  <2>3. \A i \in 1..pos - Len(buf') : i \in 1..pos - Len(buf) \/ i = pos - Len(buf) + 1
    BY <1>3, <2>1
  <2>4. \A i \in 1..pos - Len(buf') : file[i] \in fed'
    BY <1>1, <2>1, <2>3 DEF Positions
  <2>5. \A i \in 1..stored : file[i] \in fed'
    BY <1>1 DEF Positions
  <2>6. Len(buf') <= pos /\ rpc' \in Feeding
    BY <1>2, <1>3, <2>1 DEF Feeding
  <2> QED BY <1>1, <2>1, <2>2, <2>4, <2>5, <2>6 DEF Positions, Feeding
<1>8. Later /\ Down'
  BY <1>1, <1>3, <1>4 DEF TypeStream, InOrder, Later, Down
<1> QED BY <1>5, <1>6, <1>7, <1>8

\* The end of a read, and the steps that only move on or store an offset.
LEMMA FedInv ==
  ASSUME Inv, Fed \/ ReadEof \/ PersistOffset \/ StopPipe \/ StartPipe \/ StoreZero PROVE Inv' /\ Later
<1> USE DEF Inv
<1>1. up /\ UNCHANGED <<up, file, pos, buf, n, work, printed, fed, last, truncated>>
  BY DEF Fed, ReadEof, PersistOffset, StopPipe, StartPipe, StoreZero, streamVars, bashVars, histVars
<1>2. \/ rpc = "feed" /\ buf = <<>> /\ offset' = offset + n /\ rpc' \in {"persist", "more"} /\ stored' = stored
      \/ rpc = "more" /\ rpc' = "persist" /\ UNCHANGED <<stored, offset>>
      \/ rpc = "persist" /\ stored' = offset /\ rpc' = "idle" /\ UNCHANGED offset
      \/ rpc = "stopPipe" /\ rpc' \in {"truncate", "feed"} /\ UNCHANGED <<stored, offset>>
      \/ rpc = "startPipe" /\ rpc' = "feed" /\ UNCHANGED <<stored, offset>>
      \/ rpc = "storeZero" /\ stored' = offset /\ rpc' = "startPipe" /\ UNCHANGED offset
  BY DEF Fed, ReadEof, PersistOffset, StopPipe, StartPipe, StoreZero, streamVars
<1>3. TypeStream'
  BY <1>1, <1>2 DEF TypeStream
<1>4. InOrder'
  BY <1>1 DEF InOrder
<1>5. Positions'
  <2> SUFFICES ASSUME ~truncated PROVE Positions'
    BY <1>1 DEF Positions
  <2>1. /\ rpc \notin {"storeZero", "startPipe"} /\ stored <= Len(file) /\ Len(buf) <= pos /\ pos <= Len(file)
        /\ IF rpc \in Feeding THEN offset + n = pos ELSE offset = pos /\ buf = <<>>
        /\ \A i \in 1..Len(buf) : buf[i] = file[pos - Len(buf) + i]
        /\ \A i \in 1..pos - Len(buf) : file[i] \in fed
        /\ \A i \in 1..stored : file[i] \in fed
    BY DEF TypeStream, Positions
  <2>2. buf = <<>> => pos - Len(buf) = pos
    BY DEF TypeStream
  <2>3. /\ rpc' \notin {"storeZero", "startPipe"} /\ stored' <= Len(file)
        /\ IF rpc' \in Feeding THEN offset' + n = pos ELSE offset' = pos /\ buf = <<>>
    BY ONLY <1>2, <2>1 DEF Feeding
  <2>4. \A i \in 1..stored' : file[i] \in fed
    BY ONLY <1>2, <2>1, <2>2 DEF Feeding
  <2> QED BY ONLY <1>1, <2>1, <2>3, <2>4 DEF Positions
<1> QED BY <1>1, <1>3, <1>4, <1>5 DEF Later, Down

LEMMA TruncateInv ==
  ASSUME Inv, Truncate PROVE Inv' /\ Later
<1> USE DEF Inv
<1>1. /\ file' = <<>> /\ pos' = 0 /\ offset' = 0 /\ truncated' = TRUE /\ rpc' = "storeZero"
      /\ up /\ UNCHANGED <<up, stored, buf, n, work, printed, fed, last>>
  BY DEF Truncate, bashVars
<1> QED BY <1>1 DEF TypeStream, InOrder, Positions, Later, Down

-----------------------------------------------------------------------------
(* Crashes and restarts *)

LEMMA GoneInv ==
  ASSUME Inv, ProcessGone \/ PodGone PROVE Inv' /\ Later
<1> USE DEF Inv
<1>1. /\ pos' = 0 /\ offset' = 0 /\ buf' = <<>> /\ n' = 0 /\ rpc' = "idle" /\ last' = 0
      /\ UNCHANGED <<file, stored, printed, fed, truncated>>
  BY DEF ProcessGone, PodGone, Gone
<1>2. work' \in Seq([cmd : Cmds, kind : Kinds])
  <2>1. work' = work \/ work' = <<>>
    BY DEF ProcessGone, PodGone
  <2>2. work \in Seq([cmd : Cmds, kind : Kinds]) /\ <<>> \in Seq([cmd : Cmds, kind : Kinds])
    BY DEF TypeStream
  <2> QED BY ONLY <2>1, <2>2, Zenon
<1>3. TypeStream'
  <2>1. buf' \in Seq(Unit) /\ 0 \in 0..ReadMax
    BY <1>1, StreamAssumption
  <2> QED BY <1>1, <1>2, <2>1 DEF TypeStream
<1>4. InOrder'
  BY <1>1 DEF TypeStream, InOrder
<1>5. Positions'
  <2>1. \A x : x \notin 1..0
    OBVIOUS
  <2>2. Len(buf') = 0 /\ pos' - Len(buf') = 0
    <3>1. buf' = <<>> /\ pos' = 0
      BY <1>1
    <3>2. Len(buf') = 0
      BY ONLY <3>1
    <3>3. 0 - 0 = 0
      OBVIOUS
    <3> QED BY ONLY <3>1, <3>2, <3>3, Zenon
  <2>3. ~truncated => stored <= Len(file) /\ \A i \in 1..stored : file[i] \in fed
    BY DEF Positions
  <2> QED BY ONLY <1>1, <2>1, <2>2, <2>3 DEF Positions, Feeding
<1> QED BY <1>1, <1>3, <1>4, <1>5 DEF Later, Down

LEMMA RestartInv ==
  ASSUME Inv, Restart PROVE Inv' /\ Later
<1> USE DEF Inv
<1>1. pos' = LeastOf(stored, Len(file)) /\ offset' = pos' /\ UNCHANGED <<buf, n, rpc>>
  BY DEF Restart, Resume, Recreate, OpenStream
<1>2. ~up /\ up' /\ UNCHANGED <<file, stored, work, printed, fed, last, truncated>>
  BY DEF Restart, Resume, Recreate, streamVars, bashVars, histVars
<1>3. buf = <<>> /\ rpc = "idle" /\ last = 0
  BY <1>2 DEF Down
<1>4. pos' \in Nat /\ pos' <= Len(file) /\ pos' <= stored
  BY <1>1 DEF LeastOf, TypeStream
<1>5. TypeStream'
  BY <1>1, <1>2, <1>4 DEF TypeStream
<1>6. InOrder'
  BY <1>1, <1>2, <1>3 DEF TypeStream, InOrder
<1>7. Positions'
  BY <1>1, <1>2, <1>3, <1>4 DEF TypeStream, Positions, Feeding
<1> QED BY <1>2, <1>5, <1>6, <1>7 DEF Later, Down

-----------------------------------------------------------------------------
(* The theorems *)

LEMMA InvStep == Inv /\ [Next]_vars => Inv' /\ Later
<1> SUFFICES ASSUME Inv, [Next]_vars PROVE Inv' /\ Later
  OBVIOUS
<1>1. ASSUME NEW c \in Cmds, Write(c) \/ Record(c) PROVE Inv' /\ Later
  <2>1. CASE Record(c)
    BY <2>1, Same DEF Record, streamVars, bashVars, histVars, Inv, TypeStream
  <2> QED BY <1>1, <2>1, WriteInv
<1>2. CASE ReadOnce
  BY <1>2, ReadInv, FeedInv, FedInv DEF ReadOnce
<1>3. CASE TruncateConsumed
  BY <1>3, FedInv, TruncateInv DEF TruncateConsumed
<1>4. CASE UNCHANGED vars
  BY <1>4, Same DEF vars, streamVars, bashVars, histVars, Inv, TypeStream
<1> QED BY <1>1, <1>2, <1>3, <1>4, BashPrintsInv, GoneInv, RestartInv DEF Next

LEMMA InvHolds == Spec => []Inv
<1>1. Inv /\ [Next]_vars => Inv'
  BY InvStep
<1> QED BY InvInit, <1>1, PTL DEF Spec

\* What a restart skips was fed to a parser, as long as nothing was truncated.
THEOREM OnceCorrect == Spec => []AtLeastOnce
<1>1. Inv => AtLeastOnce
  BY DEF Inv, TypeStream, Positions, AtLeastOnce
<1> QED BY <1>1, InvHolds, PTL

\* A parser is fed the units in the order they were printed, none of them twice.
THEOREM OrderCorrect == Spec => FedInOrder
<1>1. Inv /\ [Next]_vars => [Later]_vars
  BY InvStep
<1>2. Spec => [][Later]_vars
  BY <1>1, InvHolds, PTL DEF Spec
<1> QED BY <1>2 DEF FedInOrder, Later

-----------------------------------------------------------------------------
(* One command at a time in the stream, and what a truncation may take *)

\* The stages of TruncateConsumed.
Window == {"stopPipe", "truncate", "storeZero", "startPipe"}

Waiting == Len(file) - pos

\* Whatever is printed, in the file or in the buffer belongs to the current command,
\* and there is nothing left when none is current.
Alone ==
  /\ cur = None => work = <<>> /\ buf = <<>> /\ pos = Len(file) /\ pending = None
  /\ cur # None => cur \in Taken
  /\ pending # None => pending.cmd = cur
  /\ \A i \in 1..Len(work) : work[i].cmd = cur
  /\ \A i \in 1..Len(buf) : buf[i].cmd = cur
  /\ \A i \in 1..Len(file) : i > pos => file[i].cmd = cur

\* An END is followed by its second half and by nothing else.
Closes ==
  /\ pending # None /\ pending.kind = "end" => Len(buf) + Waiting + Len(work) <= 1
  /\ \A i \in 1..Len(buf) : buf[i].kind = "end" => (Len(buf) - i) + Waiting + Len(work) <= 1
  /\ \A i \in 1..Len(file) : i > pos /\ file[i].kind = "end" => (Len(file) - i) + Len(work) <= 1
  /\ \A i \in 1..Len(work) : work[i].kind = "end" => Len(work) - i <= 1

\* A START comes first, so that a command that has lost a unit has none to be read,
\* except in the part of the file that is about to be cut.
Starts ==
  /\ \A i \in 1..Len(work) : work[i].kind = "start" => i = 1 /\ pos = Len(file) /\ cur \notin lost
  /\ \A i \in 1..Len(buf) : buf[i].kind = "start" => cur \notin lost
  /\ rpc # "truncate" => \A i \in 1..Len(file) : i > pos /\ file[i].kind = "start" => cur \notin lost

\* While the file is being truncated, or the pipe is off for good, the parser is
\* not in a command and has nothing to read.
Windows ==
  /\ rpc \in Window \/ ~pipe => buf = <<>> /\ cur \notin Begun
  /\ ~pipe => rpc = "truncate" \/ file = <<>>

\* Nobody has heard of a command that was not submitted.
Told == lost \subseteq Taken /\ \A u \in fed : u.cmd \in Taken

\* As long as the process lives, a command is admitted after the one before it is
\* read to its END.
Serial == up /\ Alone /\ Closes /\ Starts /\ Windows /\ Told /\ Begun \cap lost = {}

BegunInv == crashes = 0 => Serial

LEMMA SeedTyped == ASSUME asked \in Seq(Cmds) PROVE Seed \in Cmds \cup {None}
<1> DEFINE rs == {i \in DOMAIN asked : asked[i] \in running}
           left == {Len(asked) - i : i \in rs}
<1> SUFFICES ASSUME rs # {} PROVE Seed \in Cmds
  BY DEF Seed
<1>1. Len(asked) \in Nat /\ DOMAIN asked = 1..Len(asked)
  OBVIOUS
<1>2. left \subseteq Nat /\ left # {}
  BY <1>1
<1>3. PICK x \in left : \A y \in left : <<y, x>> \notin OpToRel(<, Nat)
  BY <1>2, WFMin, NatLessThanWellFounded, Zenon
<1>4. PICK i \in rs : x = Len(asked) - i
  OBVIOUS
<1>5. ASSUME NEW j \in rs PROVE j <= i
  <2>1. Len(asked) - j \in left
    OBVIOUS
  <2>2. ~(Len(asked) - j < x)
    BY <1>2, <1>3, <2>1 DEF OpToRel
  <2> QED BY ONLY <1>1, <1>4, <2>2, i \in rs, j \in rs
<1>6. \E k \in rs : \A j \in rs : j <= k
  BY <1>5
<1>7. (CHOOSE k \in rs : \A j \in rs : j <= k) \in rs
  BY ONLY <1>6
<1> QED BY <1>7 DEF Seed

LEMMA TypeInit == Init => TypeRest
<1>1. 0 \in 0..MaxCrashes
  BY StreamAssumption
<1>2. <<>> \in Seq(Cmds)
  OBVIOUS
<1> QED BY <1>1, <1>2 DEF Init, TypeRest

LEMMA TypeStep ==
  ASSUME Inv, TypeRest, [Next]_vars PROVE TypeRest'
<1>1. ASSUME NEW c \in Cmds, Write(c) \/ Record(c) PROVE TypeRest'
  <2>1. Append(asked, c) \in Seq(Cmds)
    BY AppendProperties DEF TypeRest
  <2> QED BY <1>1, <2>1 DEF Write, Record, TypeRest, streamVars, readVars, parseVars, bashVars, recVars, histVars
<1>2. CASE BashPrints
  <2>1. work # <<>> /\ work \in Seq([cmd : Cmds, kind : Kinds])
    BY <1>2 DEF BashPrints, Inv, TypeStream
  <2>2. Head(work) \in [cmd : Cmds, kind : Kinds]
    BY ONLY <2>1, HeadTailProperties
  <2>3. Head(work).cmd \in Cmds
    BY <2>2
  <2>4. lost' = lost \/ lost' = lost \cup {Head(work).cmd}
    BY <1>2 DEF BashPrints
  <2> QED BY <1>2, <2>3, <2>4 DEF TypeRest, BashPrints, streamVars, readVars, parseVars, recVars
<1>3. CASE Feed
  BY <1>3, HeadTailProperties DEF Inv, TypeStream, TypeRest, Feed, Sentinel, Unit, streamVars, readVars, parseVars, bashVars, recVars, histVars
<1>4. CASE Read \/ ReadEof \/ Fed \/ PersistOffset
  BY <1>4 DEF TypeRest, Read, ReadEof, Fed, PersistOffset, streamVars, readVars, parseVars, bashVars, recVars, histVars
<1>5. CASE StopPipe \/ StoreZero \/ StartPipe
  BY <1>5 DEF TypeRest, StopPipe, StoreZero, StartPipe, streamVars, readVars, parseVars, bashVars, recVars, histVars
<1>6. CASE Truncate
  <2>1. \A i \in pos + 1..Len(file) : file[i] \in Unit
    <3>1. \A i \in 1..Len(file) : file[i] \in Unit
      BY DEF Inv, TypeStream
    <3>2. pos \in Nat /\ Len(file) \in Nat
      BY DEF Inv, TypeStream
    <3> QED BY ONLY <3>1, <3>2
  <2>2. \A u \in Unread : u.cmd \in Cmds
    BY <2>1 DEF Unread, Unit
  <2>3. lost' \subseteq Cmds
    BY <1>6, <2>2 DEF Truncate, TypeRest
  <2> QED BY <1>6, <2>3 DEF TypeRest, Truncate, parseVars, recVars
<1>7. CASE ProcessGone \/ PodGone
  <2>1. crashes' \in 0..MaxCrashes
    BY <1>7, StreamAssumption DEF TypeRest, ProcessGone, PodGone, Gone
  <2>2. live' \in BOOLEAN /\ pipe' \in BOOLEAN
    BY <1>7 DEF TypeRest, ProcessGone, PodGone
  <2>3. /\ up' = FALSE /\ cur' = None /\ inside' = None /\ pending' = None /\ toRecord' = {}
        /\ UNCHANGED <<running, asked, truncated, lost>>
    BY <1>7 DEF ProcessGone, PodGone, Gone
  <2> QED BY <2>1, <2>2, <2>3 DEF TypeRest
<1>8. Seed \in Cmds \cup {None}
  BY SeedTyped DEF TypeRest
<1>9. CASE Restart
  BY <1>8, <1>9 DEF TypeRest, Restart, Resume, Recreate, OpenStream, streamVars, readVars, parseVars, bashVars, recVars, histVars
<1>10. CASE UNCHANGED vars
  BY <1>10 DEF TypeRest, vars, streamVars, readVars, parseVars, bashVars, recVars, histVars
<1> QED BY <1>1, <1>2, <1>3, <1>4, <1>5, <1>6, <1>7, <1>9, <1>10 DEF Next, ReadOnce, TruncateConsumed

\* The facts about the sequences that the steps below take apart.
LEMMA Lengths ==
  ASSUME Inv PROVE /\ Len(work) \in Nat /\ Len(buf) \in Nat /\ Len(file) \in Nat /\ pos \in Nat
                   /\ pos <= Len(file) /\ work \in Seq([cmd : Cmds, kind : Kinds])
                   /\ buf \in Seq(Unit) /\ file \in Seq(Unit)
BY DEF Inv, TypeStream

\* The sentinels are at the two ends of what a command prints.
LEMMA WrapShape ==
  ASSUME NEW c \in Cmds
  PROVE  /\ Len(Wrap(c)) = Outputs + 4 /\ Wrap(c) \in Seq([cmd : Cmds, kind : Kinds])
         /\ \A i \in 1..Len(Wrap(c)) :
              /\ Wrap(c)[i].cmd = c
              /\ Wrap(c)[i].kind = "start" => i = 1
              /\ Wrap(c)[i].kind = "end" => Len(Wrap(c)) - i <= 1
<1> DEFINE body == [i \in 1..Outputs |-> "output"]
           open == <<"start", "close">> \o body
           kinds == open \o <<"end", "close">>
<1>1. Outputs \in Nat
  BY StreamAssumption
<1>2. body \in Seq(Kinds) /\ Len(body) = Outputs /\ \A i \in 1..Outputs : body[i] = "output"
  BY <1>1 DEF Kinds
<1> HIDE DEF body
<1>3. /\ open \in Seq(Kinds) /\ Len(open) = Outputs + 2
      /\ \A i \in 1..Outputs + 2 : (open[i] = "start" => i = 1) /\ open[i] # "end"
  BY <1>1, <1>2 DEF Kinds
<1> HIDE DEF open
<1>4. /\ kinds \in Seq(Kinds) /\ Len(kinds) = Outputs + 4
      /\ \A i \in 1..Outputs + 4 : (kinds[i] = "start" => i = 1) /\ (kinds[i] = "end" => i >= Outputs + 3)
  BY <1>1, <1>3 DEF Kinds
<1>5. Wrap(c) = [i \in DOMAIN kinds |-> [cmd |-> c, kind |-> kinds[i]]]
  BY DEF Wrap, open, body
<1> HIDE DEF kinds
<1>6. /\ DOMAIN kinds = 1..Outputs + 4 /\ \A i \in 1..Outputs + 4 : kinds[i] \in Kinds
  BY <1>1, <1>4
<1>7. Wrap(c) \in Seq([cmd : Cmds, kind : Kinds]) /\ Len(Wrap(c)) = Outputs + 4
  BY <1>1, <1>5, <1>6
<1>8. \A i \in 1..Outputs + 4 : Wrap(c)[i] = [cmd |-> c, kind |-> kinds[i]]
  BY <1>5, <1>6
<1> QED BY <1>1, <1>4, <1>7, <1>8

LEMMA WriteSerial ==
  ASSUME Inv, TypeRest, Serial, NEW c \in Cmds, Write(c) PROVE Serial'
<1>1. /\ up /\ cur = None /\ c \notin Taken /\ cur' = c /\ work' = work \o Wrap(c) /\ asked' = Append(asked, c)
      /\ UNCHANGED <<up, pipe, file, pos, buf, rpc, pending, fed, lost>>
  BY DEF Write, streamVars, readVars, histVars
<1>2. work = <<>> /\ buf = <<>> /\ pos = Len(file) /\ pending = None
  BY <1>1 DEF Serial, Alone
<1>3. work' = Wrap(c)
  BY <1>1, <1>2, WrapShape
<1>4. Taken' = Taken \cup {c}
  <2>1. /\ Len(asked') = Len(asked) + 1 /\ Len(asked) \in Nat /\ asked'[Len(asked) + 1] = c
        /\ \A i \in 1..Len(asked) : asked'[i] = asked[i]
        /\ DOMAIN asked' = 1..Len(asked') /\ DOMAIN asked = 1..Len(asked)
    BY <1>1, AppendProperties DEF TypeRest
  <2>2. \A i : i \in 1..Len(asked') <=> i \in 1..Len(asked) \/ i = Len(asked) + 1
    BY ONLY <2>1
  <2> QED BY ONLY <2>1, <2>2 DEF Taken
<1>5. c # None /\ Len(buf) = 0 /\ \A i \in 1..Len(file) : ~(i > pos)
  BY <1>2, StreamAssumption, Lengths
<1>6. Alone'
  BY <1>1, <1>2, <1>3, <1>4, <1>5, WrapShape DEF Alone
<1>7. Closes'
  BY <1>1, <1>2, <1>3, <1>5, WrapShape DEF Closes
<1>8. Starts'
  <2>1. c \notin lost
    BY <1>1 DEF Serial, Told
  <2> QED BY <1>1, <1>2, <1>3, <1>5, <2>1, WrapShape DEF Starts
<1>9. Begun' = Begun /\ c \notin Begun
  BY <1>1 DEF Serial, Told, Begun
<1>10. Windows'
  BY <1>1, <1>2, <1>9 DEF Serial, Windows
<1>11. Told'
  BY <1>1, <1>4 DEF Serial, Told
<1> QED BY <1>1, <1>6, <1>7, <1>8, <1>9, <1>10, <1>11 DEF Serial

LEMMA BashPrintsSerial ==
  ASSUME Inv, TypeRest, Serial, BashPrints PROVE Serial'
<1> DEFINE u == [at |-> printed + 1, cmd |-> Head(work).cmd, kind |-> Head(work).kind]
<1>1. /\ work # <<>> /\ work' = Tail(work)
      /\ IF pipe THEN file' = Append(file, u) /\ lost' = lost ELSE lost' = lost \cup {u.cmd} /\ file' = file
      /\ UNCHANGED <<up, pipe, pos, buf, rpc, pending, cur, asked, fed>>
  BY DEF BashPrints, readVars, parseVars, recVars
<1>2. /\ Len(work) \in Nat \ {0} /\ Len(work') = Len(work) - 1 /\ Head(work) = work[1] /\ 1 \in 1..Len(work)
      /\ \A i \in 1..Len(work') : work'[i] = work[i + 1] /\ i + 1 \in 1..Len(work)
  BY <1>1, Lengths, HeadTailProperties
<1>3. cur # None /\ cur \in Taken /\ u.cmd = cur /\ u.kind = work[1].kind
  BY <1>1, <1>2 DEF Serial, Alone
<1>4. /\ Begun' = Begun /\ Taken' = Taken
  BY <1>1 DEF Begun, Taken
<1>5. \A i \in 1..Len(work') : work'[i].kind # "start" /\ work'[i].cmd = cur
  BY <1>2 DEF Serial, Alone, Starts
<1>6. \A i \in 1..Len(work') : work'[i].kind = "end" => Len(work') - i <= 1
  <2>1. \A i \in 1..Len(work) : work[i].kind = "end" => Len(work) - i <= 1
    BY DEF Serial, Closes
  <2> QED BY ONLY <1>2, <2>1
<1>9. u \in Unit
  <2>1. work # <<>> /\ work \in Seq([cmd : Cmds, kind : Kinds])
    BY <1>1, Lengths
  <2>2. Head(work) \in [cmd : Cmds, kind : Kinds]
    BY ONLY <2>1, HeadTailProperties
  <2>3. printed + 1 \in Nat
    BY DEF Inv, TypeStream
  <2> QED BY <2>2, <2>3 DEF Unit
<1> HIDE DEF u
<1>7. CASE pipe
  <2>1. /\ Len(file') = Len(file) + 1 /\ file'[Len(file) + 1] = u
        /\ \A i \in 1..Len(file) : file'[i] = file[i]
        /\ \A i \in 1..Len(file') : i \in 1..Len(file) \/ i = Len(file) + 1
    <3>1. u \in Unit /\ file \in Seq(Unit) /\ file' = Append(file, u) /\ Len(file) \in Nat
      BY <1>1, <1>7, <1>9, Lengths
    <3>2. /\ Len(file') = Len(file) + 1 /\ file'[Len(file) + 1] = u
          /\ \A i \in 1..Len(file) : file'[i] = file[i]
      BY ONLY <3>1, AppendProperties
    <3> QED BY ONLY <3>1, <3>2
  <2>2. Len(file) \in Nat /\ Len(buf) \in Nat /\ pos \in Nat
    BY Lengths
  <2>3. Alone'
    BY <1>1, <1>3, <1>4, <1>5, <2>1 DEF Serial, Alone
  <2>4. Closes'
    <3>1. Len(buf') + Waiting' + Len(work') = Len(buf) + Waiting + Len(work)
      BY <1>1, <1>2, <2>1, <2>2 DEF Waiting
    <3>2. \A i \in 1..Len(buf) : (Len(buf') - i) + Waiting' + Len(work') = (Len(buf) - i) + Waiting + Len(work)
      BY <1>1, <1>2, <2>1, <2>2 DEF Waiting
    <3>3. \A i \in 1..Len(file') : i > pos /\ file'[i].kind = "end" => (Len(file') - i) + Len(work') <= 1
      <4> SUFFICES ASSUME NEW i \in 1..Len(file'), i > pos, file'[i].kind = "end"
                   PROVE  (Len(file') - i) + Len(work') <= 1
        OBVIOUS
      <4>1. CASE i \in 1..Len(file)
        <5>1. (Len(file) - i) + Len(work) <= 1
          BY <2>1, <4>1 DEF Serial, Closes
        <5> QED BY ONLY <1>2, <2>1, <2>2, <4>1, <5>1
      <4>2. CASE i = Len(file) + 1
        <5>1. Len(work) - 1 <= 1
          BY <1>2, <1>3, <2>1, <4>2 DEF Serial, Closes
        <5> QED BY ONLY <1>2, <2>1, <2>2, <4>2, <5>1
      <4> QED BY <2>1, <4>1, <4>2
    <3> QED BY <1>1, <1>6, <3>1, <3>2, <3>3 DEF Serial, Closes
  <2>5. Starts'
    <3>1. \A i \in 1..Len(file') : i > pos /\ file'[i].kind = "start" /\ rpc # "truncate" => cur \notin lost
      BY <1>2, <1>3, <2>1 DEF Serial, Starts
    <3> QED BY <1>1, <1>5, <1>7, <3>1 DEF Serial, Starts
  <2>6. Windows' /\ Told'
    BY <1>1, <1>4, <1>7 DEF Serial, Windows, Told
  <2> QED BY <1>1, <1>4, <1>7, <2>3, <2>4, <2>5, <2>6 DEF Serial
<1>8. CASE ~pipe
  <2>1. file' = file /\ lost' = lost \cup {cur} /\ Waiting' = Waiting
    BY <1>1, <1>3, <1>8 DEF Waiting
  <2>2. buf = <<>> /\ cur \notin Begun /\ (rpc = "truncate" \/ file = <<>>)
    BY <1>8 DEF Serial, Windows
  <2>3. Alone'
    BY <1>1, <1>3, <1>4, <1>5, <2>1 DEF Serial, Alone
  <2>4. Closes'
    <3>1. Len(buf) \in Nat /\ Len(file) \in Nat /\ Waiting \in Nat /\ Len(buf) = 0
      BY <2>2, Lengths DEF Waiting
    <3>2. \A i \in 1..Len(file) : i > pos /\ file[i].kind = "end" => (Len(file) - i) + Len(work') <= 1
      <4>1. \A i \in 1..Len(file) : i > pos /\ file[i].kind = "end" => (Len(file) - i) + Len(work) <= 1
        BY DEF Serial, Closes
      <4> QED BY ONLY <1>2, <3>1, <4>1
    <3>3. pending # None /\ pending.kind = "end" => Len(buf) + Waiting + Len(work') <= 1
      <4>1. pending # None /\ pending.kind = "end" => Len(buf) + Waiting + Len(work) <= 1
        BY DEF Serial, Closes
      <4> QED BY ONLY <1>2, <3>1, <4>1
    <3>4. \A i \in 1..Len(buf) : FALSE
      BY <3>1
    <3> QED BY <1>1, <1>6, <2>1, <3>2, <3>3, <3>4 DEF Closes
  <2>5. Starts'
    <3>1. Len(buf) = 0 /\ (file = <<>> => Len(file) = 0)
      BY <2>2
    <3> QED BY <1>1, <1>5, <2>1, <2>2, <3>1 DEF Starts
  <2>6. Windows' /\ Told'
    BY <1>1, <1>3, <1>4, <2>1 DEF Serial, Windows, Told
  <2> QED BY <1>1, <1>4, <2>1, <2>2, <2>3, <2>4, <2>5, <2>6 DEF Serial
<1> QED BY <1>7, <1>8

LEMMA ReadBuf ==
  ASSUME Inv, Read
  PROVE  Len(buf') = n' /\ \A i \in 1..n' : buf'[i] = file[pos + i] /\ pos + i \in 1..Len(file) /\ pos + i > pos
<1>1. pos < Len(file) /\ n' = LeastOf(ReadMax, Len(file) - pos) /\ buf' = SubSeq(file, pos + 1, pos + n')
  BY DEF Read
<1> DEFINE len == Len(file)
           m == n'
<1>2. m \in Nat /\ m >= 1 /\ pos \in Nat /\ len \in Nat /\ m <= len - pos
  BY <1>1, StreamAssumption, Lengths DEF LeastOf
<1>3. \A i \in 1..len : file[i] \in Unit
  BY Lengths
<1>4. buf' = SubSeq(file, pos + 1, pos + m)
  BY <1>1
<1> SUFFICES Len(buf') = m /\ \A i \in 1..m : buf'[i] = file[pos + i] /\ pos + i \in 1..len /\ pos + i > pos
  OBVIOUS
<1> HIDE DEF len, m
<1>5. PICK a \in Int, b \in Int : a = pos + 1 /\ b = pos + m
  BY ONLY <1>2
<1>6. a <= b /\ b - a + 1 = m /\ a >= 1 /\ b <= len
  BY ONLY <1>2, <1>5
<1>7. \A i \in a..b : file[i] \in Unit
  BY ONLY <1>2, <1>3, <1>6, a \in Int, b \in Int
<1>8. \A i \in 1..m : a + i - 1 = pos + i /\ pos + i \in 1..len /\ pos + i > pos
  BY ONLY <1>2, <1>5
<1>9. buf' = SubSeq(file, a, b)
  BY <1>4, <1>5
<1> QED BY ONLY <1>6, <1>7, <1>8, <1>9, a \in Int, b \in Int, SubSeqProperties

LEMMA ReadSerial ==
  ASSUME Inv, TypeRest, Serial, Read PROVE Serial'
<1>1. /\ rpc \in {"idle", "more"} /\ pos < Len(file) /\ n' = LeastOf(ReadMax, Len(file) - pos)
      /\ buf' = SubSeq(file, pos + 1, pos + n') /\ pos' = pos + n' /\ rpc' = "feed"
      /\ UNCHANGED <<up, pipe, file, work, pending, cur, asked, fed, lost>>
  BY DEF Read, streamVars, parseVars, bashVars, recVars, histVars
<1>2. /\ n' \in Nat /\ n' >= 1 /\ n' <= Len(file) - pos
      /\ Len(file) \in Nat /\ pos \in Nat /\ Len(buf) \in Nat /\ Len(work) \in Nat
  BY <1>1, StreamAssumption, Lengths DEF LeastOf
<1>3. Len(buf') = n' /\ \A i \in 1..n' : buf'[i] = file[pos + i] /\ pos + i \in 1..Len(file) /\ pos + i > pos
  BY <1>1, ReadBuf, <1>2
<1>4. Begun' = Begun /\ Taken' = Taken /\ pipe
  <2>1. file # <<>> /\ rpc # "truncate"
    BY <1>1, <1>2
  <2> QED BY <1>1, <2>1 DEF Begun, Taken, Serial, Windows
<1>9. /\ pos' = pos + n' /\ Waiting' = Waiting - n' /\ Waiting = Len(file) - pos
      /\ \A i \in 1..Len(file) : i > pos' => i > pos
  <2>1. pos + n' = pos' /\ file' = file
    BY <1>1
  <2>2. Waiting' = Waiting - n' /\ Waiting = Len(file) - pos
    BY <1>2, <2>1 DEF Waiting
  <2>3. pos' \in Nat /\ pos' > pos /\ pos \in Nat /\ Len(file) \in Nat
    BY ONLY <1>2, <2>1
  <2>4. \A i \in 1..Len(file) : i > pos' => i > pos
    BY ONLY <2>3
  <2> QED BY <2>1, <2>2, <2>4
<1>5. Alone'
  <2>1. cur # None
    <3>1. pos # Len(file)
      BY <1>1, <1>2
    <3> QED BY <3>1 DEF Serial, Alone
  <2>2. \A i \in 1..n' : buf'[i].cmd = cur
    BY <1>3 DEF Serial, Alone
  <2>3. \A i \in 1..Len(file) : i > pos' => file[i].cmd = cur
    BY <1>9 DEF Serial, Alone
  <2>4. Len(buf') = n'
    BY <1>3
  <2> QED BY <1>1, <1>4, <2>1, <2>2, <2>3, <2>4 DEF Serial, Alone
<1>6. Closes'
  <2>1. pending # None /\ pending.kind = "end" => Len(buf') + Waiting' + Len(work') <= 1
    <3>1. pending # None /\ pending.kind = "end" => Len(buf) + Waiting + Len(work) <= 1
      BY DEF Serial, Closes
    <3>2. UNCHANGED <<pending, work>>
      BY <1>1
    <3> QED BY ONLY <1>2, <1>3, <1>9, <3>1, <3>2
  <2>2. \A i \in 1..Len(file) : i > pos /\ file[i].kind = "end" => (Len(file) - i) + Len(work) <= 1
    BY DEF Serial, Closes
  <2>3. \A i \in 1..n' : (Len(buf') - i) + Waiting' + Len(work') = (Len(file) - (pos + i)) + Len(work)
    <3>1. work' = work
      BY <1>1
    <3> QED BY ONLY <1>2, <1>3, <1>9, <3>1
  <2>4. \A i \in 1..n' : buf'[i].kind = "end" => (Len(buf') - i) + Waiting' + Len(work') <= 1
    BY ONLY <1>3, <2>2, <2>3
  <2> QED BY <1>1, <1>3, <1>9, <2>1, <2>2, <2>4 DEF Serial, Closes
<1>7. Starts'
  <2>2. \A i \in 1..Len(work) : work[i].kind # "start"
    BY <1>1, <1>2 DEF Serial, Starts
  <2> QED BY <1>1, <1>3, <1>9, <2>2 DEF Serial, Starts
<1>8. Windows' /\ Told'
  BY <1>1, <1>4 DEF Serial, Windows, Window, Told
<1> QED BY <1>1, <1>4, <1>5, <1>6, <1>7, <1>8 DEF Serial

LEMMA FeedSerial ==
  ASSUME Inv, TypeRest, Serial, Feed PROVE Serial'
<1> DEFINE u == Head(buf)
<1>1. /\ rpc = "feed" /\ buf # <<>> /\ fed' = fed \cup {u} /\ buf' = Tail(buf)
      /\ UNCHANGED <<up, pipe, file, pos, work, asked, lost>>
  BY DEF Feed, streamVars, bashVars
<1>2. /\ u \in Unit /\ u = buf[1] /\ Len(buf) \in Nat \ {0} /\ 1 \in 1..Len(buf) /\ Len(buf') = Len(buf) - 1
      /\ \A i \in 1..Len(buf') : buf'[i] = buf[i + 1] /\ i + 1 \in 1..Len(buf)
  BY <1>1, Lengths, HeadTailProperties
<1>3. \/ u.kind = "output" /\ UNCHANGED <<pending, cur, rpc>>
      \/ u.kind # "output" /\ pending = None /\ pending' = u /\ UNCHANGED <<cur, rpc>>
      \/ /\ u.kind # "output" /\ pending # None /\ pending' = None /\ pending.kind # "end" /\ UNCHANGED rpc
         /\ cur' = IF pending.kind = "start" THEN pending.cmd ELSE cur
      \/ /\ u.kind # "output" /\ pending # None /\ pending' = None /\ pending.kind = "end" /\ cur' = None
         /\ rpc' \in {"feed", "stopPipe"}
  BY <1>1 DEF Feed, Sentinel, Truncates, parseVars
<1> HIDE DEF u
<1>4. u.cmd = cur /\ cur # None /\ cur \in Taken /\ pipe
  BY <1>1, <1>2, StreamAssumption DEF Serial, Alone, Windows
<1>5. Taken' = Taken /\ Begun' \subseteq Begun \cup {cur} /\ (u.kind # "start" => Begun' = Begun)
  BY <1>1, <1>4 DEF Taken, Begun
<1>6. Begun' \cap lost' = {}
  BY <1>1, <1>2, <1>5 DEF Serial, Starts
<1>7. Told'
  BY <1>1, <1>4, <1>5 DEF Serial, Told
<1>8. Len(work) \in Nat /\ Waiting \in Nat /\ Waiting' = Waiting
  BY <1>1, Lengths DEF Waiting
<1>9. /\ \A i \in 1..Len(buf') : buf'[i].kind = "end" => (Len(buf') - i) + Waiting + Len(work) <= 1
      /\ u.kind = "end" => Len(buf') + Waiting + Len(work) <= 1
  <2>1. \A i \in 1..Len(buf) : buf[i].kind = "end" => (Len(buf) - i) + Waiting + Len(work) <= 1
    BY DEF Serial, Closes
  <2> QED BY ONLY <1>2, <1>8, <2>1
<1>10. /\ \A i \in 1..Len(file) : i > pos /\ file[i].kind = "end" => (Len(file) - i) + Len(work) <= 1
       /\ \A i \in 1..Len(work) : work[i].kind = "end" => Len(work) - i <= 1
  BY DEF Serial, Closes
<1>11. CASE cur' = cur /\ rpc' = rpc /\ (pending' \in {None, u} \/ (UNCHANGED pending /\ u.kind = "output"))
  <2>1. Alone'
    BY <1>1, <1>2, <1>4, <1>5, <1>11 DEF Serial, Alone
  <2>2. pending' # None /\ pending'.kind = "end" => Len(buf') + Waiting + Len(work) <= 1
    <3>1. CASE pending' \in {None, u}
      BY <1>9, <3>1
    <3>2. CASE UNCHANGED pending
      <4>1. pending # None /\ pending.kind = "end" => Len(buf) + Waiting + Len(work) <= 1
        BY DEF Serial, Closes
      <4> QED BY ONLY <1>2, <1>8, <3>2, <4>1
    <3> QED BY <1>11, <3>1, <3>2
  <2>3. Closes'
    BY <1>1, <1>8, <1>9, <1>10, <2>2 DEF Closes
  <2>4. Starts'
    BY <1>1, <1>2, <1>11 DEF Serial, Starts
  <2>5. Windows'
    BY <1>1, <1>4, <1>11 DEF Serial, Windows, Window
  <2> QED BY <1>1, <1>6, <1>7, <2>1, <2>3, <2>4, <2>5 DEF Serial
<1>12. CASE pending # None /\ pending' = None /\ pending.kind = "end" /\ cur' = None /\ rpc' \in {"feed", "stopPipe"}
  <2>1. Len(buf) + Waiting + Len(work) <= 1
    BY <1>12 DEF Serial, Closes
  <2>2. Len(buf') = 0 /\ Len(work) = 0 /\ Waiting = 0
    BY ONLY <1>2, <1>8, <2>1
  <2>3. buf' = <<>> /\ work = <<>> /\ pos = Len(file)
    <3>1. buf' \in Seq(Unit)
      BY <1>1, Lengths, HeadTailProperties
    <3> QED BY <2>2, <3>1, Lengths, EmptySeq DEF Waiting
  <2>4. \A i \in 1..Len(file) : ~(i > pos)
    BY <2>3, Lengths
  <2>5. Alone' /\ Closes' /\ Starts'
    BY <1>1, <1>12, <2>2, <2>3, <2>4 DEF Alone, Closes, Starts
  <2>6. None \notin Begun'
    <3>1. \A v \in fed' : v.cmd \in Cmds
      <4>1. fed \subseteq Unit
        BY DEF Inv, TypeStream
      <4> QED BY <1>1, <1>2, <4>1 DEF Unit
    <3> QED BY <3>1, StreamAssumption DEF Begun
  <2>7. Windows'
    BY <1>1, <1>4, <1>12, <2>3, <2>6 DEF Windows
  <2> QED BY <1>1, <1>6, <1>7, <2>5, <2>7 DEF Serial
<1>13. pending # None /\ pending.kind = "start" => pending.cmd = cur
  BY DEF Serial, Alone
<1>14. CASE u.kind = "output" /\ UNCHANGED <<pending, cur, rpc>>
  BY <1>11, <1>14
<1>15. CASE u.kind # "output" /\ pending = None /\ pending' = u /\ UNCHANGED <<cur, rpc>>
  <2>1. cur' = cur /\ rpc' = rpc
    BY <1>15
  <2>2. pending' \in {None, u}
    BY <1>15
  <2> QED BY <1>11, <2>1, <2>2
<1>16. CASE /\ u.kind # "output" /\ pending # None /\ pending' = None /\ pending.kind # "end" /\ UNCHANGED rpc
            /\ cur' = IF pending.kind = "start" THEN pending.cmd ELSE cur
  <2>1. cur' = cur
    BY <1>13, <1>16
  <2>2. pending' \in {None, u} /\ rpc' = rpc
    BY <1>16
  <2> QED BY <1>11, <2>1, <2>2
<1> QED BY <1>3, <1>12, <1>14, <1>15, <1>16

\* The steps of ReadOnce and TruncateConsumed that neither take from the file nor feed.
LEMMA MoveSerial ==
  ASSUME Inv, TypeRest, Serial, ReadEof \/ Fed \/ PersistOffset \/ StopPipe \/ StoreZero \/ StartPipe PROVE Serial'
<1>1. UNCHANGED <<up, file, pos, buf, work, pending, cur, asked, fed, lost>>
  BY DEF ReadEof, Fed, PersistOffset, StopPipe, StoreZero, StartPipe, streamVars, parseVars, bashVars, recVars, histVars
<1>2. \/ rpc \notin Window /\ rpc' \notin Window /\ UNCHANGED pipe
      \/ rpc = "stopPipe" /\ rpc' = "truncate" /\ pipe' = FALSE
      \/ rpc = "stopPipe" /\ rpc' = "feed" /\ UNCHANGED pipe
      \/ rpc = "storeZero" /\ rpc' = "startPipe" /\ UNCHANGED pipe
      \/ rpc = "startPipe" /\ rpc' = "feed" /\ (pipe' = TRUE \/ UNCHANGED pipe)
  BY DEF ReadEof, Fed, PersistOffset, StopPipe, StoreZero, StartPipe, Window, streamVars
<1>3. Alone' /\ Closes' /\ Told' /\ Begun' = Begun
  BY <1>1 DEF Serial, Alone, Closes, Told, Begun, Taken, Waiting
<1>4. Starts'
  BY <1>1, <1>2 DEF Serial, Starts, Window
<1>5. Windows'
  BY <1>1, <1>2, <1>3 DEF Serial, Windows, Window
<1> QED BY <1>1, <1>3, <1>4, <1>5 DEF Serial

LEMMA TruncateSerial ==
  ASSUME Inv, TypeRest, Serial, Truncate PROVE Serial'
<1>1. /\ rpc = "truncate" /\ file' = <<>> /\ pos' = 0 /\ rpc' = "storeZero"
      /\ lost' = lost \cup {u.cmd : u \in Unread} /\ UNCHANGED <<up, pipe, buf, work, pending, cur, asked, fed>>
  BY DEF Truncate, parseVars, bashVars, recVars
<1>2. buf = <<>> /\ Len(buf) = 0 /\ cur \notin Begun /\ Begun' = Begun /\ Taken' = Taken
  BY <1>1 DEF Serial, Windows, Window, Begun, Taken
<1>3. \A i \in pos + 1..Len(file) : i \in 1..Len(file) /\ i > pos
  BY Lengths
<1>4. lost' \subseteq lost \cup {cur} /\ (pos = Len(file) => lost' = lost)
  <2>1. \A u \in Unread : u.cmd = cur
    BY <1>3 DEF Serial, Alone, Unread
  <2>2. pos = Len(file) => Unread = {}
    BY Lengths DEF Unread
  <2> QED BY <1>1, <2>1, <2>2
<1>5. lost' \subseteq Taken
  <2>1. cur = None => lost' = lost
    BY <1>4 DEF Serial, Alone
  <2> QED BY <1>4, <2>1 DEF Serial, Alone, Told
<1>6. Len(file') = 0 /\ Len(file) \in Nat /\ Len(work) \in Nat /\ Waiting \in Nat /\ Waiting' = 0
  BY <1>1, Lengths DEF Waiting
<1>7. Alone'
  BY <1>1, <1>2, <1>6 DEF Serial, Alone
<1>8. Closes'
  <2>1. pending # None /\ pending.kind = "end" => Len(buf) + Waiting + Len(work) <= 1
    BY DEF Serial, Closes
  <2>2. pending # None /\ pending.kind = "end" => Len(buf) + 0 + Len(work) <= 1
    BY ONLY <1>2, <1>6, <2>1
  <2> QED BY <1>1, <1>2, <1>6, <2>2 DEF Serial, Closes
<1>9. Starts'
  BY <1>1, <1>2, <1>4, <1>6 DEF Serial, Starts
<1>10. Windows' /\ Told'
  BY <1>1, <1>2, <1>5 DEF Serial, Windows, Told
<1>11. Begun' \cap lost' = {}
  BY <1>2, <1>4 DEF Serial
<1> QED BY <1>1, <1>7, <1>8, <1>9, <1>10, <1>11 DEF Serial

LEMMA BegunStep ==
  ASSUME Inv, TypeRest, BegunInv, [Next]_vars PROVE BegunInv'
<1> SUFFICES ASSUME crashes' = 0 PROVE Serial'
  BY DEF BegunInv
<1>1. ~(ProcessGone \/ PodGone)
  BY DEF ProcessGone, PodGone, Gone, TypeRest
<1>2. UNCHANGED crashes
  BY <1>1 DEF Next, Write, Record, BashPrints, ReadOnce, Read, ReadEof, Feed, Fed, PersistOffset,
     TruncateConsumed, StopPipe, Truncate, StoreZero, StartPipe, Restart, Resume, Recreate, vars
<1>3. Serial
  BY <1>2 DEF BegunInv
<1>4. ~Restart
  BY <1>3 DEF Serial, Restart, Resume, Recreate
<1>5. CASE UNCHANGED vars
  BY <1>3, <1>5 DEF Serial, Alone, Closes, Starts, Windows, Told, Begun, Taken, Waiting,
     vars, streamVars, readVars, parseVars, bashVars, recVars, histVars
<1>6. ASSUME NEW c \in Cmds, Record(c) PROVE Serial'
  BY <1>3, <1>6 DEF Record, Serial, Alone, Closes, Starts, Windows, Told, Begun, Taken, Waiting,
     streamVars, readVars, parseVars, bashVars, histVars
<1> QED BY <1>1, <1>3, <1>4, <1>5, <1>6, WriteSerial, BashPrintsSerial, ReadSerial, FeedSerial, MoveSerial,
           TruncateSerial DEF Next, ReadOnce, TruncateConsumed

LEMMA BegunInit == Init => BegunInv
BY DEF Init, BegunInv, Serial, Alone, Closes, Starts, Windows, Window, Told, Begun

\* Every variable keeps its type.
THEOREM TypeCorrect == Spec => []TypeOK
<1>1. Inv /\ TypeRest /\ [Next]_vars => TypeRest'
  BY TypeStep
<1>2. Spec => []TypeRest
  BY TypeInit, <1>1, InvHolds, PTL DEF Spec
<1>3. Inv /\ TypeRest => TypeOK
  BY DEF Inv, TypeOK
<1> QED BY <1>2, <1>3, InvHolds, PTL

\* Truncation takes nothing of a command whose START was read.
THEOREM BegunCorrect == Spec => []BegunKeepsOutput
<1>1. Inv /\ TypeOK /\ BegunInv /\ [Next]_vars => BegunInv'
  BY BegunStep DEF TypeOK
<1>2. Spec => []BegunInv
  BY BegunInit, <1>1, InvHolds, TypeCorrect, PTL DEF Spec
<1>3. BegunInv => BegunKeepsOutput
  BY DEF BegunInv, BegunKeepsOutput, Serial
<1> QED BY <1>2, <1>3, PTL

=============================================================================
