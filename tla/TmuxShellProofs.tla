-------------------------- MODULE TmuxShellProofs --------------------------
(* Proofs about TmuxShell, for every set of commands and handlers.          *)
EXTENDS TmuxShell, FiniteSetTheorems, TLAPS

\* The shape of an event and of the current command, used by every step that
\* builds one.
LEMMA EventTyping ==
  /\ NoCmd \in Running
  /\ \A c \in Cmds : Fresh(c) \in Running
  /\ \A k \in {"Started", "Chunk", "Ended"}, c \in Cmds, r \in Running :
       <<[kind |-> k, cmd |-> c, out |-> r.buf, trunc |-> r.trunc]>> \in Seq(Event)
<1>1. \A c \in Cmds : Fresh(c) \in Running /\ NoCmd \in Running
  BY DEF Fresh, NoCmd, Running
<1>2. NoCmd \in Running
  BY DEF NoCmd, Running
<1>3. ASSUME NEW k \in {"Started", "Chunk", "Ended"}, NEW c \in Cmds, NEW r \in Running
      PROVE  <<[kind |-> k, cmd |-> c, out |-> r.buf, trunc |-> r.trunc]>> \in Seq(Event)
  <2>1. r.buf \in Seq(Piece) /\ r.trunc \in BOOLEAN
    BY DEF Running
  <2>2. [kind |-> k, cmd |-> c, out |-> r.buf, trunc |-> r.trunc] \in Event
    BY <2>1 DEF Event
  <2> QED BY <2>2
<1> QED BY <1>1, <1>2, <1>3

LEMMA EmptyTyping == <<>> \in Seq(Cmds \cup {Claude}) /\ <<>> \in Seq(Event)
OBVIOUS

\* What an action that leaves a group of variables alone leaves typed.
LEMMA TypeFrame ==
  ASSUME TypeOK
  PROVE  /\ UNCHANGED wpc => TypeWrite'
         /\ UNCHANGED <<cur, stopping, closed>> => TypeCur'
         /\ UNCHANGED shellVars => TypeCur' /\ UNCHANGED unsent
         /\ UNCHANGED loopVars => TypeLoop'
         /\ UNCHANGED pollVars => TypePoll'
         /\ UNCHANGED handVars => TypeHand' /\ UNCHANGED hev
         /\ UNCHANGED <<closeVars, mode>> => TypeClose'
         /\ UNCHANGED paneVars => TypePane'
         /\ UNCHANGED <<stream, made>> => TypeData'
         /\ UNCHANGED <<unsent, hev, published>> => TypeEvents'
<1> USE DEF TypeOK
<1>1. UNCHANGED wpc => TypeWrite'
  BY DEF TypeWrite
<1>2. /\ UNCHANGED <<cur, stopping, closed>> => TypeCur'
      /\ UNCHANGED shellVars => TypeCur' /\ UNCHANGED unsent
  BY DEF TypeCur, shellVars
<1>3. UNCHANGED loopVars => TypeLoop'
  BY DEF TypeLoop, loopVars
<1>4. UNCHANGED pollVars => TypePoll'
  BY DEF TypePoll, pollVars
<1>5. UNCHANGED handVars => TypeHand' /\ UNCHANGED hev
  BY DEF TypeHand, handVars
<1>6. UNCHANGED <<closeVars, mode>> => TypeClose'
  BY DEF TypeClose, closeVars
<1>7. UNCHANGED paneVars => TypePane'
  BY DEF TypePane, paneVars
<1>8. UNCHANGED <<stream, made>> => TypeData'
  BY DEF TypeData
<1>9. UNCHANGED <<unsent, hev, published>> => TypeEvents'
  BY DEF TypeEvents
<1> QED BY <1>1, <1>2, <1>3, <1>4, <1>5, <1>6, <1>7, <1>8, <1>9

\* The length of a buffer.
LEMMA UsedTyping ==
  ASSUME NEW b \in Seq(Piece)
  PROVE  /\ Used(b) \in Nat /\ \A j \in 0..Len(b) : Upto(b, j) \in Nat
         /\ \A x \in Piece : Used(Append(b, x)) = x.end
<1>1. \A j \in 0..Len(b) : Upto(b, j) \in Nat
  <2>1. \A x \in Piece : x.end \in Nat
    BY DEF Piece
  <2>2. \A j \in 0..Len(b) : j # 0 => b[j] \in Piece
    OBVIOUS
  <2> QED BY <2>1, <2>2 DEF Upto
<1>2. Used(b) \in Nat
  <2>1. Len(b) \in 0..Len(b)
    OBVIOUS
  <2> QED BY <1>1, <2>1 DEF Used
<1>3. ASSUME NEW x \in Piece PROVE Used(Append(b, x)) = x.end
  <2>1. Len(Append(b, x)) = Len(b) + 1 /\ Append(b, x)[Len(b) + 1] = x /\ Len(b) + 1 # 0
    OBVIOUS
  <2> QED BY <2>1 DEF Used, Upto
<1> QED BY <1>1, <1>2, <1>3

\* A chunk is kept as a piece.
LEMMA KeepTyping ==
  ASSUME cur \in Running, NEW c \in Cmds, NEW n \in 1..MaxChunks
  PROVE  LET x == [cmd |-> c, no |-> n, end |-> Used(cur.buf) + Size[c][n]] IN
         /\ x \in Piece /\ Size[c][n] \in Nat
         /\ Keep(c, n) = [cur EXCEPT !.buf = Append(cur.buf, x)]
         /\ Keep(c, n) \in Running /\ Skip \in Running
<1> DEFINE x == [cmd |-> c, no |-> n, end |-> Used(cur.buf) + Size[c][n]]
<1>1. cur.buf \in Seq(Piece) /\ Used(cur.buf) \in Nat
  BY UsedTyping DEF Running
<1>2. Size[c][n] \in Nat
  BY ShellAssumption
<1>3. x \in Piece
  BY <1>1, <1>2 DEF Piece
<1>4. Keep(c, n) = [cur EXCEPT !.buf = Append(cur.buf, x)]
  BY DEF Keep
<1>5. Append(cur.buf, x) \in Seq(Piece)
  BY <1>1, <1>3
<1> HIDE DEF x
<1>6. Keep(c, n) \in Running /\ Skip \in Running
  BY <1>4, <1>5 DEF Running, Skip
<1> QED BY <1>2, <1>3, <1>4, <1>6 DEF x

LEMMA TypeInit == Init => TypeOK
<1> SUFFICES ASSUME Init PROVE TypeOK
  OBVIOUS
<1> USE DEF Init
<1>1. TypeWrite /\ TypeLoop /\ TypePoll /\ TypeClose
  BY DEF TypeWrite, WriterPc, TypeLoop, TypePoll, TypeClose
<1>2. TypeCur
  BY EventTyping DEF TypeCur
<1>5. TypePane
  <2>1. input \in Seq(Cmds \cup {Claude})
    OBVIOUS
  <2> QED BY <2>1 DEF TypePane
<1>3. TypeHand
  BY DEF TypeHand, HandlerPc
<1>4. TypeData /\ TypeEvents
  BY ShellAssumption DEF TypeData, TypeEvents
<1> QED BY <1>1, <1>2, <1>3, <1>4, <1>5 DEF TypeOK

\* Write.
LEMMA TypeWriter ==
  ASSUME TypeOK, NEW c \in Cmds, Writer(c) PROVE TypeOK'
<1> USE TypeFrame DEF TypeOK
<1>1. CASE WriteAdmit(c)
  <2>1. TypeWrite'
    BY <1>1 DEF TypeWrite, WriterPc, WriteAdmit
  <2>2. TypeCur' /\ UNCHANGED unsent
    BY <1>1, EventTyping DEF TypeCur, WriteAdmit
  <2> QED BY <1>1, <2>1, <2>2 DEF WriteAdmit, handVars
<1>2. CASE WriteSendText(c)
  <2>1. TypeWrite'
    BY <1>2 DEF TypeWrite, WriterPc, WriteSendText
  <2>2. TypePane'
    BY <1>2 DEF TypePane, WriteSendText, Type
  <2> QED BY <1>2, <2>1, <2>2 DEF WriteSendText, handVars
<1>3. CASE WriteSendEnter(c)
  <2>1. TypeWrite'
    BY <1>3 DEF TypeWrite, WriterPc, WriteSendEnter
  <2> QED BY <1>3, <2>1 DEF WriteSendEnter
<1>4. CASE WriteRollback(c)
  <2>1. TypeWrite'
    BY <1>4 DEF TypeWrite, WriterPc, WriteRollback
  <2>2. TypeCur' /\ UNCHANGED unsent
    BY <1>4, EventTyping DEF TypeCur, WriteRollback
  <2> QED BY <1>4, <2>1, <2>2 DEF WriteRollback
<1> QED BY <1>1, <1>2, <1>3, <1>4 DEF Writer

\* The pane.
LEMMA TypeBash ==
  ASSUME TypeOK, Bash PROVE TypeOK'
<1> USE TypeFrame DEF TypeOK
<1>1. CASE BashRead
  <2>1. Head(input) \in Cmds \cup {Claude} /\ TypePane'
    BY <1>1 DEF BashRead, TypePane
  <2>2. TypeData'
    <3>1. CASE Head(input) = Claude
      BY <1>1, <3>1 DEF BashRead, TypeData
    <3>2. CASE Head(input) # Claude
      <4>1. [kind |-> "START", cmd |-> Head(input), no |-> 0] \in Item
        BY <2>1, <3>2 DEF Item
      <4>2. stream' = Append(stream, [kind |-> "START", cmd |-> Head(input), no |-> 0]) /\ made' = made
        BY <1>1, <3>2 DEF BashRead, Emit
      <4> QED BY <4>1, <4>2 DEF TypeData
    <3> QED BY <3>1, <3>2
  <2> QED BY <1>1, <2>1, <2>2 DEF BashRead
<1>2. CASE BashOutput
  <2>1. TypeData'
    <3>1. PICK c \in Cmds : c = fg
      BY <1>2 DEF BashOutput
    <3>2. made[c] + 1 \in 1..MaxChunks
      BY <1>2, <3>1, ShellAssumption DEF BashOutput, TypeData
    <3>3. [kind |-> "CHUNK", cmd |-> c, no |-> made[c] + 1] \in Item
      BY <3>2 DEF Item
    <3>4. stream' = Append(stream, [kind |-> "CHUNK", cmd |-> c, no |-> made[c] + 1])
      BY <1>2, <3>1 DEF BashOutput, Emit
    <3>5. made' \in [Cmds -> 0..MaxChunks]
      BY <1>2, <3>1, <3>2 DEF BashOutput, TypeData
    <3> QED BY <3>3, <3>4, <3>5 DEF TypeData
  <2> QED BY <1>2, <2>1 DEF BashOutput
<1>3. CASE BashEnd
  <2>1. TypeData'
    BY <1>3 DEF BashEnd, Emit, Item, TypeData
  <2>2. TypePane'
    BY <1>3 DEF BashEnd, TypePane
  <2> QED BY <1>3, <2>1, <2>2 DEF BashEnd
<1>4. CASE ClaudeReads
  <2>1. TypePane'
    BY <1>4 DEF ClaudeReads, TypePane
  <2> QED BY <1>4, <2>1 DEF ClaudeReads
<1>5. CASE BashExit
  <2>1. TypePane'
    BY <1>5 DEF BashExit, PaneDies, TypePane
  <2> QED BY <1>5, <2>1 DEF BashExit
<1> QED BY <1>1, <1>2, <1>3, <1>4, <1>5 DEF Bash

\* The read loop.
LEMMA TypeReadLoop ==
  ASSUME TypeOK, ReadLoop PROVE TypeOK'
<1> USE TypeFrame DEF TypeOK
<1>1. CASE ReadItem
  <2>1. Head(stream).cmd \in Cmds /\ TypeData'
    <3>1. Head(stream) \in Item /\ Tail(stream) \in Seq(Item)
      BY <1>1 DEF ReadItem, TypeData
    <3> QED BY <1>1, <3>1 DEF ReadItem, Item, TypeData
  <2>2. (inside' \in Cmds \cup {None}) /\ cur' \in Running /\ unsent' \in Seq(Event)
    <3>1. CASE OnStart(Head(stream).cmd)
      BY <3>1, <2>1, EventTyping DEF OnStart, ToPublish, TypeCur
    <3>2. CASE Head(stream).kind = "CHUNK" /\ OnChunk(Head(stream).cmd, Head(stream).no)
      <4>1. Buffered(Head(stream).cmd, Head(stream).no) \in Running
        <5>1. Head(stream).no \in 1..MaxChunks
          <6>1. Head(stream) \in Item
            BY <1>1 DEF ReadItem, TypeData
          <6> QED BY <3>2, <6>1 DEF Item
        <5> QED BY <2>1, <5>1, KeepTyping DEF Buffered, TypeCur
      <4>2. Busy => cur.id \in Cmds
        BY DEF Busy, Running, TypeCur
      <4> QED BY <3>2, <4>1, <4>2, EventTyping DEF OnChunk, ToPublish, TypeCur, TypeLoop, TypeEvents
    <3>3. CASE OnEnd(Head(stream).cmd)
      BY <3>3, <2>1, EventTyping DEF OnEnd, ToPublish, TypeCur, TypeEvents
    <3> QED BY <1>1, <3>1, <3>2, <3>3 DEF ReadItem
  <2>3. TypeCur' /\ TypeLoop'
    BY <1>1, <2>2 DEF ReadItem, TypeCur, TypeLoop
  <2>4. TypeEvents'
    BY <1>1, <2>2 DEF ReadItem, TypeEvents, handVars
  <2> QED BY <1>1, <2>1, <2>3, <2>4 DEF ReadItem
<1>2. CASE ReadPublish
  <2>1. TypeEvents'
    BY <1>2 DEF ReadPublish, TypeEvents, handVars
  <2> QED BY <1>2, <2>1 DEF ReadPublish
<1>3. CASE ReadLoopExit
  <2>1. TypeLoop'
    BY <1>3 DEF ReadLoopExit, TypeLoop
  <2> QED BY <1>3, <2>1 DEF ReadLoopExit
<1> QED BY <1>1, <1>2, <1>3 DEF ReadLoop

\* Stop, ExitClaude and EnterClaude.
LEMMA TypeHandler ==
  ASSUME TypeOK, NEW h \in Handlers, Handler(h) PROVE TypeOK'
<1> USE TypeFrame DEF TypeOK
<1> DEFINE Moved == \E pc \in HandlerPc : Goto(h, pc)
<1>0. Moved /\ UNCHANGED hpid /\ ops' \in Nat => TypeHand'
  BY DEF TypeHand, Goto
<1>1. CASE StopRequest(h)
  <2>1. Moved /\ ops' \in Nat
    BY <1>1 DEF StopRequest, Begin, TypeHand, HandlerPc
  <2> QED BY <1>0, <1>1, <2>1 DEF StopRequest
<1>2. CASE StopMark(h)
  <2>1. Moved /\ ops' \in Nat
    BY <1>2 DEF StopMark, TypeHand, HandlerPc
  <2>2. TypeCur'
    BY <1>2 DEF StopMark, TypeCur
  <2> QED BY <1>0, <1>2, <2>1, <2>2 DEF StopMark
<1>3. CASE ExitMark(h)
  <2>1. Moved /\ ops' \in Nat
    BY <1>3 DEF ExitMark, Begin, TypeHand, HandlerPc
  <2>2. TypeCur'
    BY <1>3 DEF ExitMark, TypeCur
  <2> QED BY <1>0, <1>3, <2>1, <2>2 DEF ExitMark
<1>4. CASE PanePID(h)
  <2>1. TypeHand'
    BY <1>4 DEF PanePID, Then, Fails, Goto, TypeHand, TypePane, HandlerPc
  <2> QED BY <1>4, <2>1 DEF PanePID
<1>5. CASE KillPane(h)
  <2>1. Moved /\ ops' \in Nat
    BY <1>5 DEF KillPane, Then, TypeHand, HandlerPc
  <2>2. TypePane'
    <3>1. input' \in Seq(Cmds \cup {Claude})
      BY <1>5, EmptyTyping DEF KillPane, PaneDies, TypePane
    <3> QED BY <1>5, <3>1 DEF KillPane, PaneDies, TypePane
  <2> QED BY <1>0, <1>5, <2>1, <2>2 DEF KillPane
<1>6. CASE RespawnPane(h)
  <2>1. Moved /\ ops' \in Nat
    BY <1>6 DEF RespawnPane, Then, Fails, TypeHand, HandlerPc
  <2>2. TypePane'
    <3>1. input' \in Seq(Cmds \cup {Claude})
      BY <1>6, EmptyTyping DEF RespawnPane, TypePane
    <3> QED BY <1>6, <3>1 DEF RespawnPane, TypePane
  <2> QED BY <1>0, <1>6, <2>1, <2>2 DEF RespawnPane
<1>7. CASE ConfigurePane(h)
  <2>1. Moved /\ ops' \in Nat
    BY <1>7 DEF ConfigurePane, Then, Fails, TypeHand, HandlerPc
  <2> QED BY <1>0, <1>7, <2>1 DEF ConfigurePane
<1>8. CASE StopTake(h)
  <2>1. Moved /\ ops' \in Nat
    BY <1>8 DEF StopTake, TypeHand, HandlerPc
  <2>2. Synthetic \in Seq(Event)
    BY EventTyping DEF Synthetic, Busy, Running, TypeCur
  <2>3. TypeEvents'
    BY <1>8, <2>2 DEF StopTake, TypeEvents
  <2>4. TypeCur'
    BY <1>8, EventTyping DEF StopTake, TypeCur
  <2> QED BY <1>0, <1>8, <2>1, <2>3, <2>4 DEF StopTake
<1>9. CASE StopPublish(h)
  <2>1. Moved /\ ops' \in Nat
    BY <1>9 DEF StopPublish, TypeHand, HandlerPc
  <2>2. TypeEvents'
    BY <1>9 DEF StopPublish, TypeEvents
  <2>3. TypeCur'
    BY <1>9 DEF StopPublish, TypeCur
  <2> QED BY <1>0, <1>9, <2>1, <2>2, <2>3 DEF StopPublish
<1>10. CASE ExitReturn(h)
  <2>1. Moved /\ ops' \in Nat
    BY <1>10 DEF ExitReturn, TypeHand, HandlerPc
  <2>2. TypeCur' /\ TypeClose'
    BY <1>10 DEF ExitReturn, TypeCur, TypeClose, closeVars
  <2>3. TypePane'
    BY <1>10 DEF ExitReturn, TypePane
  <2> QED BY <1>0, <1>10, <2>1, <2>2, <2>3 DEF ExitReturn
<1>11. CASE EnterCheck(h)
  <2>1. Moved /\ ops' \in Nat
    BY <1>11 DEF EnterCheck, Begin, TypeHand, HandlerPc
  <2> QED BY <1>0, <1>11, <2>1 DEF EnterCheck
<1>12. CASE EnterType(h)
  <2>1. Moved /\ ops' \in Nat
    BY <1>12 DEF EnterType, TypeHand, HandlerPc
  <2>2. TypePane'
    BY <1>12 DEF EnterType, Type, TypePane
  <2> QED BY <1>0, <1>12, <2>1, <2>2 DEF EnterType
<1>13. CASE EnterMode(h)
  <2>1. Moved /\ ops' \in Nat
    BY <1>13 DEF EnterMode, TypeHand, HandlerPc
  <2>2. TypeClose'
    BY <1>13 DEF EnterMode, TypeClose, closeVars
  <2> QED BY <1>0, <1>13, <2>1, <2>2 DEF EnterMode
<1> QED BY <1>1, <1>2, <1>3, <1>4, <1>5, <1>6, <1>7, <1>8, <1>9, <1>10, <1>11,
           <1>12, <1>13 DEF Handler, StopSteps

\* Close and the poller.
LEMMA TypeClosing ==
  ASSUME TypeOK, Closing \/ Poller PROVE TypeOK'
<1> USE TypeFrame DEF TypeOK
<1>1. CASE CloseRequest \/ UserExitClose
  <2>1. TypeCur' /\ TypeClose'
    BY <1>1 DEF CloseRequest, UserExitClose, CloseBegin, TypeCur, TypeClose
  <2> QED BY <1>1, <2>1 DEF CloseRequest, UserExitClose
<1>2. CASE CloseWait \/ CloseKill
  <2>1. TypeClose' /\ TypePane'
    <3>1. input' \in Seq(Cmds \cup {Claude})
      BY <1>2, EmptyTyping DEF CloseWait, CloseKill, TypePane, paneVars
    <3> QED BY <1>2, <3>1 DEF CloseWait, CloseKill, TypeClose, TypePane, paneVars
  <2> QED BY <1>2, <2>1 DEF CloseWait, CloseKill
<1>3. CASE PollDead \/ PollCheck \/ UserExitReturn \/ PollExit
  <2>1. TypePoll'
    BY <1>3 DEF PollDead, PollCheck, UserExitReturn, PollExit, TypePoll
  <2> QED BY <1>3, <2>1 DEF PollDead, PollCheck, UserExitReturn, PollExit
<1> QED BY <1>1, <1>2, <1>3 DEF Closing, Poller

\* Every variable keeps its type, whatever fails and whoever acts.
THEOREM TypeCorrect == Spec => []TypeOK
<1>1. Init => TypeOK
  BY TypeInit
<1>2. TypeOK /\ [Next]_vars => TypeOK'
  <2>1. ASSUME TypeOK, UNCHANGED vars PROVE TypeOK'
    BY <2>1, TypeFrame DEF TypeOK, vars, shellVars, handVars
  <2> QED BY <2>1, TypeWriter, TypeBash, TypeReadLoop, TypeHandler, TypeClosing DEF Next
<1> QED BY <1>1, <1>2, PTL DEF Spec

-----------------------------------------------------------------------------
(* The flag that keeps the poller silent *)

\* Steps that neither kill the pane nor move a handler or the flag.
LEMMA FlagFrame ==
  ASSUME FlagInv, UNCHANGED <<hpc, stopping, death>>, pane' = pane \/ pane' = "gone"
  PROVE  FlagInv'
BY DEF FlagInv, HoldsFlag

LEMMA FlagHandler ==
  ASSUME TypeOK, FlagInv, \A g, h \in Handlers : g = h, NEW h \in Handlers, Handler(h)
  PROVE  FlagInv'
<1> USE DEF FlagInv, HoldsFlag, Goto
<1>0. hpc \in [Handlers -> HandlerPc]
  BY DEF TypeOK, TypeHand
<1>1. CASE StopRequest(h) \/ EnterCheck(h)
  BY <1>0, <1>1 DEF StopRequest, EnterCheck, Begin, shellVars, paneVars
<1>2. CASE StopMark(h)
  BY <1>0, <1>2 DEF StopMark, paneVars
<1>3. CASE ExitMark(h)
  BY <1>0, <1>3 DEF ExitMark, Begin, paneVars
<1>4. CASE PanePID(h)
  BY <1>0, <1>4 DEF PanePID, Then, Fails, Stopping, shellVars, paneVars
<1>5. CASE KillPane(h)
  BY <1>0, <1>5 DEF KillPane, PaneDies, Then, Stopping, shellVars
<1>6. CASE RespawnPane(h)
  BY <1>0, <1>6 DEF RespawnPane, Then, Fails, Stopping, shellVars
<1>7. CASE ConfigurePane(h)
  BY <1>0, <1>7 DEF ConfigurePane, Then, Fails, Stopping, shellVars, paneVars
<1>8. CASE StopTake(h)
  BY <1>0, <1>8 DEF StopTake, paneVars
<1>9. CASE StopPublish(h)
  BY <1>0, <1>9 DEF StopPublish, paneVars
<1>10. CASE ExitReturn(h)
  BY <1>0, <1>10 DEF ExitReturn
<1>11. CASE EnterType(h) \/ EnterMode(h)
  BY <1>0, <1>11 DEF EnterType, EnterMode, Type, shellVars, paneVars
<1> QED BY <1>1, <1>2, <1>3, <1>4, <1>5, <1>6, <1>7, <1>8, <1>9, <1>10, <1>11
        DEF Handler, StopSteps

LEMMA FlagOthers ==
  ASSUME FlagInv, (\E c \in Cmds : Writer(c)) \/ Bash \/ ReadLoop \/ Closing \/ Poller
  PROVE  FlagInv'
<1>1. ASSUME NEW c \in Cmds, Writer(c) PROVE FlagInv'
  BY <1>1, FlagFrame DEF Writer, WriteAdmit, WriteSendText, WriteSendEnter, WriteRollback,
     shellVars, handVars, paneVars
<1>2. CASE BashRead \/ BashOutput \/ BashEnd \/ ClaudeReads
  BY <1>2, FlagFrame DEF BashRead, BashOutput, BashEnd, ClaudeReads, shellVars, handVars, paneVars
<1>3. CASE BashExit
  BY <1>3 DEF FlagInv, HoldsFlag, BashExit, PaneDies, shellVars, handVars
<1>4. CASE ReadLoop
  BY <1>4, FlagFrame DEF ReadLoop, ReadItem, ReadPublish, ReadLoopExit, shellVars, handVars, paneVars
<1>5. CASE Closing
  BY <1>5, FlagFrame DEF Closing, CloseRequest, CloseBegin, CloseWait, CloseKill, shellVars,
     handVars, paneVars
<1>6. CASE Poller
  BY <1>6, FlagFrame DEF Poller, PollDead, PollCheck, UserExitClose, CloseBegin,
     UserExitReturn, PollExit, shellVars, handVars, paneVars
<1> QED BY <1>1, <1>2, <1>3, <1>4, <1>5, <1>6 DEF Bash

\* With one Stop or ExitClaude at a time, whichever tmux calls fail, a dead pane
\* that the poller may act upon is one bash left by itself, or one ExitClaude gave
\* up: never one that Stop killed, whether it was respawned or not.
THEOREM FlagCorrect ==
  ASSUME \A g, h \in Handlers : g = h
  PROVE  Spec => []DeadUnflaggedIsVoluntary
<1>1. Init => FlagInv
  BY DEF Init, FlagInv, HoldsFlag
<1>2. TypeOK /\ FlagInv /\ [Next]_vars => FlagInv'
  <2>1. ASSUME FlagInv, UNCHANGED vars PROVE FlagInv'
    BY <2>1, FlagFrame DEF vars, shellVars, handVars, paneVars
  <2> QED BY <2>1, FlagHandler, FlagOthers DEF Next
<1>3. TypeOK /\ FlagInv => DeadUnflaggedIsVoluntary
  BY DEF FlagInv, DeadUnflaggedIsVoluntary, HoldsFlag, TypeOK, TypePane
<1> QED BY <1>1, <1>2, <1>3, TypeCorrect, PTL DEF Spec

-----------------------------------------------------------------------------
(* Closing *)

LEMMA CloseInductive == Spec => []CloseInv
<1> USE DEF CloseInv, LoopsReturned
<1>1. Init => CloseInv
  BY DEF Init
<1>2. CloseInv /\ [Next]_vars => CloseInv'
  <2> SUFFICES ASSUME CloseInv, [Next]_vars PROVE CloseInv'
    OBVIOUS
  <2>1. ASSUME NEW c \in Cmds, Writer(c) PROVE CloseInv'
    BY <2>1 DEF Writer, WriteAdmit, WriteSendText, WriteSendEnter, WriteRollback,
       shellVars, loopVars, pollVars, closeVars, paneVars
  <2>2. CASE Bash
    BY <2>2 DEF Bash, BashRead, BashOutput, BashEnd, ClaudeReads, BashExit, PaneDies,
       shellVars, loopVars, pollVars, closeVars, paneVars
  <2>3. CASE ReadLoop
    BY <2>3 DEF ReadLoop, ReadItem, ReadPublish, ReadLoopExit, shellVars, loopVars,
       pollVars, closeVars, paneVars
  <2>4. ASSUME NEW h \in Handlers, Handler(h) PROVE CloseInv'
    BY <2>4 DEF Handler, StopSteps, StopRequest, StopMark, ExitMark, PanePID, KillPane, PaneDies,
       RespawnPane, ConfigurePane, StopTake, StopPublish, ExitReturn, EnterCheck,
       EnterType, Type, EnterMode, shellVars, loopVars, pollVars, closeVars, paneVars
  <2>5. CASE Closing
    BY <2>5 DEF Closing, CloseRequest, CloseBegin, CloseWait, CloseKill, shellVars,
       loopVars, pollVars, paneVars
  <2>6. CASE Poller
    BY <2>6 DEF Poller, PollDead, PollCheck, UserExitClose, CloseBegin, UserExitReturn,
       PollExit, shellVars, loopVars, pollVars, closeVars, paneVars
  <2>7. CASE UNCHANGED vars
    BY <2>7 DEF vars, shellVars, loopVars, pollVars, closeVars, paneVars
  <2> QED BY <2>1, <2>2, <2>3, <2>4, <2>5, <2>6, <2>7 DEF Next
<1> QED BY <1>1, <1>2, PTL DEF Spec

\* The tmux session is killed only after both goroutines have returned.
THEOREM CloseCorrect == Spec => []KilledAfterLoops
<1>1. CloseInv => KilledAfterLoops
  BY DEF CloseInv, LoopsReturned, KilledAfterLoops
<1> QED BY <1>1, CloseInductive, PTL

-----------------------------------------------------------------------------
(* The output buffer's cap *)

LEMMA SmallConcat ==
  ASSUME NEW s \in Seq(Event), NEW t \in Seq(Event), Small(s), Small(t)
  PROVE  Small(s \o t)
BY DEF Small

LEMMA SmallUnit ==
  ASSUME NEW k \in {"Started", "Chunk", "Ended"}, NEW c \in Cmds, NEW r \in Running,
         Used(r.buf) <= MaxBuf
  PROVE  Small(<<[kind |-> k, cmd |-> c, out |-> r.buf, trunc |-> r.trunc]>>)
BY DEF Small

LEMMA SmallEmpty ==
  /\ Small(<<>>) /\ Used(NoCmd.buf) <= MaxBuf
  /\ \A c \in Cmds : Used(Fresh(c).buf) <= MaxBuf
BY ShellAssumption DEF Small, NoCmd, Fresh, Used, Upto

\* Steps that neither build, publish nor buffer anything.
LEMMA BufferFrame ==
  ASSUME BufferInv, UNCHANGED <<unsent, hev, published>>, cur' = cur \/ Used(cur'.buf) <= MaxBuf
  PROVE  BufferInv'
BY DEF BufferInv, Small

LEMMA BufferReadItem ==
  ASSUME TypeOK, BufferInv, ReadItem PROVE BufferInv'
<1>1. Head(stream) \in Item
  BY DEF ReadItem, TypeOK, TypeData
<1>2. Head(stream).cmd \in Cmds
  BY <1>1 DEF Item
<1>3. cur \in Running /\ Used(cur.buf) <= MaxBuf
  BY DEF TypeOK, TypeCur, BufferInv
<1>4. Used(cur'.buf) <= MaxBuf /\ Small(unsent')
  <2>1. CASE OnStart(Head(stream).cmd)
    <3>1. Small(unsent')
      BY <2>1, <1>2, EventTyping, SmallEmpty, SmallUnit DEF OnStart, ToPublish
    <3> QED BY <2>1, <3>1, <1>2, <1>3, SmallEmpty DEF OnStart
  <2>2. CASE Head(stream).kind = "CHUNK" /\ OnChunk(Head(stream).cmd, Head(stream).no)
    <3>1. CASE inside = None \/ ~Busy
      BY <2>2, <3>1, <1>3 DEF OnChunk, BufferInv
    <3>2. CASE ~(inside = None \/ ~Busy)
      <4>1. cur.id \in Cmds
        BY <3>2, <1>3 DEF Busy, Running
      <4>2. Small(unsent')
        BY <2>2, <3>2, <4>1, EventTyping, SmallEmpty, SmallUnit DEF OnChunk, ToPublish
      <4>3. PICK n \in 1..MaxChunks : n = Head(stream).no
        BY <1>1, <2>2 DEF Item
      <4>4. cur.buf \in Seq(Piece) /\ cur' = Buffered(Head(stream).cmd, n)
        BY <2>2, <3>2, <4>3, <1>3 DEF OnChunk, Running
      <4>5. Used(cur'.buf) <= MaxBuf
        <5>1. CASE Used(cur.buf) + Size[Head(stream).cmd][n] <= MaxBuf
          <6> DEFINE x == [cmd |-> Head(stream).cmd, no |-> n,
                           end |-> Used(cur.buf) + Size[Head(stream).cmd][n]]
          <6>1. x \in Piece /\ cur' = [cur EXCEPT !.buf = Append(cur.buf, x)]
            BY <4>4, <5>1, <1>2, <1>3, KeepTyping DEF Buffered
          <6>2. x.end <= MaxBuf
            BY <5>1
          <6> HIDE DEF x
          <6>3. cur'.buf = Append(cur.buf, x)
            BY <6>1, <1>3 DEF Running
          <6> QED BY <4>4, <6>1, <6>2, <6>3, UsedTyping
        <5>2. CASE ~(Used(cur.buf) + Size[Head(stream).cmd][n] <= MaxBuf)
          BY <4>4, <5>2, <1>3 DEF Buffered, Skip, Running
        <5> QED BY <5>1, <5>2
      <4> QED BY <4>2, <4>5
    <3> QED BY <3>1, <3>2
  <2>3. CASE OnEnd(Head(stream).cmd)
    <3>1. CASE ~Busy
      BY <2>3, <3>1, <1>3 DEF OnEnd, BufferInv
    <3>2. CASE Busy
      <4>1. Small(unsent')
        BY <2>3, <3>2, <1>2, <1>3, SmallUnit DEF OnEnd, ToPublish
      <4> QED BY <2>3, <3>2, <4>1, SmallEmpty DEF OnEnd
    <3> QED BY <3>1, <3>2
  <2> QED BY <2>1, <2>2, <2>3 DEF ReadItem
<1> QED BY <1>4 DEF BufferInv, ReadItem, handVars, Small

LEMMA BufferHandler ==
  ASSUME TypeOK, BufferInv, NEW h \in Handlers, Handler(h) PROVE BufferInv'
<1>0. /\ hev \in [Handlers -> Seq(Event)] /\ published \in Seq(Event) /\ cur \in Running
      /\ Small(hev[h]) /\ Small(published) /\ Used(cur.buf) <= MaxBuf
  BY DEF TypeOK, TypeEvents, TypeCur, BufferInv
<1>1. CASE StopTake(h)
  <2>1. Small(Synthetic)
    <3>1. CASE Busy
      BY <3>1, <1>0, SmallUnit DEF Synthetic, Busy, Running
    <3>2. CASE ~Busy
      BY <3>2, SmallEmpty DEF Synthetic
    <3> QED BY <3>1, <3>2
  <2>2. \A g \in Handlers : Small(hev'[g])
    BY <1>0, <1>1, <2>1 DEF StopTake, BufferInv
  <2> QED BY <1>1, <2>2, SmallEmpty DEF StopTake, BufferInv, Small
<1>2. CASE StopPublish(h)
  <2>1. Small(published')
    BY <1>0, <1>2, SmallConcat DEF StopPublish
  <2>2. \A g \in Handlers : Small(hev'[g])
    BY <1>0, <1>2, SmallEmpty DEF StopPublish, BufferInv
  <2> QED BY <1>2, <2>1, <2>2 DEF StopPublish, BufferInv, Small
<1>3. CASE ~StopTake(h) /\ ~StopPublish(h)
  BY <1>3, BufferFrame DEF Handler, StopSteps, StopRequest, StopMark, ExitMark, PanePID,
     KillPane, RespawnPane, ConfigurePane, ExitReturn, EnterCheck, EnterType, EnterMode,
     shellVars
<1> QED BY <1>1, <1>2, <1>3

\* However much a command prints, and whoever takes the buffer over, no more
\* than MaxBuf of it is kept or sent.
THEOREM BufferCorrect == Spec => []BufferBounded
<1>1. Init => BufferInv
  BY SmallEmpty DEF Init, BufferInv
<1>2. TypeOK /\ BufferInv /\ [Next]_vars => BufferInv'
  <2> SUFFICES ASSUME TypeOK, BufferInv, [Next]_vars PROVE BufferInv'
    OBVIOUS
  <2>1. ASSUME NEW c \in Cmds, Writer(c) PROVE BufferInv'
    BY <2>1, BufferFrame, SmallEmpty DEF Writer, WriteAdmit, WriteSendText, WriteSendEnter,
       WriteRollback, shellVars, handVars
  <2>2. CASE Bash
    BY <2>2, BufferFrame DEF Bash, BashRead, BashOutput, BashEnd, ClaudeReads, BashExit,
       shellVars, handVars
  <2>3. CASE ReadLoop
    <3>1. CASE ReadPublish
      <4>1. Small(published')
        BY <3>1, SmallConcat DEF ReadPublish, TypeOK, TypeEvents, BufferInv
      <4> QED BY <3>1, <4>1, SmallEmpty DEF ReadPublish, BufferInv, handVars, Small
    <3>2. CASE ReadLoopExit
      BY <3>2, BufferFrame DEF ReadLoopExit, shellVars, handVars
    <3> QED BY <2>3, <3>1, <3>2, BufferReadItem DEF ReadLoop
  <2>4. ASSUME NEW h \in Handlers, Handler(h) PROVE BufferInv'
    BY <2>4, BufferHandler
  <2>5. CASE Closing \/ Poller
    BY <2>5, BufferFrame DEF Closing, Poller, CloseRequest, CloseBegin, CloseWait, CloseKill,
       PollDead, PollCheck, UserExitClose, UserExitReturn, PollExit, shellVars, handVars
  <2>6. CASE UNCHANGED vars
    BY <2>6, BufferFrame DEF vars, shellVars, handVars
  <2> QED BY <2>1, <2>2, <2>3, <2>4, <2>5, <2>6 DEF Next
<1>3. BufferInv => BufferBounded
  BY DEF BufferInv, BufferBounded
<1> QED BY <1>1, <1>2, <1>3, TypeCorrect, PTL DEF Spec

-----------------------------------------------------------------------------
(* Commands reach bash one at a time, in a session nobody stops              *)

\* What Append and Tail do to the elements of a sequence.
LEMMA ElemsAppend ==
  ASSUME NEW S, NEW s \in Seq(S), NEW x \in S
  PROVE  Elems(Append(s, x)) = Elems(s) \cup {x}
<1>1. /\ DOMAIN Append(s, x) = DOMAIN s \cup {Len(s) + 1}
      /\ Append(s, x)[Len(s) + 1] = x
      /\ \A i \in DOMAIN s : Append(s, x)[i] = s[i]
  OBVIOUS
<1> QED BY <1>1 DEF Elems

LEMMA ElemsTail ==
  ASSUME NEW S, NEW s \in Seq(S), s # <<>>
  PROVE  /\ Elems(Tail(s)) \subseteq Elems(s) /\ Head(s) \in Elems(s) /\ Head(s) \in S
         /\ Len(Tail(s)) = Len(s) - 1
<1>1. /\ \A i \in DOMAIN Tail(s) : i + 1 \in DOMAIN s /\ Tail(s)[i] = s[i + 1]
      /\ 1 \in DOMAIN s /\ Head(s) = s[1] /\ Head(s) \in S /\ Len(Tail(s)) = Len(s) - 1
  OBVIOUS
<1> QED BY <1>1 DEF Elems

LEMMA ElemsEmpty == Elems(<<>>) = {}
BY DEF Elems

\* The commands a stream mentions, and what Append and Tail do to them.
InStream(s, c) == \E i \in DOMAIN s : s[i].cmd = c

LEMMA StreamAppend ==
  ASSUME NEW s \in Seq(Item), NEW x \in Item
  PROVE  \A c : InStream(Append(s, x), c) => InStream(s, c) \/ c = x.cmd
BY DEF InStream

LEMMA StreamTail ==
  ASSUME NEW s \in Seq(Item), s # <<>>
  PROVE  \A c : InStream(Tail(s), c) => InStream(s, c)
<1>1. \A i \in DOMAIN Tail(s) : i + 1 \in DOMAIN s /\ Tail(s)[i] = s[i + 1]
  OBVIOUS
<1> QED BY <1>1 DEF InStream

LEMMA ItemTyping ==
  ASSUME TypeOK
  PROVE  stream \in Seq(Item) /\ \A i \in DOMAIN stream : stream[i] \in Item /\ stream[i].cmd \in Cmds
<1>1. stream \in Seq(Item)
  BY DEF TypeOK, TypeData
<1>2. \A i \in DOMAIN stream : stream[i] \in Item
  BY <1>1
<1> QED BY <1>1, <1>2 DEF Item

\* A step that adds nothing to the pipe and leaves the shell's owner alone.
LEMMA SerialFrame ==
  ASSUME SerialInv, pane' = pane,
         UNCHANGED <<wpc, cur.id, inside, input, fg, mode, stream>>
  PROVE  SerialInv'
BY DEF SerialInv, ShellMode, OpenInv, InPipe, Elems

LEMMA SerialWriter ==
  ASSUME TypeOK, SerialInv, "SendEnter" \notin Faults, NEW c \in Cmds, Writer(c)
  PROVE  SerialInv'
<1> USE DEF SerialInv, InPipe
<1>0. wpc \in [Cmds -> WriterPc] /\ input \in Seq(Cmds \cup {Claude}) /\ cur \in Running /\ None \notin Cmds
      /\ c # Claude
  BY ShellAssumption DEF TypeOK, TypeWrite, TypePane, TypeCur
<1>1. CASE WriteAdmit(c)
  <2>1. ShellMode' /\ UNCHANGED <<pane, input, fg, inside, stream>>
    BY <1>1 DEF WriteAdmit, ShellMode, paneVars, loopVars
  <2>2. CASE Admits
    <3>1. cur.id = None /\ cur'.id = c /\ wpc' = [wpc EXCEPT ![c] = "admitted"]
      BY <1>1, <2>2 DEF WriteAdmit, Admits, Busy, Fresh
    <3>2. pane # "gone" => OpenInv'
      BY <1>0, <2>1, <3>1 DEF OpenInv
    <3> QED BY <2>1, <3>2
  <2>3. CASE ~Admits
    <3>1. wpc[c] = "new" /\ wpc' = [wpc EXCEPT ![c] = "failed"] /\ cur' = cur
      BY <1>1, <2>3 DEF WriteAdmit
    <3>2. pane # "gone" => OpenInv'
      BY <1>0, <2>1, <3>1 DEF OpenInv
    <3> QED BY <2>1, <3>2
  <2> QED BY <2>2, <2>3
<1>2. CASE WriteSendText(c)
  <2>1. UNCHANGED <<pane, fg, inside, stream, cur, mode>> /\ wpc[c] = "admitted"
    BY <1>2 DEF WriteSendText, shellVars, loopVars
  <2>2. CASE Type(c) /\ wpc' = [wpc EXCEPT ![c] = "typed"]
    <3>1. pane # "gone" /\ OpenInv
      BY <2>2 DEF Type
    <3>2. cur.id = c /\ \A d \in Cmds : ~InPipe(d)
      BY <2>1, <3>1 DEF OpenInv
    <3>3. Elems(input) \cap Cmds = {} /\ fg = None
      BY <3>2, <1>0 DEF ShellMode, TypeOK, TypePane
    <3>4. input = <<>>
      <4>1. \A i \in DOMAIN input : input[i] \in Elems(input) /\ input[i] \in Cmds \cup {Claude}
        BY <1>0 DEF Elems
      <4>2. DOMAIN input = {}
        BY <4>1, <3>3 DEF ShellMode
      <4> QED BY <4>2, <1>0
    <3>5. input' = <<>> \/ input' = Append(input, c)
      BY <2>2, <3>4 DEF Type
    <3>6. Elems(input') \subseteq {c} /\ Len(input') <= 1
      <4>1. CASE input' = <<>>
        BY <4>1, ElemsEmpty
      <4>2. CASE input' = Append(<<>>, c)
        <5>1. Elems(Append(<<>>, c)) = Elems(<<>>) \cup {c}
          <6>1. <<>> \in Seq(Cmds)
            OBVIOUS
          <6> QED BY <6>1, ElemsAppend
        <5> QED BY <4>2, <5>1, ElemsEmpty
      <4> QED BY <3>4, <3>5, <4>1, <4>2
    <3>7. ShellMode'
      BY <3>6, <2>1, <1>0 DEF ShellMode
    <3>8. \A i \in DOMAIN stream : stream[i].kind # "END"
      <4>1. \A i \in DOMAIN stream : stream[i].cmd \in Cmds
        BY ItemTyping
      <4> QED BY <4>1, <3>2
    <3>9. OpenInv'
      BY <1>0, <2>1, <2>2, <3>1, <3>2, <3>3, <3>6, <3>8 DEF OpenInv
    <3> QED BY <3>7, <3>9
  <2>3. CASE wpc' = [wpc EXCEPT ![c] = "errored"] /\ UNCHANGED input
    <3>1. pane # "gone" => OpenInv'
      BY <1>0, <2>1, <2>3 DEF OpenInv
    <3>2. ShellMode'
      BY <2>1, <2>3 DEF ShellMode
    <3> QED BY <2>1, <3>1, <3>2
  <2> QED BY <1>2, <2>2, <2>3 DEF WriteSendText
<1>3. CASE WriteSendEnter(c)
  <2>1. ShellMode' /\ UNCHANGED <<pane, input, fg, inside, stream, cur>> /\ wpc[c] = "typed"
    BY <1>3 DEF WriteSendEnter, ShellMode, paneVars, loopVars, shellVars
  <2>2. pane # "gone" => wpc' = [wpc EXCEPT ![c] = "accepted"]
    BY <1>3 DEF WriteSendEnter, MayFail
  <2>3. pane # "gone" => OpenInv'
    BY <1>0, <2>1, <2>2 DEF OpenInv
  <2> QED BY <2>1, <2>3
<1>4. CASE WriteRollback(c)
  <2>1. ShellMode' /\ UNCHANGED <<pane, input, fg, inside, stream>>
    BY <1>4 DEF WriteRollback, ShellMode, paneVars, loopVars
  <2>2. wpc[c] = "errored" /\ wpc' = [wpc EXCEPT ![c] = "failed"]
    BY <1>4 DEF WriteRollback
  <2>3. pane # "gone" => OpenInv'
    BY <1>0, <2>1, <2>2 DEF OpenInv
  <2> QED BY <2>1, <2>3
<1> QED BY <1>1, <1>2, <1>3, <1>4 DEF Writer

\* bash emits a sentinel or a chunk for the command that owns the shell.
LEMMA EmitTyping ==
  ASSUME TypeOK, NEW c \in Cmds, NEW k, NEW n, Emit(k, c, n),
         \/ k \in {"START", "END"} /\ n = 0
         \/ k = "CHUNK" /\ n \in 1..MaxChunks
  PROVE  /\ \A d \in Cmds : InStream(stream', d) => InStream(stream, d) \/ d = c
         /\ Len(stream') = Len(stream) + 1 /\ stream'[Len(stream')].kind = k
         /\ \A i \in DOMAIN stream' : i = Len(stream') \/ (i \in DOMAIN stream /\ stream'[i] = stream[i])
<1> DEFINE x == [kind |-> k, cmd |-> c, no |-> n]
<1>1. x \in Item /\ x.cmd = c /\ x.kind = k
  BY DEF Item
<1>2. stream \in Seq(Item) /\ stream' = Append(stream, x)
  BY ItemTyping DEF Emit
<1> HIDE DEF x
<1>3. \A d : InStream(Append(stream, x), d) => InStream(stream, d) \/ d = x.cmd
  BY <1>1, <1>2, StreamAppend
<1>4. /\ Len(stream') = Len(stream) + 1 /\ stream'[Len(stream')] = x
      /\ \A i \in DOMAIN stream' : i = Len(stream') \/ (i \in DOMAIN stream /\ stream'[i] = stream[i])
  BY <1>1, <1>2
<1> QED BY <1>1, <1>2, <1>3, <1>4

LEMMA MadeTyping == TypeOK => made \in [Cmds -> Nat]
<1> SUFFICES ASSUME TypeOK PROVE made \in [Cmds -> Nat]
  OBVIOUS
<1>1. made \in [Cmds -> 0..MaxChunks] /\ MaxChunks \in Nat
  BY ShellAssumption DEF TypeOK, TypeData
<1> QED BY <1>1

LEMMA ChunkNumber ==
  ASSUME TypeOK, BashOutput
  PROVE  fg \in Cmds /\ made[fg] + 1 \in 1..MaxChunks
<1>1. PICK c \in Cmds : c = fg
  BY DEF BashOutput
<1>2. made[c] \in 0..MaxChunks /\ made[c] < MaxChunks /\ MaxChunks \in Nat
  BY <1>1, ShellAssumption DEF BashOutput, TypeOK, TypeData
<1> QED BY <1>1, <1>2

LEMMA SerialBash ==
  ASSUME TypeOK, SerialInv, Bash
  PROVE  SerialInv'
<1> USE DEF SerialInv
<1>0. /\ input \in Seq(Cmds \cup {Claude}) /\ None \notin Cmds /\ Claude \notin Cmds
      /\ None # Claude /\ stream \in Seq(Item) /\ fg \in Cmds \cup {None}
  BY ShellAssumption, ItemTyping DEF TypeOK, TypePane, ShellMode
<1>1. CASE BashRead
  <2>1. /\ UNCHANGED <<wpc, cur, inside, pane, mode>> /\ pane # "gone" /\ OpenInv
        /\ fg = None /\ input # <<>> /\ fg' = Head(input) /\ input' = Tail(input)
    BY <1>1 DEF BashRead, shellVars, loopVars
  <2>2. /\ Head(input) \in Elems(input) /\ Head(input) \in Cmds \cup {Claude}
        /\ Elems(input') \subseteq Elems(input) /\ Len(input') = Len(input) - 1
    BY <1>0, <2>1, ElemsTail
  <2>3. Head(input) \in Cmds /\ ShellMode'
    BY <2>1, <2>2, <1>0 DEF ShellMode
  <2>4. input' = <<>>
    BY <2>1, <2>2, <1>0 DEF OpenInv
  <2>5. Emit("START", Head(input), 0)
    BY <1>1, <2>3, <1>0 DEF BashRead
  <2>6. \A c \in Cmds : InPipe(c)' => InPipe(c)
    BY <2>1, <2>2, <2>3, <2>5, EmitTyping DEF InPipe, InStream
  <2>7. \A i \in DOMAIN stream' : stream'[i].kind # "END"
    <3>1. \A i \in DOMAIN stream : stream[i].kind # "END"
      BY <2>1 DEF OpenInv
    <3> QED BY <3>1, <2>3, <2>5, EmitTyping
  <2>8. OpenInv'
    BY <2>1, <2>4, <2>6, <2>7 DEF OpenInv
  <2> QED BY <2>3, <2>8
<1>2. CASE BashOutput
  <2>1. /\ UNCHANGED <<wpc, cur, inside, pane, mode, fg, input>> /\ pane # "gone" /\ OpenInv
        /\ fg \in Cmds /\ Emit("CHUNK", fg, made[fg] + 1) /\ made[fg] + 1 \in 1..MaxChunks
    BY <1>2, ChunkNumber DEF BashOutput, shellVars, loopVars, paneVars
  <2>2. \A c \in Cmds : InPipe(c)' => InPipe(c)
    BY <2>1, EmitTyping DEF InPipe, InStream
  <2>3. \A i \in DOMAIN stream' : stream'[i].kind # "END"
    <3>1. \A i \in DOMAIN stream : stream[i].kind # "END"
      BY <2>1, <1>0 DEF OpenInv
    <3> QED BY <3>1, <2>1, EmitTyping
  <2>4. OpenInv' /\ ShellMode'
    BY <2>1, <2>2, <2>3 DEF OpenInv, ShellMode
  <2> QED BY <2>4
<1>3. CASE BashEnd
  <2>1. /\ UNCHANGED <<wpc, cur, inside, pane, mode, input>> /\ pane # "gone" /\ OpenInv
        /\ fg \in Cmds /\ fg' = None /\ Emit("END", fg, 0)
    BY <1>3 DEF BashEnd, shellVars, loopVars
  <2>2. \A c \in Cmds : InPipe(c)' => InPipe(c)
    BY <2>1, <1>0, EmitTyping DEF InPipe, InStream
  <2>3. \A i \in DOMAIN stream' : stream'[i].kind = "END" => i = Len(stream')
    <3>1. \A i \in DOMAIN stream : stream[i].kind # "END"
      BY <2>1, <1>0 DEF OpenInv
    <3> QED BY <3>1, <2>1, EmitTyping
  <2>4. input' = <<>>
    BY <2>1, <1>0 DEF OpenInv
  <2>5. OpenInv' /\ ShellMode'
    BY <2>1, <2>2, <2>3, <2>4, <1>0 DEF OpenInv, ShellMode
  <2> QED BY <2>5
<1>4. CASE ClaudeReads
  BY <1>4 DEF ClaudeReads, ShellMode
<1>5. CASE BashExit
  <2>1. /\ UNCHANGED <<wpc, cur, inside, mode, stream>> /\ pane # "gone" /\ OpenInv
        /\ fg' = None /\ input' = <<>>
    BY <1>5 DEF BashExit, PaneDies, shellVars, loopVars
  <2>2. \A c \in Cmds : InPipe(c)' => InPipe(c)
    BY <2>1, <1>0, ElemsEmpty DEF InPipe
  <2>3. OpenInv'
    BY <2>1, <2>2 DEF OpenInv
  <2>4. ShellMode'
    BY <2>1, <1>0, ElemsEmpty DEF ShellMode
  <2> QED BY <2>3, <2>4
<1> QED BY <1>1, <1>2, <1>3, <1>4, <1>5 DEF Bash

LEMMA SerialReadItem ==
  ASSUME TypeOK, SerialInv, ReadItem
  PROVE  SerialInv'
<1> USE DEF SerialInv
<1> DEFINE c == Head(stream).cmd
<1>0. None \notin Cmds /\ stream \in Seq(Item) /\ cur \in Running
  BY ShellAssumption, ItemTyping DEF TypeOK, TypeCur
<1>1. /\ UNCHANGED <<wpc, mode, pane, fg, input>> /\ stream # <<>> /\ stream' = Tail(stream)
      /\ ShellMode'
  BY DEF ReadItem, ShellMode, paneVars
<1>2. /\ c \in Cmds /\ InPipe(c) /\ Head(stream) = stream[1] /\ 1 \in DOMAIN stream
      /\ \A i \in DOMAIN stream' : i + 1 \in DOMAIN stream /\ stream'[i] = stream[i + 1]
      /\ Len(stream') = Len(stream) - 1
  <2>1. /\ Head(stream) = stream[1] /\ 1 \in DOMAIN stream
        /\ \A i \in DOMAIN stream' : i + 1 \in DOMAIN stream /\ stream'[i] = stream[i + 1]
        /\ Len(stream') = Len(stream) - 1
    BY <1>0, <1>1
  <2> QED BY <2>1, ItemTyping DEF InPipe
<1>3. \A d \in Cmds : InStream(stream', d) => InStream(stream, d)
  BY <1>0, <1>1, StreamTail
<1>4. CASE pane = "gone"
  BY <1>1, <1>4
<1>5. CASE pane # "gone"
  <2>1. OpenInv /\ cur.id = c
    BY <1>2, <1>5 DEF OpenInv
  <2>2. \A i \in DOMAIN stream' : stream'[i].kind = "END" =>
           i = Len(stream') /\ fg = None /\ input = <<>>
    BY <1>2, <2>1, <1>0 DEF OpenInv
  <2>3. CASE Head(stream).kind # "END"
    <3>1. cur'.id = c /\ inside' \in {inside, c}
      BY <2>1, <2>3, <1>0, <1>2 DEF ReadItem, OnStart, OnChunk, Buffered, Keep, Skip, Busy, Running
    <3>2. \A d \in Cmds : InPipe(d)' => InPipe(d)
      BY <1>1, <1>2, <1>3, <3>1 DEF InPipe, InStream
    <3>3. OpenInv'
      BY <1>1, <2>1, <2>2, <3>1, <3>2 DEF OpenInv
    <3> QED BY <1>1, <3>3
  <2>4. CASE Head(stream).kind = "END"
    <3>1. Len(stream) = 1 /\ fg = None /\ input = <<>>
      BY <1>2, <2>1, <2>4 DEF OpenInv
    <3>2. cur'.id = None /\ inside' = None
      BY <1>2, <2>1, <2>4, <1>0 DEF ReadItem, OnEnd, Busy, NoCmd
    <3>3. \A d \in Cmds : ~InPipe(d)'
      <4>1. DOMAIN stream' = {}
        BY <1>0, <1>1, <3>1
      <4> QED BY <1>0, <1>1, <3>1, <3>2, <4>1, ElemsEmpty DEF InPipe
    <3>4. \A d \in Cmds : wpc[d] \notin {"admitted", "errored"}
      BY <1>2, <2>1 DEF OpenInv
    <3>5. OpenInv'
      BY <1>1, <2>1, <2>2, <3>1, <3>3, <3>4 DEF OpenInv
    <3> QED BY <1>1, <3>5
  <2> QED BY <2>3, <2>4
<1> QED BY <1>4, <1>5

LEMMA SerialInductive ==
  ASSUME Handlers = {}, "SendEnter" \notin Faults
  PROVE  Spec => []SerialInv
<1>1. Init => SerialInv
  <2> SUFFICES ASSUME Init PROVE SerialInv
    OBVIOUS
  <2>1. ShellMode
    BY ShellAssumption, ElemsEmpty DEF Init, ShellMode
  <2>2. \A c \in Cmds : ~InPipe(c)
    BY ShellAssumption, ElemsEmpty DEF Init, InPipe
  <2>3. OpenInv
    BY <2>2 DEF Init, OpenInv
  <2> QED BY <2>1, <2>3 DEF SerialInv
<1>2. TypeOK /\ SerialInv /\ [Next]_vars => SerialInv'
  <2> SUFFICES ASSUME TypeOK, SerialInv, [Next]_vars PROVE SerialInv'
    OBVIOUS
  <2>1. CASE ReadPublish \/ ReadLoopExit
    BY <2>1, SerialFrame DEF ReadPublish, ReadLoopExit, shellVars, loopVars, paneVars
  <2>2. CASE CloseRequest \/ CloseWait \/ Poller
    BY <2>2, SerialFrame DEF CloseRequest, CloseWait, Poller, PollDead, PollCheck,
       UserExitClose, CloseBegin, UserExitReturn, PollExit, shellVars, loopVars, paneVars
  <2>3. CASE CloseKill
    BY <2>3, ShellAssumption, ElemsEmpty DEF CloseKill, SerialInv, ShellMode
  <2>4. CASE UNCHANGED vars
    BY <2>4, SerialFrame DEF vars, shellVars, loopVars, paneVars
  <2> QED BY <2>1, <2>2, <2>3, <2>4, SerialWriter, SerialBash, SerialReadItem
          DEF Next, ReadLoop, Closing
<1> QED BY <1>1, <1>2, TypeCorrect, PTL DEF Spec

\* While no handler stops the shell, only the command that owns it is typed,
\* running or waiting to be parsed: bash never has a second command to serve.
THEOREM SerialCorrect ==
  ASSUME Handlers = {}, "SendEnter" \notin Faults
  PROVE  Spec => []OneInFlight
<1>1. SerialInv => OneInFlight
  BY DEF SerialInv, OpenInv, OneInFlight
<1> QED BY <1>1, SerialInductive, PTL

-----------------------------------------------------------------------------
(* What the subscribers are told                                             *)

\* The reports are a sequence of events, those about one command a finite set
\* of its places.
LEMMA ReportsTyping ==
  ASSUME TypeOK
  PROVE  /\ Reports \in Seq(Event) /\ published \in Seq(Event) /\ unsent \in Seq(Event)
         /\ \A c : IsFiniteSet(Told(c)) /\ Cardinality(Told(c)) \in Nat /\ Told(c) \subseteq 1..Len(Reports)
         /\ \A c : \A i \in Told(c) : Reports[i] \in Event
<1>1. published \in Seq(Event) /\ unsent \in Seq(Event)
  BY DEF TypeOK, TypeEvents
<1>2. Reports \in Seq(Event)
  BY <1>1 DEF Reports
<1>3. Len(Reports) \in Nat /\ DOMAIN Reports = 1..Len(Reports) /\ \A i \in DOMAIN Reports : Reports[i] \in Event
  BY <1>2
<1>4. \A c : Told(c) \subseteq 1..Len(Reports)
  BY <1>3 DEF Told
<1>5. \A c : IsFiniteSet(Told(c)) /\ Cardinality(Told(c)) \in Nat
  <2>1. IsFiniteSet(1..Len(Reports))
    BY <1>3, FS_Interval
  <2> QED BY <2>1, <1>4, FS_Subset, FS_CardinalityType
<1> QED BY <1>1, <1>2, <1>3, <1>4, <1>5 DEF Told

LEMMA ReportsFrame ==
  ASSUME TypeOK, UNCHANGED <<published, unsent>> \/ ReadPublish
  PROVE  Reports' = Reports
<1>1. CASE UNCHANGED <<published, unsent>>
  BY <1>1 DEF Reports
<1>2. CASE ReadPublish
  <2>1. published' = published \o unsent /\ unsent' = <<>>
    BY <1>2 DEF ReadPublish
  <2>2. published \o unsent \in Seq(Event)
    BY ReportsTyping
  <2>3. (published \o unsent) \o <<>> = published \o unsent
    BY ONLY <2>2
  <2> QED BY <2>1, <2>3 DEF Reports
<1> QED BY <1>1, <1>2

LEMMA ReportsAppend ==
  ASSUME TypeOK, unsent = <<>>, published' = published, NEW e \in Event, unsent' = <<e>>
  PROVE  LET n == Len(Reports) + 1 IN
         /\ \A i \in DOMAIN Reports : Reports'[i] = Reports[i]
         /\ Reports'[n] = e /\ n \notin DOMAIN Reports /\ \A i \in DOMAIN Reports : i < n
         /\ \A c : c # e.cmd => Told(c)' = Told(c)
         /\ Told(e.cmd)' = Told(e.cmd) \cup {n}
         /\ Cardinality(Told(e.cmd)') = Cardinality(Told(e.cmd)) + 1
<1> DEFINE n == Len(Reports) + 1
<1>1. Reports = published /\ published \in Seq(Event)
  <2>1. published \in Seq(Event)
    BY ReportsTyping
  <2>2. published \o <<>> = published
    BY ONLY <2>1
  <2> QED BY <2>1, <2>2 DEF Reports
<1>2. Reports' = Reports \o <<e>>
  BY <1>1 DEF Reports
<1>3. /\ DOMAIN Reports' = DOMAIN Reports \cup {n}
      /\ \A i \in DOMAIN Reports : Reports'[i] = Reports[i] /\ i < n
      /\ Reports'[n] = e /\ n \notin DOMAIN Reports
  <2>1. Reports \in Seq(Event)
    BY <1>1
  <2>2. Reports \o <<e>> = Append(Reports, e)
    BY ONLY <2>1, e \in Event
  <2> QED BY ONLY <1>2, <2>1, <2>2, e \in Event
<1> HIDE DEF n
<1>4. \A c : c # e.cmd => Told(c)' = Told(c)
  BY <1>3 DEF Told
<1>5. Told(e.cmd)' = Told(e.cmd) \cup {n}
  BY <1>3 DEF Told
<1>6. n \notin Told(e.cmd)
  BY <1>3 DEF Told
<1>7. Cardinality(Told(e.cmd)') = Cardinality(Told(e.cmd)) + 1
  BY <1>5, <1>6, ReportsTyping, FS_AddElement
<1> QED BY <1>3, <1>4, <1>5, <1>7 DEF n

LEMMA ToldFrame ==
  ASSUME Reports' = Reports
  PROVE  (\A c : Told(c)' = Told(c)) /\ (\A k, c : Reported(k, c)' <=> Reported(k, c))
BY DEF Told, Reported

LEMMA FilledFresh ==
  ASSUME NEW c PROVE Filled(Fresh(c), c, 0)
<1>1. Fresh(c).buf = <<>> /\ Fresh(c).trunc = FALSE /\ DOMAIN <<>> = {} /\ 1..0 = {}
  BY DEF Fresh
<1> QED BY <1>1 DEF Filled, Fits

\* A step that reports nothing, prints nothing and leaves the owner alone.
LEMMA ReportFrame ==
  ASSUME ReportInv, Reports' = Reports, UNCHANGED <<wpc, cur, inside, made, stream>>,
         pane' # "gone" => pane # "gone", fg' \in {fg, None}, input' \in {input, <<>>},
         cpc' = "open" => ~closed'
  PROVE  ReportInv'
<1>1. (\A c : Told(c)' = Told(c)) /\ (\A k, c : Reported(k, c)' <=> Reported(k, c))
  BY ToldFrame
<1>2. pane' # "gone" => StreamInv'
  BY DEF ReportInv, StreamInv
<1>3. Left' = Left
  BY DEF Left
<1>4. \A c : OwnerInv(c)' <=> OwnerInv(c)
  BY <1>1, <1>3 DEF OwnerInv, Numbered
<1> QED BY <1>1, <1>2, <1>4 DEF ReportInv

\* A shell without an owner has an empty pipe.
LEMMA IdlePipe ==
  ASSUME TypeOK, OpenInv, ShellMode, \A c \in Cmds : ~InPipe(c)
  PROVE  stream = <<>> /\ inside = None /\ fg = None
<1>1. stream \in Seq(Item) /\ \A i \in DOMAIN stream : stream[i].cmd \in Cmds
  BY ItemTyping
<1>2. DOMAIN stream = {}
  BY <1>1 DEF InPipe
<1>3. stream = <<>>
  BY <1>1, <1>2
<1> QED BY <1>3 DEF InPipe, ShellMode, TypeOK, TypeLoop, TypePane

LEMMA ReportWriter ==
  ASSUME TypeOK, SerialInv, CloseInv, ReportInv, "SendEnter" \notin Faults, NEW c \in Cmds, Writer(c)
  PROVE  ReportInv'
<1>0. /\ wpc \in [Cmds -> WriterPc] /\ cur \in Running /\ None \notin Cmds /\ MaxBuf \in Nat
      /\ made \in [Cmds -> Nat] /\ input \in Seq(Cmds \cup {Claude})
  BY ShellAssumption, MadeTyping DEF TypeOK, TypeWrite, TypeCur, TypePane
<1>1. /\ UNCHANGED <<closed, inside, made, stream, published, unsent, fg, pane, cpc>>
  BY DEF Writer, WriteAdmit, WriteSendText, WriteSendEnter, WriteRollback, shellVars, loopVars, closeVars,
     paneVars
<1>2. (\A d : Told(d)' = Told(d)) /\ (\A k, d : Reported(k, d)' <=> Reported(k, d))
  BY <1>1, ReportsFrame, ToldFrame
<1>3. CASE WriteAdmit(c)
  <2>1. wpc[c] = "new" /\ Told(c) = {} /\ input' = input
    BY <1>3 DEF WriteAdmit, ReportInv, paneVars
  <2>2. CASE Admits
    <3>1. /\ cur.id = None /\ ~closed /\ cur' = Fresh(c) /\ wpc' = [wpc EXCEPT ![c] = "admitted"]
      BY <1>3, <2>2 DEF WriteAdmit, Admits, Busy
    <3>2. pane # "gone" /\ OpenInv /\ ShellMode
      BY <3>1 DEF CloseInv, SerialInv
    <3>3. stream = <<>> /\ inside = None
      BY <1>0, <3>1, <3>2, IdlePipe DEF OpenInv
    <3>4. Left = 0 /\ Left' = 0
      BY <1>1, <3>3 DEF Left
    <3>5. made[c] = 0
      BY <2>1, <3>2 DEF ReportInv
    <3>6. Filled(cur', c, 0)
      BY <3>1, FilledFresh
    <3>7. OwnerInv(c)'
      BY <1>0, <1>1, <1>2, <2>1, <3>1, <3>3, <3>4, <3>5, <3>6 DEF OwnerInv, Reported, Numbered
    <3>8. StreamInv'
      BY <1>1, <2>1, <3>2 DEF ReportInv, StreamInv
    <3> QED BY <1>0, <1>1, <1>2, <2>1, <3>1, <3>2, <3>5, <3>7, <3>8 DEF ReportInv, Fresh
  <2>3. CASE ~Admits
    <3>1. cur' = cur /\ wpc' = [wpc EXCEPT ![c] = "failed"]
      BY <1>3, <2>3 DEF WriteAdmit
    <3>2. pane # "gone" => cur.id # c
      BY <2>1 DEF ReportInv, OwnerInv
    <3>3. Left' = Left
      BY <1>1, <3>1 DEF Left
    <3>4. \A d \in Cmds : d # c /\ OwnerInv(d) => OwnerInv(d)'
      BY <1>0, <1>1, <1>2, <3>1, <3>3 DEF OwnerInv, Numbered
    <3>5. StreamInv' <=> StreamInv
      BY <1>1, <2>1 DEF StreamInv
    <3> QED BY <1>0, <1>1, <1>2, <2>1, <3>1, <3>2, <3>4, <3>5 DEF ReportInv
  <2> QED BY <2>2, <2>3
<1>4. CASE WriteSendText(c) \/ WriteSendEnter(c)
  <2>1. /\ cur' = cur /\ wpc[c] \in {"admitted", "typed"}
        /\ \E p \in {"typed", "errored", "accepted"} : wpc' = [wpc EXCEPT ![c] = p]
    BY <1>4 DEF WriteSendText, WriteSendEnter, shellVars
  <2>2. Left' = Left
    BY <1>1, <2>1 DEF Left
  <2>3. \A d \in Cmds : OwnerInv(d) => OwnerInv(d)'
    BY <1>0, <1>1, <1>2, <2>1, <2>2 DEF OwnerInv, Numbered
  <2>4. CASE pane = "gone"
    BY <1>0, <1>1, <1>2, <2>1, <2>4 DEF ReportInv
  <2>5. CASE pane # "gone"
    <3>1. OpenInv /\ ShellMode
      BY <2>5 DEF SerialInv
    <3>2. /\ wpc[c] = "typed" => wpc' = [wpc EXCEPT ![c] = "accepted"] /\ input' = input
          /\ wpc[c] = "admitted" => \/ wpc' = [wpc EXCEPT ![c] = "typed"]
                                    \/ wpc' = [wpc EXCEPT ![c] = "errored"] /\ input' = input
      BY <1>4, <2>5 DEF WriteSendText, WriteSendEnter, MayFail, paneVars
    <3>3. wpc[c] = "admitted" => cur.id = c /\ stream = <<>> /\ inside = None
      BY <3>1, IdlePipe DEF OpenInv
    <3>4. StreamInv'
      BY <1>1, <2>1, <2>5, <3>2, <3>3 DEF ReportInv, StreamInv
    <3> QED BY <1>0, <1>1, <1>2, <2>1, <2>3, <2>5, <3>2, <3>3, <3>4 DEF ReportInv
  <2> QED BY <2>4, <2>5
<1>5. CASE WriteRollback(c)
  <2>1. /\ wpc[c] = "errored" /\ wpc' = [wpc EXCEPT ![c] = "failed"] /\ cur'.id = None /\ input' = input
    BY <1>5 DEF WriteRollback, NoCmd, paneVars
  <2>2. StreamInv' <=> StreamInv
    BY <1>1, <2>1 DEF StreamInv
  <2>3. pane # "gone" => cur.id = c
    BY <2>1 DEF SerialInv, OpenInv
  <2> QED BY <1>0, <1>1, <1>2, <2>1, <2>2, <2>3 DEF ReportInv
<1> QED BY <1>3, <1>4, <1>5 DEF Writer

\* What bash prints next is counted in made as it is in the stream.
LEMMA ReportBash ==
  ASSUME TypeOK, SerialInv, ReportInv, Bash
  PROVE  ReportInv'
<1> USE DEF SerialInv
<1>0. /\ None \notin Cmds /\ Claude \notin Cmds /\ None # Claude /\ stream \in Seq(Item)
      /\ fg \in Cmds \cup {None} /\ cur \in Running /\ made \in [Cmds -> Nat] /\ MaxBuf \in Nat
      /\ input \in Seq(Cmds \cup {Claude}) /\ inside \in Cmds \cup {None}
  BY ShellAssumption, ItemTyping, MadeTyping DEF TypeOK, TypePane, ShellMode, TypeCur, TypeLoop
<1>1. UNCHANGED <<wpc, cur, inside, closed, cpc, published, unsent>>
  BY DEF Bash, BashRead, BashOutput, BashEnd, ClaudeReads, BashExit, shellVars, loopVars, closeVars
<1>2. Reports' = Reports /\ (\A d : Told(d)' = Told(d)) /\ (\A k, d : Reported(k, d)' <=> Reported(k, d))
  BY <1>1, ReportsFrame, ToldFrame
<1>3. CASE BashExit \/ ClaudeReads
  <2>1. fg' = None /\ input' \in {input, <<>>} /\ UNCHANGED <<made, stream>> /\ pane # "gone"
    BY <1>3 DEF BashExit, ClaudeReads, PaneDies, ShellMode
  <2> QED BY <1>1, <1>2, <2>1, ReportFrame DEF ReportInv
<1>4. CASE BashRead
  <2>1. /\ pane # "gone" /\ pane' = pane /\ OpenInv /\ fg = None /\ input # <<>> /\ fg' = Head(input) /\ input' = Tail(input)
        /\ UNCHANGED made
    BY <1>4 DEF BashRead
  <2>2. Head(input) \in Elems(input) /\ Head(input) \in Cmds \cup {Claude} /\ input' = <<>>
    <3>1. Head(input) \in Elems(input) /\ Head(input) \in Cmds \cup {Claude} /\ Len(input') = Len(input) - 1
      BY <1>0, <2>1, ElemsTail
    <3>2. Len(input) <= 1 /\ input' \in Seq(Cmds \cup {Claude})
      BY <1>0, <2>1 DEF OpenInv
    <3>3. Len(input') = 0
      BY <1>0, <3>1, <3>2
    <3> QED BY <3>1, <3>2, <3>3
  <2>3. Head(input) \in Cmds
    BY <2>2 DEF ShellMode
  <2>4. stream = <<>> /\ inside = None
    BY <2>1 DEF ReportInv, StreamInv
  <2>5. stream' = <<[kind |-> "START", cmd |-> Head(input), no |-> 0]>>
    BY <1>4, <2>3, <2>4, <1>0 DEF BashRead, Emit
  <2>6. Left = 0 /\ Left' = 0
    BY <1>1, <2>4, <2>5 DEF Left
  <2>7. \A d \in Cmds : Numbered(d)'
    BY <2>5 DEF Numbered
  <2>8. \A d \in Cmds : OwnerInv(d) => OwnerInv(d)'
    BY <1>1, <1>2, <2>1, <2>4, <2>6, <2>7 DEF OwnerInv
  <2>9. StreamInv'
    BY <1>1, <2>2, <2>4, <2>5 DEF StreamInv
  <2> QED BY <1>1, <1>2, <2>1, <2>8, <2>9 DEF ReportInv
<1>5. CASE BashOutput \/ BashEnd
  <2>0. PICK c \in Cmds : c = fg
    BY <1>5 DEF BashOutput, BashEnd
  <2>1. /\ pane # "gone" /\ pane' = pane /\ OpenInv /\ fg = c /\ fg' \in {fg, None} /\ UNCHANGED input
    BY <1>5, <2>0 DEF BashOutput, BashEnd, paneVars
  <2>2. cur.id = c /\ input = <<>> /\ (stream # <<>> \/ inside # None) /\ StreamInv /\ OwnerInv(c)
    BY <1>0, <2>1 DEF OpenInv, InPipe, ReportInv, StreamInv
  <2>3. \A i \in DOMAIN stream : stream[i].kind # "END"
    BY <1>0, <2>1 DEF OpenInv
  <2>4. PICK k \in {"CHUNK", "END"} :
          /\ Emit(k, c, IF k = "CHUNK" THEN made[c] + 1 ELSE 0)
          /\ made' = IF k = "CHUNK" THEN [made EXCEPT ![c] = @ + 1] ELSE made
          /\ k = "CHUNK" => made[c] + 1 \in 1..MaxChunks
    BY <1>5, <2>1, ChunkNumber DEF BashOutput, BashEnd
  <2>5. /\ stream' # <<>> /\ Len(stream) \in Nat /\ Len(stream') = Len(stream) + 1
        /\ stream # <<>> => stream'[1] = stream[1] /\ Len(stream) \in DOMAIN stream
        /\ \A i \in DOMAIN stream' : i = Len(stream') \/ (i \in DOMAIN stream /\ stream'[i] = stream[i])
        /\ DOMAIN stream' \subseteq Nat
        /\ stream = <<>> <=> Len(stream) = 0
        /\ stream'[Len(stream')].kind = k
        /\ k = "CHUNK" => stream'[Len(stream')].no = made[c] + 1
    <3> DEFINE x == [kind |-> k, cmd |-> c, no |-> IF k = "CHUNK" THEN made[c] + 1 ELSE 0]
    <3>1. stream' = Append(stream, x) /\ x \in Item /\ x.kind = k /\ (k = "CHUNK" => x.no = made[c] + 1)
      BY <2>4 DEF Emit, Item
    <3> HIDE DEF x
    <3> QED BY <1>0, <3>1
  <2>6. StreamInv'
    BY <1>1, <2>1, <2>2, <2>4, <2>5 DEF StreamInv
  <2>7. /\ Left \in Int /\ Left' = IF k = "CHUNK" THEN Left + 1 ELSE Left
        /\ Len(stream) = Left + (IF inside = None THEN 1 ELSE 0)
    <3>1. inside = None => /\ Left = Len(stream) - 1
                           /\ Left' = IF k = "END" THEN Len(stream) - 1 ELSE Len(stream)
      BY <1>1, <2>2, <2>3, <2>5 DEF Left
    <3>2. inside # None => /\ Left = Len(stream)
                           /\ Left' = IF k = "END" THEN Len(stream) ELSE Len(stream) + 1
      BY <1>1, <2>2, <2>3, <2>5 DEF Left
    <3>3. CASE inside = None
      BY <2>5, <3>1, <3>3
    <3>4. CASE inside # None
      BY <2>5, <3>2, <3>4
    <3> QED BY <3>3, <3>4
  <2>8. /\ made'[c] - Left' = made[c] - Left /\ (Left <= made[c] => Left' <= made'[c])
        /\ Cardinality(Told(c)) + Left = made[c] + 1 => Cardinality(Told(c)) + Left' = made'[c] + 1
        /\ Left = made[c] => Left' = made'[c]
        /\ \A d \in Cmds : d # c => made'[d] = made[d]
    <3>1. /\ made'[c] = IF k = "CHUNK" THEN made[c] + 1 ELSE made[c]
          /\ \A d \in Cmds : d # c => made'[d] = made[d]
      BY <1>0, <2>4
    <3>2. made[c] \in Nat /\ Cardinality(Told(c)) \in Nat
      BY <1>0, ReportsTyping
    <3>3. Left \in Int /\ Left' = IF k = "CHUNK" THEN Left + 1 ELSE Left
      BY <2>7
    <3> QED BY ONLY <3>1, <3>2, <3>3
  <2>11. Numbered(c)'
    <3> SUFFICES ASSUME NEW i \in DOMAIN stream', stream'[i].kind = "CHUNK"
                 PROVE  stream'[i].no = made'[c] - Left' + i - (IF inside = None THEN 1 ELSE 0)
      BY <1>1 DEF Numbered
    <3>1. made[c] \in Nat /\ i \in Nat
      BY <1>0, <2>5
    <3>2. made'[c] - Left' = made[c] - Left
      BY <2>8
    <3>3. CASE i \in DOMAIN stream /\ stream'[i] = stream[i]
      <4>1. Numbered(c)
        BY <2>2 DEF OwnerInv
      <4> QED BY <3>2, <3>3, <4>1 DEF Numbered
    <3>4. CASE i = Len(stream')
      <4>1. stream'[i].no = made[c] + 1 /\ i = Left + (IF inside = None THEN 1 ELSE 0) + 1
        BY <2>5, <2>7, <3>4
      <4> QED BY <2>7, <3>1, <3>2, <4>1
    <3> QED BY <2>5, <3>3, <3>4
  <2>9. OwnerInv(c)'
    BY <1>1, <1>2, <2>2, <2>8, <2>11 DEF OwnerInv
  <2>10. wpc[c] \in {"typed", "accepted"}
    BY <2>1 DEF OpenInv, InPipe
  <2> QED BY <1>1, <1>2, <2>1, <2>2, <2>6, <2>8, <2>9, <2>10 DEF ReportInv
<1> QED BY <1>3, <1>4, <1>5 DEF Bash

LEMMA UptoAppend ==
  ASSUME NEW b \in Seq(Piece), NEW x \in Piece
  PROVE  /\ \A j \in 0..Len(b) : Upto(Append(b, x), j) = Upto(b, j)
         /\ Len(Append(b, x)) = Len(b) + 1 /\ Append(b, x)[Len(b) + 1] = x
         /\ \A j \in DOMAIN b : j \in 1..Len(b) /\ Append(b, x)[j] = b[j]
         /\ \A j \in DOMAIN Append(b, x) : j \in DOMAIN b \/ j = Len(b) + 1
BY DEF Upto

\* The chunk read next either fits as a whole or is missing for want of room,
\* and what was missing before it stays so.
LEMMA FilledMore ==
  ASSUME cur \in Running, NEW c \in Cmds, NEW k \in Nat, k + 1 \in 1..MaxChunks, Filled(cur, c, k)
  PROVE  Filled(Buffered(c, k + 1), c, k + 1)
<1> DEFINE b == cur.buf
           x == [cmd |-> c, no |-> k + 1, end |-> Used(cur.buf) + Size[c][k + 1]]
<1>1. /\ b \in Seq(Piece) /\ Len(b) \in Nat /\ DOMAIN b = 1..Len(b) /\ MaxBuf \in Nat
      /\ Used(b) \in Nat /\ \A j \in 0..Len(b) : Upto(b, j) \in Nat
      /\ \A j \in DOMAIN b : b[j].no \in Nat
  <2>1. b \in Seq(Piece)
    BY DEF Running
  <2>2. \A p \in Piece : p.no \in Nat
    BY DEF Piece
  <2>3. Len(b) \in Nat /\ DOMAIN b = 1..Len(b) /\ \A j \in DOMAIN b : b[j].no \in Nat
    BY <2>1, <2>2
  <2>4. Used(b) \in Nat /\ \A j \in 0..Len(b) : Upto(b, j) \in Nat
    BY <2>1, UsedTyping
  <2> QED BY <2>1, <2>3, <2>4, ShellAssumption
<1>2. x \in Piece /\ Size[c][k + 1] \in Nat /\ Keep(c, k + 1) = [cur EXCEPT !.buf = Append(b, x)]
  BY KeepTyping
<1>3. x.cmd = c /\ x.no = k + 1 /\ x.end = Used(b) + Size[c][k + 1]
  OBVIOUS
<1>4. /\ Fits(b, c) /\ \A j \in DOMAIN b : b[j].no <= k
      /\ \A i \in 1..k : Missing(b, i) => NoRoom(b, c, i)
      /\ cur.trunc <=> \E i \in 1..k : Missing(b, i)
  BY DEF Filled
<1> HIDE DEF x
<1>5. CASE Used(b) + Size[c][k + 1] <= MaxBuf
  <2> DEFINE a == Append(b, x)
  <2>1. Buffered(c, k + 1).buf = a /\ Buffered(c, k + 1).trunc = cur.trunc
    BY <1>2, <1>5 DEF Buffered, Running
  <2>2. /\ \A j \in 0..Len(b) : Upto(a, j) = Upto(b, j)
        /\ Len(a) = Len(b) + 1 /\ a[Len(b) + 1] = x
        /\ \A j \in DOMAIN b : a[j] = b[j]
        /\ DOMAIN a = DOMAIN b \cup {Len(b) + 1}
    BY <1>1, <1>2, UptoAppend
  <2> HIDE DEF a
  <2>3. \A i \in 1..(k + 1) : Missing(a, i) <=> i \in 1..k /\ Missing(b, i)
    BY <1>1, <1>3, <1>4, <2>2 DEF Missing
  <2>4. Fits(a, c)
    <3> SUFFICES ASSUME NEW j \in DOMAIN a
                 PROVE  /\ a[j].cmd = c /\ a[j].end = Upto(a, j - 1) + Size[c][a[j].no]
                        /\ a[j].end <= MaxBuf
                        /\ j > 1 => a[j - 1].no < a[j].no
      BY DEF Fits
    <3>1. CASE j \in DOMAIN b
      <4>1. /\ j - 1 \in 0..Len(b) /\ a[j] = b[j] /\ Upto(a, j - 1) = Upto(b, j - 1)
            /\ j > 1 => a[j - 1] = b[j - 1]
        BY <1>1, <2>2, <3>1
      <4> QED BY <1>4, <3>1, <4>1 DEF Fits
    <3>2. CASE j = Len(b) + 1
      <4>1. a[j] = x /\ j - 1 = Len(b) /\ Upto(a, j - 1) = Used(b)
        BY <1>1, <2>2, <3>2 DEF Used
      <4>2. j > 1 => a[j - 1] = b[Len(b)] /\ b[Len(b)].no <= k /\ b[Len(b)].no \in Nat
        BY <1>1, <1>4, <2>2, <3>2
      <4> QED BY <1>3, <1>5, <4>1, <4>2
    <3> QED BY <2>2, <3>1, <3>2
  <2>5. \A j \in DOMAIN a : a[j].no <= k + 1
    BY <1>1, <1>3, <1>4, <2>2
  <2>6. ASSUME NEW i \in 1..(k + 1), Missing(a, i) PROVE NoRoom(a, c, i)
    <3>1. i \in 1..k /\ NoRoom(b, c, i)
      BY <1>4, <2>3, <2>6
    <3>2. PICK j \in 0..Len(b) : /\ Upto(b, j) + Size[c][i] > MaxBuf
                                 /\ \A l \in DOMAIN b : b[l].no < i <=> l <= j
      BY <3>1 DEF NoRoom
    <3>3. j \in 0..Len(a) /\ Upto(a, j) + Size[c][i] > MaxBuf
      BY <1>1, <2>2, <3>2
    <3>4. \A l \in DOMAIN a : a[l].no < i <=> l <= j
      BY <1>1, <1>3, <2>2, <3>1, <3>2
    <3> QED BY <3>3, <3>4 DEF NoRoom
  <2>7. cur.trunc <=> \E i \in 1..(k + 1) : Missing(a, i)
    <3>1. 1..k \subseteq 1..(k + 1)
      OBVIOUS
    <3> QED BY <1>4, <2>3, <3>1
  <2> QED BY <2>1, <2>4, <2>5, <2>6, <2>7 DEF Filled
<1>6. CASE ~(Used(b) + Size[c][k + 1] <= MaxBuf)
  <2>1. Buffered(c, k + 1).buf = b /\ Buffered(c, k + 1).trunc = TRUE
    BY <1>6 DEF Buffered, Skip, Running
  <2>2. Missing(b, k + 1) /\ \A j \in DOMAIN b : b[j].no <= k + 1
    BY <1>1, <1>4 DEF Missing
  <2>3. NoRoom(b, c, k + 1)
    <3>1. Upto(b, Len(b)) + Size[c][k + 1] > MaxBuf /\ Len(b) \in 0..Len(b)
      BY <1>1, <1>2, <1>6 DEF Used
    <3>2. \A l \in DOMAIN b : b[l].no < k + 1 <=> l <= Len(b)
      BY <1>1, <1>4
    <3> QED BY <3>1, <3>2 DEF NoRoom
  <2>4. \A i \in 1..(k + 1) : i \in 1..k \/ i = k + 1
    OBVIOUS
  <2>5. k + 1 \in 1..(k + 1)
    OBVIOUS
  <2> QED BY <1>4, <2>1, <2>2, <2>3, <2>4, <2>5 DEF Filled
<1> QED BY <1>5, <1>6

\* What EventProtocol says of one command.
ProtocolOf(c) ==
  \A i \in Told(c) :
    /\ Reports[i].kind = "Started" <=> \A j \in Told(c) : i <= j
    /\ Reports[i].kind = "Ended" => /\ Cardinality(Told(c)) = made[c] + 2
                                    /\ \A j \in Told(c) : j <= i
                                    /\ CarriesOutput(Reports[i], c)

LEMMA ProtocolEach == EventProtocol <=> \A c \in Cmds : ProtocolOf(c)
BY DEF EventProtocol, ProtocolOf

\* One more report is about one command, and is the last about it.
LEMMA NewReport ==
  ASSUME TypeOK, EventProtocol, NEW c \in Cmds, unsent = <<>>, UNCHANGED <<published, made>>,
         NEW e \in Event, e.cmd = c, unsent' = <<e>>
  PROVE  /\ \A d \in Cmds : d # c => /\ Told(d)' = Told(d) /\ ProtocolOf(d)'
                                     /\ \A k : Reported(k, d)' <=> Reported(k, d)
         /\ \A k : Reported(k, c)' <=> Reported(k, c) \/ k = e.kind
         /\ Cardinality(Told(c)') = Cardinality(Told(c)) + 1
         /\ /\ ~Reported("Ended", c) /\ (e.kind = "Started" <=> Told(c) = {})
            /\ e.kind = "Ended" => Cardinality(Told(c)) = made[c] + 1 /\ CarriesOutput(e, c)
            => ProtocolOf(c)'
<1> DEFINE n == Len(Reports) + 1
<1>1. /\ \A i \in DOMAIN Reports : Reports'[i] = Reports[i] /\ i < n /\ i \in Nat
      /\ Reports'[n] = e /\ n \notin DOMAIN Reports /\ n \in Nat
      /\ \A d : d # c => Told(d)' = Told(d)
      /\ Told(c)' = Told(c) \cup {n}
      /\ Cardinality(Told(c)') = Cardinality(Told(c)) + 1
  <2>1. Reports \in Seq(Event)
    BY ReportsTyping
  <2>2. n \in Nat /\ \A i \in DOMAIN Reports : i \in Nat
    BY <2>1
  <2> QED BY <2>2, ReportsAppend
<1> HIDE DEF n
<1>2. \A d : Told(d) \subseteq DOMAIN Reports
  BY DEF Told
<1>3. \A f, d : CarriesOutput(f, d)' <=> CarriesOutput(f, d)
  BY DEF CarriesOutput
<1>4. ASSUME NEW d \in Cmds, d # c
      PROVE  /\ Told(d)' = Told(d) /\ ProtocolOf(d)'
             /\ \A k : Reported(k, d)' <=> Reported(k, d)
  <2>1. Told(d)' = Told(d) /\ \A i \in Told(d) : Reports'[i] = Reports[i]
    BY <1>1, <1>2, <1>4
  <2>2. ProtocolOf(d)
    BY ProtocolEach
  <2> QED BY <1>3, <2>1, <2>2 DEF ProtocolOf, Reported
<1>5. \A k : Reported(k, c)' <=> Reported(k, c) \/ k = e.kind
  BY <1>1, <1>2 DEF Reported
<1>6. ASSUME ~Reported("Ended", c), e.kind = "Started" <=> Told(c) = {},
             e.kind = "Ended" => Cardinality(Told(c)) = made[c] + 1 /\ CarriesOutput(e, c)
      PROVE  ProtocolOf(c)'
  <2>1. ProtocolOf(c)
    BY ProtocolEach
  <2>2. ASSUME NEW i \in Told(c)
        PROVE  /\ Reports'[i].kind = "Started" <=> \A j \in Told(c)' : i <= j
               /\ Reports'[i].kind # "Ended"
    <3>1. Reports'[i] = Reports[i] /\ i <= n
      BY <1>1, <1>2
    <3>2. Reports[i].kind # "Ended"
      BY <1>6 DEF Reported
    <3> QED BY <1>1, <2>1, <3>1, <3>2 DEF ProtocolOf
  <2>3. e.kind = "Started" <=> \A j \in Told(c)' : n <= j
    <3>1. \A j \in Told(c) : j < n /\ j \in Nat
      BY <1>1, <1>2
    <3> QED BY <1>1, <1>6, <3>1
  <2>4. e.kind = "Ended" => /\ Cardinality(Told(c)') = made[c] + 2
                            /\ \A j \in Told(c)' : j <= n
                            /\ CarriesOutput(e, c)
    <3>1. \A j \in Told(c)' : j <= n
      BY <1>1, <1>2
    <3>2. made[c] \in Nat /\ Cardinality(Told(c)) \in Nat
      BY ReportsTyping DEF TypeOK, TypeData
    <3> QED BY <1>1, <1>6, <3>1, <3>2
  <2> QED BY <1>1, <1>3, <2>2, <2>3, <2>4 DEF ProtocolOf
<1> QED BY <1>1, <1>4, <1>5, <1>6

\* A report of kind k is added about c, which was accepted and has not ended.
Tells(c, k) ==
  /\ wpc[c] \in {"typed", "accepted"} /\ ~Reported("Ended", c)
  /\ IF k = "Started" THEN Told(c) = {} ELSE Reported("Started", c)
  /\ \A j : Reported(j, c)' <=> Reported(j, c) \/ j = k
  /\ \A d \in Cmds : d # c => \A j : Reported(j, d)' <=> Reported(j, d)

\* The parser reads the next item, of the command that owns the shell.
LEMMA ReportReadItem ==
  ASSUME TypeOK, SerialInv, CloseInv, ReportInv, EventProtocol, ReadItem
  PROVE  ReportInv' /\ EventProtocol' /\ \E c \in Cmds, k \in {"Started", "Chunk", "Ended"} : Tells(c, k)
<1>0. /\ None \notin Cmds /\ stream \in Seq(Item) /\ cur \in Running /\ made \in [Cmds -> Nat]
      /\ inside \in Cmds \cup {None}
  BY ShellAssumption, ItemTyping, MadeTyping DEF TypeOK, TypeCur, TypeLoop
<1>1. /\ UNCHANGED <<wpc, made, fg, input, pane, closed, cpc, published>> /\ rpc = "run"
      /\ unsent = <<>> /\ stream # <<>> /\ stream' = Tail(stream)
  BY DEF ReadItem, paneVars, closeVars
<1>2. pane # "gone" /\ OpenInv /\ StreamInv
  BY <1>1 DEF CloseInv, LoopsReturned, SerialInv, ReportInv
<1>3. PICK c \in Cmds : c = Head(stream).cmd
  BY <1>0, <1>1, ItemTyping
<1>4. /\ Head(stream) = stream[1] /\ 1 \in DOMAIN stream /\ Len(stream) \in Nat \ {0}
      /\ Len(stream') = Len(stream) - 1 /\ (stream' = <<>> <=> Len(stream) = 1)
      /\ \A i \in DOMAIN stream' : i \in Nat \ {0} /\ i + 1 \in DOMAIN stream /\ stream'[i] = stream[i + 1]
      /\ Len(stream) # 1 => Len(stream') \in DOMAIN stream'
  <2>1. /\ Head(stream) = stream[1] /\ 1 \in DOMAIN stream /\ Len(stream) \in Nat \ {0}
        /\ Len(stream') = Len(stream) - 1 /\ stream' \in Seq(Item)
    BY <1>0, <1>1
  <2>2. stream' = <<>> <=> Len(stream') = 0
    BY <2>1
  <2>3. \A i \in DOMAIN stream' : i \in Nat \ {0} /\ i + 1 \in DOMAIN stream /\ stream'[i] = stream[i + 1]
    BY <1>0, <1>1
  <2>4. Len(stream) # 1 => Len(stream') \in DOMAIN stream'
    BY <2>1
  <2>5. stream' = <<>> <=> Len(stream) = 1
    BY <2>1, <2>2
  <2> QED BY <2>1, <2>3, <2>4, <2>5
<1>5. cur.id = c /\ OwnerInv(c) /\ wpc[c] \in {"typed", "accepted"}
  <2>1. InPipe(c)
    BY <1>3, <1>4 DEF InPipe
  <2> QED BY <1>2, <2>1 DEF OpenInv, ReportInv
<1>6. \A d \in Cmds : d # c => cur.id # d
  BY <1>5
<1>7. Cardinality(Told(c)) \in Nat /\ made[c] \in Nat
  BY <1>0, ReportsTyping
<1>8. Left \in Int
  BY <1>4 DEF Left
\* What one more report leaves to show.
<1>9. ASSUME NEW e \in Event, e.cmd = c, unsent' = <<e>>,
             IF e.kind = "Started" THEN Told(c) = {} ELSE Reported("Started", c),
             e.kind = "Ended" => Cardinality(Told(c)) = made[c] + 1 /\ CarriesOutput(e, c),
             StreamInv', \A d \in Cmds : cur'.id = d => d = c,
             cur'.id = c => OwnerInv(c)', cur'.id = c \/ e.kind = "Ended"
      PROVE  ReportInv' /\ EventProtocol' /\ \E d \in Cmds, k \in {"Started", "Chunk", "Ended"} : Tells(d, k)
  <2>1. /\ \A d \in Cmds : d # c => /\ Told(d)' = Told(d) /\ ProtocolOf(d)'
                                    /\ \A k : Reported(k, d)' <=> Reported(k, d)
        /\ \A k : Reported(k, c)' <=> Reported(k, c) \/ k = e.kind
        /\ ProtocolOf(c)'
    <3>1. ~Reported("Ended", c)
      BY <1>5 DEF OwnerInv
    <3>2. e.kind = "Started" <=> Told(c) = {}
      BY <1>9 DEF Reported
    <3> QED BY <1>1, <1>9, <3>1, <3>2, NewReport
  <2>2. EventProtocol'
    <3>1. \A d \in Cmds : ProtocolOf(d)'
      BY <2>1
    <3> QED BY <3>1 DEF EventProtocol, ProtocolOf
  <2>3. ReportInv'
    BY <1>1, <1>2, <1>5, <1>6, <1>9, <2>1 DEF ReportInv
  <2>4. Tells(c, e.kind)
    BY <1>5, <1>9, <2>1 DEF Tells, OwnerInv
  <2>5. e.kind \in {"Started", "Chunk", "Ended"}
    BY DEF Event
  <2> QED BY <2>2, <2>3, <2>4, <2>5
<1>10. CASE Head(stream).kind = "START"
  <2>1. inside = None /\ Told(c) = {} /\ inside' = c /\ cur' = cur
    BY <1>2, <1>3, <1>4, <1>5, <1>10 DEF ReadItem, OnStart, StreamInv, OwnerInv
  <2>2. PICK e \in Event : e.cmd = c /\ e.kind = "Started" /\ unsent' = <<e>>
    <3> DEFINE e == [kind |-> "Started", cmd |-> c, out |-> <<>>, trunc |-> FALSE]
    <3>1. e \in Event /\ e.cmd = c /\ e.kind = "Started"
      BY DEF Event
    <3>2. unsent' = <<e>>
      BY <1>3, <1>10 DEF ReadItem, OnStart, ToPublish, NoCmd
    <3> QED BY <3>1, <3>2
  <2>3. Left' = Left
    <3>1. Left = Len(stream) - 1 - (IF stream[Len(stream)].kind = "END" THEN 1 ELSE 0)
      BY <1>1, <1>4, <2>1 DEF Left
    <3>2. inside' # None
      BY <1>0, <2>1
    <3>3. CASE Len(stream) = 1
      BY <1>4, <1>10, <3>1, <3>2, <3>3 DEF Left
    <3>4. CASE Len(stream) # 1
      <4>1. stream'[Len(stream')] = stream[Len(stream)]
        BY <1>4, <3>4
      <4>2. Left' = Len(stream') - 0 - (IF stream'[Len(stream')].kind = "END" THEN 1 ELSE 0)
        BY <1>4, <3>2, <3>4 DEF Left
      <4> QED BY <1>4, <3>1, <4>1, <4>2
    <3> QED BY <3>3, <3>4
  <2>4. Cardinality(Told(c)') = 1 /\ \A k : Reported(k, c)' <=> Reported(k, c) \/ k = "Started"
    <3>1. Cardinality(Told(c)) = 0
      BY <2>1, FS_EmptySet
    <3>2. /\ Cardinality(Told(c)') = Cardinality(Told(c)) + 1
          /\ \A k : Reported(k, c)' <=> Reported(k, c) \/ k = "Started"
      BY <1>1, <2>2, NewReport
    <3> QED BY <3>1, <3>2
  <2>5. Left = made[c] /\ Filled(cur, c, made[c] - Left)
    BY <1>5, <2>1 DEF OwnerInv
  <2>8. Numbered(c)'
    <3>1. Numbered(c) /\ inside' # None
      BY <1>0, <1>5, <2>1 DEF OwnerInv
    <3> QED BY <1>1, <1>4, <1>7, <1>8, <2>1, <2>3, <3>1 DEF Numbered
  <2>6. OwnerInv(c)'
    BY <1>0, <1>1, <1>5, <1>7, <2>1, <2>3, <2>4, <2>5, <2>8 DEF OwnerInv
  <2>7. StreamInv'
    BY <1>0, <1>1, <1>2, <1>4, <2>1 DEF StreamInv
  <2> QED BY <1>5, <1>9, <2>1, <2>2, <2>6, <2>7
<1>11. CASE Head(stream).kind = "CHUNK"
  <2> DEFINE n == Head(stream).no
  <2>1. inside # None /\ inside' = inside /\ cur' = Buffered(c, n) /\ Reported("Started", c)
    <3>1. inside # None
      BY <1>1, <1>2, <1>4, <1>11 DEF StreamInv
    <3> QED BY <1>0, <1>3, <1>5, <1>11, <3>1 DEF ReadItem, OnChunk, Busy, OwnerInv
  <2>2. PICK e \in Event : e.cmd = c /\ e.kind = "Chunk" /\ unsent' = <<e>>
    <3> DEFINE e == [kind |-> "Chunk", cmd |-> c, out |-> <<>>, trunc |-> FALSE]
    <3>1. e \in Event /\ e.cmd = c /\ e.kind = "Chunk"
      BY DEF Event
    <3>2. unsent' = <<e>>
      BY <1>0, <1>3, <1>5, <1>11, <2>1 DEF ReadItem, OnChunk, Busy, ToPublish, NoCmd
    <3> QED BY <3>1, <3>2
  <2>3. Left' = Left - 1
    <3>1. Left = Len(stream) - (IF stream[Len(stream)].kind = "END" THEN 1 ELSE 0)
      BY <1>1, <1>4, <2>1 DEF Left
    <3>2. CASE Len(stream) = 1
      BY <1>4, <1>11, <2>1, <3>1, <3>2 DEF Left
    <3>3. CASE Len(stream) # 1
      <4>1. stream'[Len(stream')] = stream[Len(stream)]
        BY <1>4, <3>3
      <4> QED BY <1>4, <2>1, <3>1, <3>3, <4>1 DEF Left
    <3> QED BY <3>2, <3>3
  <2>4. /\ Cardinality(Told(c)') = Cardinality(Told(c)) + 1
        /\ \A k : Reported(k, c)' <=> Reported(k, c) \/ k = "Chunk"
    BY <1>1, <2>2, NewReport
  <2>5. /\ Left <= made[c] /\ Filled(cur, c, made[c] - Left)
        /\ Cardinality(Told(c)) + Left = made[c] + 1 /\ ~Reported("Ended", c)
    BY <1>5, <2>1 DEF OwnerInv
  <2>12. n = made[c] - Left + 1 /\ n \in 1..MaxChunks
    <3>1. stream[1] \in Item /\ stream[1].kind = "CHUNK" /\ n = stream[1].no
      BY <1>0, <1>4, <1>11
    <3>2. n \in 1..MaxChunks
      BY <3>1 DEF Item
    <3>3. Numbered(c)
      BY <1>5 DEF OwnerInv
    <3>4. stream[1].no = made[c] - Left + 1 - (IF inside = None THEN 1 ELSE 0)
      BY <1>4, <3>1, <3>3 DEF Numbered
    <3>5. n = made[c] - Left + 1
      BY <1>7, <1>8, <2>1, <3>1, <3>4
    <3> QED BY <3>2, <3>5
  <2>6. Filled(cur', c, made[c] - Left + 1)
    <3>1. made[c] - Left \in Nat
      BY <1>7, <1>8, <2>5
    <3> HIDE DEF n
    <3> QED BY <1>0, <2>1, <2>5, <2>12, <3>1, FilledMore
  <2>7. made[c] - Left' = made[c] - Left + 1 /\ Left' <= made[c]
    BY <1>7, <1>8, <2>3, <2>5
  <2>8. Cardinality(Told(c)') + Left' = made[c] + 1
    BY <1>7, <1>8, <2>3, <2>4, <2>5
  <2>9. cur'.id = c
    BY <1>0, <1>5, <2>1 DEF Buffered, Keep, Skip, Running
  <2>13. Numbered(c)'
    <3>1. Numbered(c)
      BY <1>5 DEF OwnerInv
    <3>2. \A i \in DOMAIN stream : stream[i].kind = "CHUNK" => stream[i].no = made[c] - Left + i - 0
      BY <2>1, <3>1 DEF Numbered
    <3>3. \A i \in DOMAIN stream' : stream'[i].kind = "CHUNK" => stream'[i].no = made'[c] - Left' + i - 0
      <4> SUFFICES ASSUME NEW i \in DOMAIN stream', stream'[i].kind = "CHUNK"
                   PROVE  stream'[i].no = made'[c] - Left' + i - 0
        OBVIOUS
      <4>1. i \in Nat /\ i + 1 \in DOMAIN stream /\ stream'[i] = stream[i + 1]
        BY <1>4
      <4>2. stream'[i].no = made[c] - Left + (i + 1) - 0 /\ made' = made
        BY <1>1, <3>2, <4>1
      <4> QED BY <1>7, <1>8, <2>3, <4>1, <4>2
    <3> QED BY <2>1, <3>3 DEF Numbered
  <2>10. OwnerInv(c)'
    BY <1>1, <1>5, <2>1, <2>4, <2>5, <2>6, <2>7, <2>8, <2>13 DEF OwnerInv
  <2>11. StreamInv'
    BY <1>0, <1>1, <1>2, <1>4, <2>1 DEF StreamInv
  <2> QED BY <1>9, <2>1, <2>2, <2>9, <2>10, <2>11
<1>12. CASE Head(stream).kind = "END"
  <2>1. Len(stream) = 1 /\ fg = None /\ input = <<>> /\ inside # None /\ Left = 0
    <3>1. Len(stream) = 1 /\ fg = None /\ input = <<>> /\ inside # None
      BY <1>1, <1>2, <1>4, <1>12 DEF OpenInv, StreamInv
    <3> QED BY <1>4, <1>12, <3>1 DEF Left
  <2>2. inside' = None /\ cur' = NoCmd /\ cur'.id = None
    BY <1>0, <1>3, <1>5, <1>12 DEF ReadItem, OnEnd, Busy, NoCmd
  <2>3. Cardinality(Told(c)) = made[c] + 1 /\ Filled(cur, c, made[c]) /\ Reported("Started", c)
    BY <1>5, <1>7, <2>1 DEF OwnerInv
  <2>4. PICK e \in Event : /\ e.cmd = c /\ e.kind = "Ended" /\ unsent' = <<e>>
                           /\ e.out = cur.buf /\ e.trunc = cur.trunc
    <3> DEFINE e == [kind |-> "Ended", cmd |-> c, out |-> cur.buf, trunc |-> cur.trunc]
    <3>1. e \in Event /\ e.cmd = c /\ e.kind = "Ended" /\ e.out = cur.buf /\ e.trunc = cur.trunc
      BY <1>0 DEF Event, Running
    <3>2. unsent' = <<e>>
      BY <1>0, <1>3, <1>5, <1>12 DEF ReadItem, OnEnd, Busy, ToPublish
    <3> QED BY <3>1, <3>2
  <2>5. CarriesOutput(e, c)
    BY <1>0, <2>3, <2>4 DEF CarriesOutput, Filled, Running
  <2>6. StreamInv'
    BY <1>1, <1>4, <2>1 DEF StreamInv
  <2> QED BY <1>0, <1>9, <2>2, <2>3, <2>4, <2>5, <2>6
<1> QED BY <1>10, <1>11, <1>12 DEF ReadItem

\* Every step keeps the strengthened invariant and the protocol.
LEMMA ReportStep ==
  ASSUME Handlers = {}, "SendEnter" \notin Faults, TypeOK, SerialInv, CloseInv, ReportInv, EventProtocol,
         [Next]_vars
  PROVE  ReportInv' /\ EventProtocol'
<1>1. ASSUME Reports' = Reports, UNCHANGED made PROVE EventProtocol'
  BY <1>1, ToldFrame DEF EventProtocol, CarriesOutput
<1>2. ASSUME NEW c \in Cmds, Writer(c) PROVE ReportInv' /\ EventProtocol'
  <2>1. UNCHANGED <<published, unsent, made>>
    BY <1>2 DEF Writer, WriteAdmit, WriteSendText, WriteSendEnter, WriteRollback, shellVars
  <2> QED BY <1>1, <1>2, <2>1, ReportsFrame, ReportWriter
<1>3. CASE Bash
  <2>1. UNCHANGED <<published, unsent>> /\ Reports' = Reports
    BY <1>3, ReportsFrame DEF Bash, BashRead, BashOutput, BashEnd, ClaudeReads, BashExit, shellVars
  <2>2. CASE UNCHANGED made
    BY <1>1, <1>3, <2>1, <2>2, ReportBash
  <2>3. CASE BashOutput
    <3>1. PICK c \in Cmds : c = fg
      BY <2>3 DEF BashOutput
    <3>2. \A d \in Cmds : d # c => made'[d] = made[d]
      BY <2>3, <3>1 DEF BashOutput, TypeOK, TypeData
    <3>3. ~Reported("Ended", c)
      BY <2>3, <3>1 DEF BashOutput, SerialInv, OpenInv, InPipe, ReportInv, OwnerInv
    <3>4. ProtocolOf(c) /\ ProtocolOf(c)'
      <4>1. ProtocolOf(c)
        BY ProtocolEach
      <4> QED BY <2>1, <3>3, <4>1, ToldFrame DEF ProtocolOf, Reported
    <3>5. ASSUME NEW d \in Cmds, d # c PROVE ProtocolOf(d)'
      <4>1. ProtocolOf(d) /\ \A e : CarriesOutput(e, d)' <=> CarriesOutput(e, d)
        BY <3>2, <3>5, ProtocolEach DEF CarriesOutput
      <4> QED BY <2>1, <3>2, <3>5, <4>1, ToldFrame DEF ProtocolOf
    <3>6. EventProtocol'
      BY <3>4, <3>5 DEF EventProtocol, ProtocolOf
    <3> QED BY <1>3, <3>6, ReportBash
  <2> QED BY <1>3, <2>2, <2>3 DEF Bash, BashRead, BashEnd, ClaudeReads, BashExit
<1>4. CASE ReadPublish \/ ReadLoopExit
  <2>1. /\ Reports' = Reports
        /\ UNCHANGED <<wpc, cur, inside, made, stream, pane, fg, input, cpc, closed>>
    BY <1>4, ReportsFrame DEF ReadPublish, ReadLoopExit, shellVars, loopVars, closeVars, paneVars
  <2> QED BY <1>1, <2>1, ReportFrame DEF ReportInv
<1>5. CASE Closing
  <2>1. /\ UNCHANGED <<published, unsent, wpc, cur, inside, made, stream>> /\ cpc' # "open"
        /\ pane' \in {pane, "gone"} /\ fg' \in {fg, None} /\ input' \in {input, <<>>}
    BY <1>5 DEF Closing, CloseRequest, CloseBegin, CloseWait, CloseKill, shellVars, loopVars, paneVars
  <2> QED BY <1>1, <2>1, ReportsFrame, ReportFrame
<1>6. CASE Poller \/ UNCHANGED vars
  <2>1. /\ UNCHANGED <<published, unsent, wpc, cur, inside, made, stream, pane, fg, input>>
        /\ UNCHANGED <<cpc, closed>> \/ cpc' # "open"
    BY <1>6 DEF Poller, PollDead, PollCheck, UserExitClose, CloseBegin, UserExitReturn, PollExit, vars,
       shellVars, loopVars, closeVars, paneVars
  <2> QED BY <1>1, <2>1, ReportsFrame, ReportFrame DEF ReportInv
<1> QED BY <1>2, <1>3, <1>4, <1>5, <1>6, ReportReadItem DEF Next, ReadLoop

LEMMA ReportInit == Init => ReportInv /\ EventProtocol
<1> SUFFICES ASSUME Init PROVE ReportInv /\ EventProtocol
  OBVIOUS
<1>1. Reports = <<>> /\ \A c : Told(c) = {}
  BY DEF Init, Reports, Told
<1>2. StreamInv /\ \A c \in Cmds : cur.id # c /\ wpc[c] = "new" /\ made[c] = 0
  BY ShellAssumption DEF Init, StreamInv, NoCmd
<1> QED BY <1>1, <1>2 DEF Init, ReportInv, EventProtocol

LEMMA ReportInductive ==
  ASSUME Handlers = {}, "SendEnter" \notin Faults
  PROVE  Spec => [](ReportInv /\ EventProtocol)
<1>1. TypeOK /\ SerialInv /\ CloseInv /\ (ReportInv /\ EventProtocol) /\ [Next]_vars =>
        (ReportInv /\ EventProtocol)'
  BY ReportStep
<1> QED BY <1>1, ReportInit, TypeCorrect, CloseInductive, SerialInductive, PTL DEF Spec

\* While no handler stops the shell, subscribers see each command's whole story:
\* started, a chunk at a time, and once ended with those of the chunks it printed
\* that fitted under the cap behind the ones before them, flagged if one did not.
THEOREM ProtocolCorrect ==
  ASSUME Handlers = {}, "SendEnter" \notin Faults
  PROVE  Spec => []EventProtocol
BY ReportInductive, PTL

-----------------------------------------------------------------------------
(* The shell implements SerialShell                                          *)

LEMMA PhaseFacts ==
  ASSUME NEW c
  PROVE  PhaseOf(c) = IF Reported("Ended", c) THEN "ended"
                      ELSE IF Reported("Started", c) THEN "started"
                      ELSE IF wpc[c] = "failed" THEN "refused"
                      ELSE IF wpc[c] = "new" THEN "new" ELSE "accepted"
BY DEF PhaseOf

\* The commands being served are the one that owns the shell.
LEMMA OwnerServed ==
  ASSUME ReportInv, OpenInv, pane # "gone", wpc \in [Cmds -> WriterPc], NEW c \in Cmds
  PROVE  PhaseOf(c) \in {"accepted", "started"} <=> cur.id = c
<1>1. ASSUME cur.id = c PROVE PhaseOf(c) \in {"accepted", "started"}
  BY <1>1, PhaseFacts DEF ReportInv, OwnerInv
<1>2. ASSUME PhaseOf(c) \in {"accepted", "started"} PROVE cur.id = c
  <2>1. ~Reported("Ended", c) /\ (Reported("Started", c) \/ wpc[c] \notin {"new", "failed"})
    BY <1>2, PhaseFacts
  <2>2. wpc[c] \in {"admitted", "errored", "typed", "accepted"}
    <3>1. Reported("Started", c) => Told(c) # {}
      BY DEF Reported
    <3> QED BY <2>1, <3>1 DEF ReportInv, WriterPc
  <2> QED BY <2>1, <2>2 DEF OpenInv, ReportInv
<1> QED BY <1>1, <1>2

LEMMA PhaseFrame ==
  ASSUME NEW c, \A k : Reported(k, c)' <=> Reported(k, c),
         wpc'[c] = wpc[c] \/ {wpc[c], wpc'[c]} \cap {"new", "failed"} = {}
  PROVE  PhaseOf(c)' = PhaseOf(c)
<1>1. PhaseOf(c)' = IF Reported("Ended", c)' THEN "ended"
                    ELSE IF Reported("Started", c)' THEN "started"
                    ELSE IF wpc'[c] = "failed" THEN "refused"
                    ELSE IF wpc'[c] = "new" THEN "new" ELSE "accepted"
  BY PhaseFacts DEF PhaseOf
<1> QED BY <1>1, PhaseFacts

LEMMA PhaseMove ==
  ASSUME NEW c \in Cmds, \A d \in Cmds : d # c => PhaseOf(d)' = PhaseOf(d)
  PROVE  Phase' = [Phase EXCEPT ![c] = PhaseOf(c)']
BY DEF Phase

\* A submission is accepted by a free shell, refused by a busy or closed one,
\* and an accepted one may fail on its way to bash.
LEMMA RefineWriter ==
  ASSUME TypeOK, SerialInv, CloseInv, ReportInv, NEW c \in Cmds, Writer(c)
  PROVE  Serial!Next \/ UNCHANGED Serial!vars
<1>0. wpc \in [Cmds -> WriterPc] /\ cur \in Running /\ None \notin Cmds
  BY ShellAssumption DEF TypeOK, TypeWrite, TypeCur
<1>1. /\ UNCHANGED <<published, unsent, closed>>
      /\ \E p \in WriterPc : wpc' = [wpc EXCEPT ![c] = p]
  BY DEF Writer, WriteAdmit, WriteSendText, WriteSendEnter, WriteRollback, WriterPc, shellVars
<1>2. \A k, d : Reported(k, d)' <=> Reported(k, d)
  BY <1>1, ReportsFrame, ToldFrame
<1>3. \A d \in Cmds : d # c => PhaseOf(d)' = PhaseOf(d)
  BY <1>0, <1>1, <1>2, PhaseFrame
<1>4. Phase' = [Phase EXCEPT ![c] = PhaseOf(c)']
  BY <1>3, PhaseMove
<1>5. Phase[c] = PhaseOf(c) /\ \A d \in Cmds : Phase[d] = PhaseOf(d)
  BY DEF Phase
<1>6. PhaseOf(c)' = IF Reported("Ended", c) THEN "ended"
                    ELSE IF Reported("Started", c) THEN "started"
                    ELSE IF wpc'[c] = "failed" THEN "refused"
                    ELSE IF wpc'[c] = "new" THEN "new" ELSE "accepted"
  BY <1>2, PhaseFacts DEF PhaseOf
<1>7. CASE WriteAdmit(c)
  <2>1. wpc[c] = "new" /\ PhaseOf(c) = "new" /\ ~Reported("Ended", c) /\ ~Reported("Started", c)
    <3>1. wpc[c] = "new" /\ Told(c) = {}
      BY <1>7 DEF WriteAdmit, ReportInv
    <3> QED BY <3>1, PhaseFacts DEF Reported
  <2>2. CASE Admits
    <3>1. wpc'[c] = "admitted" /\ cur.id = None /\ ~closed
      BY <1>0, <1>7, <2>2 DEF WriteAdmit, Admits, Busy
    <3>2. pane # "gone" /\ OpenInv
      BY <3>1 DEF CloseInv, SerialInv
    <3>3. \A d \in Cmds : PhaseOf(d) \notin {"accepted", "started"}
      BY <1>0, <3>1, <3>2, OwnerServed
    <3>4. PhaseOf(c)' = "accepted"
      BY <1>6, <2>1, <3>1
    <3>5. Serial!Accept(c)
      BY <1>1, <1>4, <1>5, <2>1, <3>1, <3>3, <3>4 DEF Serial!Accept, Serial!Move, Serial!Served
    <3> QED BY <3>5 DEF Serial!Next
  <2>3. CASE ~Admits
    <3>1. wpc'[c] = "failed" /\ (closed \/ cur.id # None)
      BY <1>0, <1>7, <2>3 DEF WriteAdmit, Admits, Busy
    <3>2. closed \/ \E d \in Cmds : PhaseOf(d) \in {"accepted", "started"}
      <4>1. CASE closed
        BY <4>1
      <4>2. CASE ~closed
        <5>1. pane # "gone" /\ OpenInv
          BY <4>2 DEF CloseInv, SerialInv
        <5>2. PICK d \in Cmds : cur.id = d
          BY <1>0, <3>1, <4>2 DEF Running
        <5> QED BY <1>0, <5>1, <5>2, OwnerServed
      <4> QED BY <4>1, <4>2
    <3>3. PhaseOf(c)' = "refused"
      BY <1>6, <2>1, <3>1
    <3>4. Serial!Refuse(c)
      BY <1>1, <1>4, <1>5, <2>1, <3>2, <3>3 DEF Serial!Refuse, Serial!Move, Serial!Served
    <3> QED BY <3>4 DEF Serial!Next
  <2> QED BY <2>2, <2>3
<1>8. CASE WriteSendText(c) \/ WriteSendEnter(c)
  <2>1. {wpc[c], wpc'[c]} \cap {"new", "failed"} = {}
    BY <1>0, <1>8 DEF WriteSendText, WriteSendEnter
  <2>2. \A d \in Cmds : PhaseOf(d)' = PhaseOf(d)
    BY <1>2, <1>3, <2>1, PhaseFrame
  <2>3. Phase' = Phase
    BY <2>2 DEF Phase
  <2> QED BY <1>1, <2>3 DEF Serial!vars
<1>9. CASE WriteRollback(c)
  <2>1. wpc[c] = "errored" /\ wpc'[c] = "failed"
    BY <1>0, <1>9 DEF WriteRollback
  <2>2. CASE Reported("Ended", c) \/ Reported("Started", c)
    <3>1. \A d \in Cmds : PhaseOf(d)' = PhaseOf(d)
      BY <1>3, <1>6, <2>2, PhaseFacts
    <3>2. Phase' = Phase
      BY <3>1 DEF Phase
    <3> QED BY <1>1, <3>2 DEF Serial!vars
  <2>3. CASE ~Reported("Ended", c) /\ ~Reported("Started", c)
    <3>1. PhaseOf(c) = "accepted" /\ PhaseOf(c)' = "refused"
      BY <1>6, <2>1, <2>3, PhaseFacts
    <3>2. Serial!Fail(c)
      BY <1>1, <1>4, <1>5, <3>1 DEF Serial!Fail, Serial!Move
    <3> QED BY <3>2 DEF Serial!Next
  <2> QED BY <2>2, <2>3
<1> QED BY <1>7, <1>8, <1>9 DEF Writer

LEMMA RefineStep ==
  ASSUME Handlers = {}, TypeOK, SerialInv, CloseInv, ReportInv, EventProtocol, [Next]_vars
  PROVE  Serial!Next \/ UNCHANGED Serial!vars
<1>1. ASSUME Reports' = Reports, UNCHANGED <<wpc, closed>> PROVE UNCHANGED Serial!vars
  <2>1. \A d \in Cmds : PhaseOf(d)' = PhaseOf(d)
    BY <1>1, ToldFrame, PhaseFrame
  <2> QED BY <1>1, <2>1 DEF Phase, Serial!vars
<1>2. CASE Bash \/ ReadPublish \/ ReadLoopExit
  <2>1. UNCHANGED <<wpc, closed>> /\ Reports' = Reports
    BY <1>2, ReportsFrame DEF Bash, BashRead, BashOutput, BashEnd, ClaudeReads, BashExit, ReadPublish,
       ReadLoopExit, shellVars
  <2> QED BY <1>1, <2>1
<1>3. CASE Closing \/ Poller \/ UNCHANGED vars
  <2>1. /\ UNCHANGED <<wpc, published, unsent>>
        /\ UNCHANGED closed \/ (cpc = "open" /\ closed' = TRUE)
    BY <1>3 DEF Closing, CloseRequest, CloseBegin, CloseWait, CloseKill, Poller, PollDead, PollCheck,
       UserExitClose, UserExitReturn, PollExit, vars, shellVars
  <2>2. Reports' = Reports
    BY <2>1, ReportsFrame
  <2>3. CASE UNCHANGED closed
    BY <1>1, <2>1, <2>2, <2>3
  <2>4. CASE cpc = "open" /\ closed' = TRUE
    <3>1. ~closed
      BY <2>4 DEF ReportInv
    <3>2. \A d \in Cmds : PhaseOf(d)' = PhaseOf(d)
      BY <2>1, <2>2, ToldFrame, PhaseFrame
    <3>3. Phase' = Phase
      BY <3>2 DEF Phase
    <3> QED BY <2>4, <3>1, <3>3 DEF Serial!Next, Serial!Close
  <2> QED BY <2>1, <2>3, <2>4
<1>4. CASE ReadItem
  <2>1. UNCHANGED <<wpc, closed>>
    BY <1>4 DEF ReadItem
  <2>2. PICK c \in Cmds, k \in {"Started", "Chunk", "Ended"} : Tells(c, k)
    BY <1>4, ReportReadItem
  <2>3. \A d \in Cmds : d # c => PhaseOf(d)' = PhaseOf(d)
    BY <2>1, <2>2, PhaseFrame DEF Tells
  <2>4. Phase' = [Phase EXCEPT ![c] = PhaseOf(c)'] /\ Phase[c] = PhaseOf(c)
    BY <2>3, PhaseMove DEF Phase
  <2>5. PhaseOf(c)' = IF Reported("Ended", c)' THEN "ended"
                      ELSE IF Reported("Started", c)' THEN "started"
                      ELSE IF wpc'[c] = "failed" THEN "refused"
                      ELSE IF wpc'[c] = "new" THEN "new" ELSE "accepted"
    BY PhaseFacts DEF PhaseOf
  <2>6. CASE k = "Started"
    <3>1. PhaseOf(c) = "accepted" /\ PhaseOf(c)' = "started"
      BY <2>2, <2>5, <2>6, PhaseFacts DEF Tells, Reported
    <3>2. Serial!Start(c)
      BY <2>1, <2>4, <3>1 DEF Serial!Start, Serial!Move
    <3> QED BY <3>2 DEF Serial!Next
  <2>7. CASE k = "Chunk"
    <3>1. PhaseOf(c)' = PhaseOf(c)
      BY <2>1, <2>2, <2>5, <2>7, PhaseFacts DEF Tells
    <3>2. Phase' = Phase
      BY <2>3, <3>1 DEF Phase
    <3> QED BY <2>1, <3>2 DEF Serial!vars
  <2>8. CASE k = "Ended"
    <3>1. PhaseOf(c) = "started" /\ PhaseOf(c)' = "ended"
      BY <2>2, <2>5, <2>8, PhaseFacts DEF Tells
    <3>2. Serial!End(c)
      BY <2>1, <2>4, <3>1 DEF Serial!End, Serial!Move
    <3> QED BY <3>2 DEF Serial!Next
  <2> QED BY <2>2, <2>6, <2>7, <2>8
<1> QED BY <1>2, <1>3, <1>4, RefineWriter DEF Next, ReadLoop

LEMMA RefineInit == Init => Serial!Init
<1> SUFFICES ASSUME Init PROVE Serial!Init
  OBVIOUS
<1>1. \A c \in Cmds : PhaseOf(c) = "new"
  <2>1. \A k, c : ~Reported(k, c)
    BY DEF Init, Reported, Told, Reports
  <2> QED BY <2>1, PhaseFacts DEF Init
<1> QED BY <1>1 DEF Init, Phase, Serial!Init

\* While no handler stops the shell, it implements SerialShell: commands are
\* served one at a time, refused only while another is served or the shell is
\* closed, and reported as started and as ended once each.
THEOREM ShellCorrect ==
  ASSUME Handlers = {}, "SendEnter" \notin Faults
  PROVE  Spec => RefinesSerialShell
<1>1. TypeOK /\ SerialInv /\ CloseInv /\ ReportInv /\ EventProtocol /\ [Next]_vars =>
        [Serial!Next]_(Serial!vars)
  BY RefineStep
<1> QED BY <1>1, RefineInit, TypeCorrect, CloseInductive, SerialInductive, ReportInductive, PTL
        DEF Spec, RefinesSerialShell, Serial!Spec

=============================================================================
