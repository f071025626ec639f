------------------------ MODULE CommandRecordsProofs ------------------------
(* No stale copy of a record, whoever holds it and wherever the process      *)
(* dies, brings a command back to life or completes it without its output,   *)
(* unless the disk refused that: for any number of commands, stop requests,  *)
(* crashes and faults.                                                       *)
EXTENDS CommandRecords, TLAPS, WellFoundedInduction

-----------------------------------------------------------------------------
(* The inductive invariant: what each writer knows about its copy *)

\* A command has no record before handleRun has saved it; the rollback rewrites the
\* record it has read.
Frames == \A c \in Cmds : /\ run[c] = "new" => rec[c] = None
                          /\ run[c] = "interrupt" => rrec[c] \in Record

\* The events on their way to the persister carry an exit code; the output of the one
\* it works on has been written or refused and, once it is read, it has a record.
Ending == /\ \A i \in DOMAIN queue : queue[i].cmd # "started" => queue[i].exit # None
          /\ ppc # "idle" => pcmd \in Event /\ pcmd.cmd \in out \cup failed /\ pcmd.exit # None
          /\ ppc = "save" => prec \in Record /\ rec[pcmd.cmd] # None

\* A stop handler has named its command, and copied only a record that exists.
Stopping == \A h \in Handlers : hpc[h] \in {"get", "save"} =>
              /\ hcmd[h] \in Cmds
              /\ hpc[h] = "save" /\ hrec[h] # None => rec[hcmd[h]] # None

Inv == TypeOK /\ Frames /\ Ending /\ Stopping /\ CompletedHasResult

\* What a step may do to the records.
Settled == \A c \in Cmds : rec[c] # None /\ ~Is(c, "running") => rec'[c] # None /\ rec'[c].status # "running"

LEMMA InvInit == Init => Inv
<1> SUFFICES ASSUME Init PROVE Inv
  OBVIOUS
<1>1. TypeShell
  <2>1. up \in BOOLEAN /\ live \in BOOLEAN /\ dead \in BOOLEAN
    BY DEF Init
  <2>2. cur \in Cmds \cup {None} /\ bash \in Cmds \cup {None}
    BY DEF Init
  <2>3. typed \in Seq(Cmds) /\ tail \in Seq({"start", "end"} \X Cmds)
    BY DEF Init
  <2> QED BY <2>1, <2>2, <2>3 DEF TypeShell
<1>2. TypeRecords /\ TypeHistory /\ TypePersister /\ TypeStop
  BY RecordsAssumption DEF Init, TypeRecords, TypeHistory, TypePersister, TypeStop
<1>3. Frames /\ Ending /\ Stopping /\ CompletedHasResult
  BY DEF Init, Frames, Ending, Stopping, CompletedHasResult, Is
<1> QED BY <1>1, <1>2, <1>3 DEF Inv, TypeOK

\* What holds because the variables it is about do not change.
LEMMA Same ==
  ASSUME Inv
  PROVE  /\ UNCHANGED <<diskVars, runVars>> => TypeRecords' /\ Frames'
         /\ UNCHANGED diskVars /\ failed \subseteq failed' => CompletedHasResult' /\ Settled
         /\ UNCHANGED <<shellVars, up, live>> => TypeShell'
         /\ UNCHANGED <<histVars, faults>> => TypeHistory'
         /\ UNCHANGED <<queue, persVars>> => TypePersister'
         /\ UNCHANGED <<queue, persVars, diskVars>> /\ failed \subseteq failed' => Ending'
         /\ UNCHANGED stopVars => TypeStop'
         /\ UNCHANGED <<stopVars, rec>> => Stopping'
<1> USE DEF Inv, TypeOK, diskVars
<1>1. UNCHANGED <<diskVars, runVars>> => TypeRecords' /\ Frames'
  BY DEF runVars, TypeRecords, Frames
<1>2. UNCHANGED diskVars /\ failed \subseteq failed' => CompletedHasResult' /\ Settled
  BY DEF CompletedHasResult, Settled, Is
<1>3. UNCHANGED <<shellVars, up, live>> => TypeShell'
  BY DEF shellVars, TypeShell
<1>4. UNCHANGED <<histVars, faults>> => TypeHistory'
  BY DEF histVars, TypeHistory
<1>5. UNCHANGED <<queue, persVars>> => TypePersister'
  BY DEF persVars, TypePersister
<1>6. UNCHANGED <<queue, persVars, diskVars>> /\ failed \subseteq failed' => Ending'
  BY DEF persVars, Ending
<1>7. UNCHANGED stopVars => TypeStop'
  BY DEF stopVars, TypeStop
<1>8. UNCHANGED <<stopVars, rec>> => Stopping'
  BY DEF stopVars, Stopping
<1> QED BY <1>1, <1>2, <1>3, <1>4, <1>5, <1>6, <1>7, <1>8

\* The number of faults stays within its bound.
LEMMA Counting ==
  ASSUME Inv, NEW kind, Fault(kind) \/ UNCHANGED faults, orphaned' \subseteq Cmds, failed' \subseteq Cmds
  PROVE  TypeHistory'
BY RecordsAssumption DEF Inv, TypeOK, TypeHistory, Fault

\* What saving a record does, or the failure to: nobody's record goes away, and it
\* matters only whether the new one is running, or completed.
LEMMA Saving ==
  ASSUME Inv, NEW c \in Cmds, NEW r \in Record, SaveRec(c, r)
  PROVE  /\ rec' \in [Cmds -> Record \cup {None}] /\ failed \subseteq failed'
         /\ \A d \in Cmds : d # c => rec'[d] = rec[d]
         /\ \A d \in Cmds : rec[d] # None => rec'[d] # None
         /\ UNCHANGED orphaned => TypeHistory'
         /\ UNCHANGED <<queue, persVars, out>> => Ending'
         /\ UNCHANGED stopVars => Stopping'
         /\ UNCHANGED out /\ (r.status = "completed" => r.exit # None /\ c \in out \cup failed)
            => CompletedHasResult'
         /\ r.status # "running" \/ rec[c] = None => Settled
<1> USE DEF Inv, TypeOK, TypeRecords
<1>1. \/ rec' = [rec EXCEPT ![c] = r] /\ UNCHANGED <<faults, failed>>
      \/ UNCHANGED rec /\ Fault("disk") /\ failed' = failed \cup {c}
  BY DEF SaveRec, DiskFails
<1>2. r # None /\ rec' \in [Cmds -> Record \cup {None}] /\ failed \subseteq failed'
  BY <1>1, NoneAssumption
<1>3. \A d \in Cmds : (d # c => rec'[d] = rec[d]) /\ (rec[d] # None => rec'[d] # None)
  BY <1>1, <1>2
<1>4. \A d \in Cmds : rec'[d] = rec[d] \/ (d = c /\ rec'[d] = r)
  BY <1>1
<1>5. UNCHANGED orphaned => TypeHistory'
  BY <1>1, Counting DEF TypeHistory
<1>6. UNCHANGED <<queue, persVars, out>> => Ending'
  <2> SUFFICES ASSUME UNCHANGED <<queue, persVars, out>> PROVE Ending'
    OBVIOUS
  <2>1. UNCHANGED <<ppc, pcmd, prec>>
    BY DEF persVars
  <2>2. ppc = "save" => pcmd.cmd \in Cmds
    BY DEF Ending, TypeHistory
  <2> QED BY <1>2, <1>3, <2>1, <2>2 DEF Ending
<1>7. UNCHANGED stopVars => Stopping'
  BY <1>3 DEF Stopping, stopVars
<1>8. UNCHANGED out /\ (r.status = "completed" => r.exit # None /\ c \in out \cup failed) => CompletedHasResult'
  BY <1>2, <1>4 DEF CompletedHasResult, Is
<1>9. r.status # "running" \/ rec[c] = None => Settled
  BY <1>2, <1>3, <1>4 DEF Settled, Is
<1> QED BY <1>2, <1>3, <1>5, <1>6, <1>7, <1>8, <1>9

LEMMA Stamped ==
  ASSUME NEW r \in Record, NEW s \in Statuses
  PROVE  /\ [r EXCEPT !.status = s] \in Record
         /\ [r EXCEPT !.status = s].status = s /\ [r EXCEPT !.status = s].exit = r.exit
BY DEF Record

LEMMA Published ==
  /\ Started \in Event /\ Started.cmd = "started"
  /\ \A c \in Cmds, e \in {"code", "killed"} :
       /\ Ended(c, e) \in Event /\ Ended(c, e).cmd = c /\ Ended(c, e).exit = e
       /\ c # "started" /\ e # None
  /\ \A e \in Event : e.cmd \in Cmds \cup {"started"} /\ e.exit \in {None, "code", "killed"}
BY NoneAssumption, RecordsAssumption DEF Event, Started, Ended

\* A channel with room gets the event, a full one stays as it is.
LEMMA Publishing ==
  ASSUME Inv, NEW e \in Event, e.cmd # "started" => e.exit # None, Publish(e),
         UNCHANGED <<persVars, diskVars, failed>>
  PROVE  TypePersister' /\ Ending'
<1> USE DEF Inv, TypeOK
<1>1. CASE ~Full
  <2>1. queue' = Append(queue, e) /\ queue \in Seq(Event) /\ Len(queue) < QueueCap
    BY <1>1, RecordsAssumption DEF Publish, Full, TypePersister
  <2>2. /\ queue' \in Seq(Event) /\ Len(queue') = Len(queue) + 1 /\ Len(queue) \in Nat
        /\ \A i \in DOMAIN queue' : queue'[i] = IF i = Len(queue) + 1 THEN e ELSE queue[i]
        /\ \A i \in DOMAIN queue' : i = Len(queue) + 1 \/ i \in DOMAIN queue
    BY <2>1
  <2>3. TypePersister'
    BY <2>1, <2>2, RecordsAssumption DEF TypePersister, persVars
  <2>4. Ending'
    BY <2>2 DEF Ending, persVars, diskVars
  <2> QED BY <2>3, <2>4
<1>2. CASE Full
  <2>1. UNCHANGED queue
    BY <1>2 DEF Publish
  <2> QED BY <2>1, Same
<1> QED BY <1>1, <1>2

-----------------------------------------------------------------------------
(* handleRun *)

LEMMA RunSaveInv ==
  ASSUME Inv, NEW c \in Cmds, RunSave(c) PROVE Inv' /\ Settled
<1> USE DEF Inv, TypeOK
<1> DEFINE r == [status |-> "running", exit |-> None]
<1>1. /\ run[c] = "new" /\ run' = [run EXCEPT ![c] = "write"] /\ asked' = Append(asked, c)
      /\ SaveRec(c, r) /\ UNCHANGED <<up, live, out, rrec, shellVars, queue, persVars, stopVars, orphaned>>
  BY DEF RunSave, RunAt
<1>2. r \in Record /\ r.status = "running" /\ rec[c] = None
  BY <1>1 DEF Frames, Record, Statuses
<1> HIDE DEF r
<1>3. TypeRecords'
  BY <1>1, <1>2, Saving DEF TypeRecords
<1>4. Frames'
  BY <1>1, <1>2, Saving DEF TypeRecords, Frames
<1>5. CompletedHasResult' /\ Settled /\ Ending' /\ Stopping' /\ TypeHistory'
  BY <1>1, <1>2, Saving
<1>6. TypeShell' /\ TypePersister' /\ TypeStop'
  BY <1>1, Same
<1> QED BY <1>3, <1>4, <1>5, <1>6

\* The steps of Write, which leave the records alone.
LEMMA RunShellInv ==
  ASSUME Inv, NEW c \in Cmds, RunAdmit(c) \/ RunSend(c) \/ RunRelease(c) PROVE Inv' /\ Settled
<1> USE DEF Inv, TypeOK
<1>1. /\ run' \in [Cmds -> {"new", "write", "send", "release", "rollback", "interrupt", "done"}]
      /\ \A d \in Cmds : run'[d] \in {"new", "interrupt"} => run'[d] = run[d]
      /\ UNCHANGED <<up, live, diskVars, asked, rrec, bash, dead, tail, queue, persVars, stopVars, failed>>
  BY DEF RunAdmit, RunSend, RunRelease, RunAt, TypeRecords, faultVars, histVars
<1>2. TypeRecords'
  BY <1>1 DEF TypeRecords, diskVars
<1>3. Frames'
  BY <1>1 DEF Frames, diskVars
<1>4. typed' \in Seq(Cmds)
  <2>1. typed' = Append(typed, c) \/ typed' = typed
    BY DEF RunAdmit, RunSend, RunRelease, Types
  <2>2. typed \in Seq(Cmds)
    BY DEF TypeShell
  <2> QED BY ONLY <2>1, <2>2
<1>5. cur' \in Cmds \cup {None} /\ orphaned' \subseteq Cmds
  BY DEF RunAdmit, RunSend, RunRelease, Orphans, TypeShell, TypeHistory, histVars
<1>6. TypeShell'
  BY ONLY Inv, <1>1, <1>4, <1>5 DEF Inv, TypeOK, TypeShell
<1>7. TypeHistory'
  <2>1. UNCHANGED faults \/ Fault("text") \/ Fault("enter")
    BY DEF RunAdmit, RunSend, RunRelease, faultVars
  <2> QED BY <1>1, <1>5, <2>1, Counting DEF TypeHistory
<1>8. CompletedHasResult' /\ Settled /\ TypePersister' /\ Ending' /\ TypeStop' /\ Stopping'
  BY <1>1, Same DEF diskVars
<1> QED BY <1>2, <1>3, <1>6, <1>7, <1>8

LEMMA RollbackGetInv ==
  ASSUME Inv, NEW c \in Cmds, RollbackGet(c) PROVE Inv' /\ Settled
<1> USE DEF Inv, TypeOK, RollbackGet, RunAt
<1>1. TypeRecords'
  BY DEF TypeRecords, diskVars
<1>2. Frames'
  BY DEF TypeRecords, Frames, diskVars
<1>3. CompletedHasResult' /\ Settled /\ TypeShell' /\ TypeHistory' /\ TypePersister' /\ Ending' /\ TypeStop' /\ Stopping'
  BY Same DEF diskVars, faultVars, histVars
<1> QED BY <1>1, <1>2, <1>3

LEMMA RollbackSaveInv ==
  ASSUME Inv, NEW c \in Cmds, RollbackSave(c) PROVE Inv' /\ Settled
<1> USE DEF Inv, TypeOK
<1> DEFINE r == [rrec[c] EXCEPT !.status = "interrupted"]
<1>1. /\ run[c] = "interrupt" /\ run' = [run EXCEPT ![c] = "done"] /\ rrec' = [rrec EXCEPT ![c] = None]
      /\ SaveRec(c, r) /\ UNCHANGED <<up, live, out, asked, shellVars, queue, persVars, stopVars, orphaned>>
  BY DEF RollbackSave, RunAt
<1>2. r \in Record /\ r.status = "interrupted"
  BY <1>1, Stamped DEF Frames, Statuses
<1> HIDE DEF r
<1>3. TypeRecords'
  BY <1>1, <1>2, Saving DEF TypeRecords
<1>4. Frames'
  BY <1>1, <1>2, Saving DEF TypeRecords, Frames
<1>5. CompletedHasResult' /\ Settled /\ Ending' /\ Stopping' /\ TypeHistory'
  BY <1>1, <1>2, Saving
<1>6. TypeShell' /\ TypePersister' /\ TypeStop'
  BY <1>1, Same
<1> QED BY <1>3, <1>4, <1>5, <1>6

-----------------------------------------------------------------------------
(* bash, the read loop and the persister *)

LEMMA BashStartsInv ==
  ASSUME Inv, BashStarts PROVE Inv' /\ Settled
<1> USE DEF Inv, TypeOK, BashStarts
<1>1. TypeShell'
  BY DEF TypeShell, faultVars
<1>2. TypeRecords' /\ Frames' /\ CompletedHasResult' /\ Settled /\ TypeHistory' /\ TypePersister' /\ Ending' /\ TypeStop' /\ Stopping'
  BY Same DEF diskVars, faultVars, histVars
<1> QED BY <1>1, <1>2

LEMMA BashEndsInv ==
  ASSUME Inv, BashEnds PROVE Inv' /\ Settled
<1> USE DEF Inv, TypeOK, BashEnds
<1>1. TypeShell'
  BY DEF TypeShell, faultVars
<1>2. TypeRecords' /\ Frames' /\ CompletedHasResult' /\ Settled /\ TypeHistory' /\ TypePersister' /\ Ending' /\ TypeStop' /\ Stopping'
  BY Same DEF diskVars, faultVars, histVars
<1> QED BY <1>1, <1>2

LEMMA ReadSentinelInv ==
  ASSUME Inv, ReadSentinel PROVE Inv' /\ Settled
<1> USE DEF Inv, TypeOK
<1> DEFINE c == Head(tail)[2]
<1>1. c \in Cmds /\ tail' \in Seq({"start", "end"} \X Cmds)
  BY DEF ReadSentinel, TypeShell
<1>2. \/ cur' = c /\ Publish(Started) /\ Orphans({cur} \ {c})
      \/ UNCHANGED <<cur, queue, orphaned>>
      \/ cur' = None /\ Publish(Ended(c, "code")) /\ Orphans(({cur} \ {c}) \cup Missed(c))
  BY DEF ReadSentinel
<1>3. UNCHANGED <<faultVars, diskVars, runVars, typed, bash, dead, persVars, stopVars, failed>>
  BY DEF ReadSentinel
<1> HIDE DEF c
<1>4. TypePersister' /\ Ending'
  <2>1. CASE UNCHANGED <<cur, queue, orphaned>>
    BY <1>3, <2>1, Same
  <2>2. CASE Publish(Started)
    BY <1>3, <2>2, Publishing, Published
  <2>3. CASE Publish(Ended(c, "code"))
    BY <1>1, <1>3, <2>3, Publishing, Published
  <2> QED BY <1>2, <2>1, <2>2, <2>3
<1>5. TypeShell'
  BY <1>1, <1>2, <1>3 DEF TypeShell, faultVars
<1>6. TypeHistory'
  BY <1>1, <1>2, <1>3 DEF TypeShell, TypeHistory, Orphans, Missed, faultVars
<1>7. TypeRecords' /\ Frames' /\ CompletedHasResult' /\ Settled /\ TypeStop' /\ Stopping'
  BY <1>3, Same DEF diskVars
<1> QED BY <1>4, <1>5, <1>6, <1>7

LEMMA PersistTakeInv ==
  ASSUME Inv, PersistTake PROVE Inv' /\ Settled
<1> USE DEF Inv, TypeOK
<1> DEFINE e == Head(queue)
<1>1. e \in Event /\ (e.cmd # "started" => e.cmd \in Cmds /\ e.exit # None)
  BY Published DEF PersistTake, TypePersister, Ending
<1>2. /\ queue' \in Seq(Event) /\ Len(queue') <= QueueCap
      /\ \A i \in DOMAIN queue' : queue'[i] = queue[i + 1] /\ i + 1 \in DOMAIN queue
  BY RecordsAssumption DEF PersistTake, TypePersister
<1>3. /\ ppc = "idle" /\ UNCHANGED <<rec, prec>>
      /\ \/ UNCHANGED <<ppc, pcmd, out, faults, failed>>
         \/ e.cmd # "started" /\ ppc' = "get" /\ pcmd' = e /\ WriteOutput(e.cmd)
  BY DEF PersistTake
<1>4. UNCHANGED <<up, live, runVars, shellVars, stopVars, orphaned>>
  BY DEF PersistTake
<1> HIDE DEF e
<1>5. /\ out \subseteq out' /\ failed \subseteq failed' /\ out' \subseteq Cmds /\ failed' \subseteq Cmds
      /\ UNCHANGED <<ppc, pcmd>> \/ (ppc' = "get" /\ pcmd' = e /\ e.cmd \in out' \cup failed' /\ e.exit # None)
  BY <1>1, <1>3 DEF WriteOutput, DiskFails, TypeRecords, TypeHistory
<1>6. TypeRecords' /\ Frames' /\ CompletedHasResult' /\ Settled
  BY <1>3, <1>4, <1>5 DEF TypeRecords, Frames, CompletedHasResult, Settled, Is, runVars
<1>7. TypePersister'
  BY <1>1, <1>2, <1>3 DEF TypePersister
<1>8. Ending'
  <2>1. \A i \in DOMAIN queue' : queue'[i].cmd # "started" => queue'[i].exit # None
    BY <1>2 DEF Ending
  <2> QED BY <1>1, <1>3, <1>5, <2>1 DEF Ending
<1>9. TypeHistory'
  <2>1. UNCHANGED faults \/ Fault("disk")
    BY <1>3 DEF WriteOutput, DiskFails
  <2> QED BY <1>4, <1>5, <2>1, Counting DEF TypeHistory
<1>10. TypeShell' /\ TypeStop' /\ Stopping'
  BY <1>3, <1>4, Same
<1> QED BY <1>6, <1>7, <1>8, <1>9, <1>10

LEMMA PersistGetInv ==
  ASSUME Inv, PersistGet PROVE Inv' /\ Settled
<1> USE DEF Inv, TypeOK, PersistGet
<1>1. pcmd \in Event /\ pcmd.cmd \in Cmds
  BY DEF Ending, TypeRecords, TypeHistory
<1>2. TypePersister'
  BY <1>1 DEF TypePersister, TypeRecords
<1>3. Ending'
  BY <1>1 DEF Ending, TypeRecords, diskVars, histVars
<1>4. TypeRecords' /\ Frames' /\ CompletedHasResult' /\ Settled /\ TypeShell' /\ TypeHistory' /\ TypeStop' /\ Stopping'
  BY Same DEF diskVars, faultVars, histVars
<1> QED BY <1>1, <1>2, <1>3, <1>4

LEMMA PersistSaveInv ==
  ASSUME Inv, PersistSave PROVE Inv' /\ Settled
<1> USE DEF Inv, TypeOK
<1> DEFINE r == [status |-> IF prec.status = "running" THEN "completed" ELSE prec.status,
                 exit |-> pcmd.exit]
<1>1. pcmd \in Event /\ pcmd.cmd \in Cmds /\ pcmd.cmd \in out \cup failed /\ pcmd.exit # None /\ prec \in Record
      /\ rec[pcmd.cmd] # None
  BY DEF PersistSave, Ending, TypeRecords, TypeHistory
<1>2. r \in Record /\ r.status # "running" /\ r.exit = pcmd.exit
  BY <1>1, Published DEF Record, Statuses
<1>3. SaveRec(pcmd.cmd, r)
  BY DEF PersistSave
<1> HIDE DEF r
<1>4. /\ ppc' = "idle" /\ pcmd' = None /\ prec' = None
      /\ UNCHANGED <<up, live, out, runVars, shellVars, queue, stopVars, orphaned>>
  BY DEF PersistSave
<1>5. TypeRecords'
  BY <1>1, <1>2, <1>3, <1>4, Saving DEF TypeRecords, runVars
<1>6. Frames'
  BY <1>1, <1>2, <1>3, <1>4, Saving DEF TypeRecords, Frames, runVars
<1>7. CompletedHasResult' /\ Settled /\ Stopping' /\ TypeHistory'
  BY <1>1, <1>2, <1>3, <1>4, Saving
<1>8. TypePersister' /\ Ending'
  BY <1>4 DEF TypePersister, Ending
<1>9. TypeShell' /\ TypeStop'
  BY <1>4, Same
<1> QED BY <1>5, <1>6, <1>7, <1>8, <1>9

-----------------------------------------------------------------------------
(* The stop handlers *)

LEMMA StopCheckInv ==
  ASSUME Inv, NEW h \in Handlers, StopCheck(h) PROVE Inv' /\ Settled
<1> USE DEF Inv, TypeOK, StopCheck, StopAt
<1>1. TypeStop'
  BY RecordsAssumption DEF TypeStop, TypeShell
<1>2. Stopping'
  BY DEF TypeStop, TypeShell, Stopping, diskVars
<1>3. TypeRecords' /\ Frames' /\ CompletedHasResult' /\ Settled /\ TypeShell' /\ TypeHistory' /\ TypePersister' /\ Ending'
  BY Same DEF diskVars, faultVars, histVars
<1> QED BY <1>1, <1>2, <1>3

LEMMA StopGetInv ==
  ASSUME Inv, NEW h \in Handlers, StopGet(h) PROVE Inv' /\ Settled
<1> USE DEF Inv, TypeOK, StopGet, StopAt
<1>1. hcmd[h] \in Cmds
  BY DEF Stopping
<1>2. TypeStop'
  BY <1>1 DEF TypeStop, TypeRecords
<1>3. Stopping'
  BY <1>1 DEF TypeStop, Stopping, diskVars
<1>4. TypeRecords' /\ Frames' /\ CompletedHasResult' /\ Settled /\ TypeShell' /\ TypeHistory' /\ TypePersister' /\ Ending'
  BY Same DEF diskVars, faultVars, histVars
<1> QED BY <1>1, <1>2, <1>3, <1>4

LEMMA StopSaveInv ==
  ASSUME Inv, NEW h \in Handlers, StopSave(h) PROVE Inv' /\ Settled
<1> USE DEF Inv, TypeOK
<1> DEFINE r == [hrec[h] EXCEPT !.status = "stopped"]
<1>1. /\ hpc[h] = "save" /\ hpc' = [hpc EXCEPT ![h] = "kill"]
      /\ hcmd' = [hcmd EXCEPT ![h] = None] /\ hrec' = [hrec EXCEPT ![h] = None]
      /\ UNCHANGED <<up, live, out, runVars, shellVars, queue, persVars, stops, orphaned>>
  BY DEF StopSave, StopAt
<1>2. hcmd[h] \in Cmds
  BY <1>1 DEF Stopping
<1>3. TypeStop'
  BY <1>1 DEF TypeStop
<1>4. TypeShell' /\ TypePersister'
  BY <1>1, Same
<1>5. CASE hrec[h] = None
  <2>1. UNCHANGED <<rec, faults, failed>>
    BY <1>5 DEF StopSave
  <2>2. Stopping'
    BY <1>1, <2>1 DEF TypeStop, Stopping
  <2> QED BY <1>1, <1>3, <1>4, <2>1, <2>2, Same DEF diskVars, histVars
<1>6. CASE hrec[h] # None
  <2>1. r \in Record /\ r.status = "stopped"
    BY <1>6, Stamped DEF TypeStop, Statuses
  <2>2. SaveRec(hcmd[h], r) /\ rec[hcmd[h]] # None
    BY <1>1, <1>6 DEF StopSave, Stopping
  <2> HIDE DEF r
  <2>3. TypeRecords'
    BY <1>1, <1>2, <2>1, <2>2, Saving DEF TypeRecords, runVars
  <2>4. Frames'
    BY <1>1, <1>2, <2>1, <2>2, Saving DEF TypeRecords, Frames, runVars
  <2>5. CompletedHasResult' /\ Settled /\ Ending' /\ TypeHistory'
    BY <1>1, <1>2, <2>1, <2>2, Saving
  <2>6. Stopping'
    <3>1. \A d \in Cmds : rec[d] # None => rec'[d] # None
      BY <1>2, <2>1, <2>2, Saving
    <3> QED BY <1>1, <3>1 DEF TypeStop, Stopping
  <2> QED BY <1>3, <1>4, <2>3, <2>4, <2>5, <2>6
<1> QED BY <1>5, <1>6

LEMMA StopKillInv ==
  ASSUME Inv, NEW h \in Handlers, StopKill(h) PROVE Inv' /\ Settled
<1> USE DEF Inv, TypeOK
<1>1. \E p \in {"idle", "publish"} : hpc' = [hpc EXCEPT ![h] = p]
  BY DEF StopKill, StopAt
<1>2. UNCHANGED <<up, live, diskVars, runVars, cur, tail, queue, persVars, hcmd, hrec, stops, failed>>
  BY DEF StopKill
<1>3. TypeStop'
  BY <1>1, <1>2 DEF TypeStop
<1>4. Stopping'
  BY <1>1, <1>2 DEF TypeStop, Stopping, diskVars
<1>5. TypeShell'
  <2>1. bash' \in Cmds \cup {None}
    BY DEF StopKill, KillsBash, TypeShell
  <2>2. typed' \in Seq(Cmds)
    <3>1. typed' = <<>> \/ typed' = typed
      BY DEF StopKill, KillsBash
    <3>2. typed \in Seq(Cmds)
      BY DEF TypeShell
    <3>3. <<>> \in Seq(Cmds)
      OBVIOUS
    <3> QED BY ONLY <3>1, <3>2, <3>3, Zenon
  <2>3. dead' \in BOOLEAN
    BY DEF StopKill, TypeShell
  <2> QED BY ONLY Inv, <1>2, <2>1, <2>2, <2>3 DEF Inv, TypeOK, TypeShell
<1>6. TypeHistory'
  <2>1. Killed \ {None} \subseteq Cmds
    BY DEF Killed, Range, TypeShell
  <2>2. orphaned' \subseteq orphaned \cup (Killed \ {None})
    BY DEF StopKill, Orphans
  <2>3. UNCHANGED faults \/ Fault("stop")
    BY DEF StopKill
  <2> QED BY <1>2, <2>1, <2>2, <2>3, Counting DEF TypeHistory
<1>7. TypeRecords' /\ Frames' /\ CompletedHasResult' /\ Settled /\ TypePersister' /\ Ending'
  BY <1>2, Same DEF diskVars
<1> QED BY <1>3, <1>4, <1>5, <1>6, <1>7

LEMMA StopPublishInv ==
  ASSUME Inv, NEW h \in Handlers, StopPublish(h) PROVE Inv' /\ Settled
<1> USE DEF Inv, TypeOK
<1>1. /\ hpc' = [hpc EXCEPT ![h] = "idle"] /\ cur' = None
      /\ UNCHANGED <<failed, faultVars, diskVars, runVars, typed, bash, dead, tail, persVars, hcmd, hrec, stops>>
  BY DEF StopPublish, StopAt
<1>2. \/ UNCHANGED <<queue, orphaned>>
      \/ cur \in Cmds /\ Publish(Ended(cur, "killed")) /\ Orphans(Missed(cur))
  BY DEF StopPublish, TypeShell
<1>3. TypePersister' /\ Ending'
  <2>1. CASE UNCHANGED <<queue, orphaned>>
    BY <1>1, <2>1, Same
  <2>2. CASE cur \in Cmds /\ Publish(Ended(cur, "killed"))
    BY <1>1, <2>2, Publishing, Published
  <2> QED BY <1>2, <2>1, <2>2
<1>4. TypeShell'
  BY <1>1 DEF TypeShell, faultVars
<1>5. TypeHistory'
  BY <1>1, <1>2 DEF TypeHistory, Orphans, Missed, faultVars
<1>6. TypeStop' /\ Stopping'
  BY <1>1 DEF TypeStop, Stopping, diskVars
<1>7. TypeRecords' /\ Frames' /\ CompletedHasResult' /\ Settled
  BY <1>1, Same
<1> QED BY <1>3, <1>4, <1>5, <1>6, <1>7

-----------------------------------------------------------------------------
(* Crashes and restarts *)

LEMMA GoneInv ==
  ASSUME Inv, NEW kind, Fault(kind), Gone, live' \in BOOLEAN, dead' \in BOOLEAN,
         bash' \in Cmds \cup {None}, typed' \in Seq(Cmds), orphaned' \subseteq Cmds
  PROVE  Inv' /\ Settled
<1> USE DEF Inv, TypeOK, Gone
<1>1. TypeRecords'
  BY DEF TypeRecords, diskVars
<1>2. Frames'
  BY DEF TypeRecords, Frames, diskVars
<1>3. TypeShell'
  BY DEF TypeShell
<1>4. TypeHistory'
  BY Counting DEF TypeHistory
<1>5. TypePersister'
  BY RecordsAssumption DEF TypePersister
<1>6. Ending'
  BY DEF Ending
<1>7. TypeStop' /\ Stopping'
  BY DEF TypeStop, Stopping
<1>8. CompletedHasResult' /\ Settled
  BY Same
<1> QED BY <1>1, <1>2, <1>3, <1>4, <1>5, <1>6, <1>7, <1>8

LEMMA ProcessGoneInv ==
  ASSUME Inv, ProcessGone PROVE Inv' /\ Settled
<1>1. Fault("process") /\ Gone /\ live' \in BOOLEAN /\ dead' \in BOOLEAN
      /\ bash' \in Cmds \cup {None} /\ typed' \in Seq(Cmds) /\ orphaned' \subseteq Cmds
  BY DEF ProcessGone, Orphans, Inv, TypeOK, TypeShell, TypeHistory
<1> QED BY <1>1, GoneInv

LEMMA PodGoneInv ==
  ASSUME Inv, PodGone PROVE Inv' /\ Settled
<1>1. Fault("pod") /\ Gone /\ live' = FALSE /\ bash' = None /\ typed' = <<>> /\ dead' = FALSE
      /\ UNCHANGED orphaned
  BY DEF PodGone
<1>2. live' \in BOOLEAN /\ dead' \in BOOLEAN /\ orphaned' \subseteq Cmds
  BY <1>1 DEF Inv, TypeOK, TypeHistory
<1>3. bash' \in Cmds \cup {None} /\ typed' \in Seq(Cmds)
  BY <1>1
<1> QED BY <1>1, <1>2, <1>3, GoneInv

\* resumeShell finds one of the commands, or none.
LEMMA SeedIsIn ==
  ASSUME asked \in Seq(Cmds) PROVE Seed \in Cmds \cup {None}
<1> DEFINE rs == {i \in DOMAIN asked : Is(asked[i], "running")}
           gaps == {Len(asked) - i : i \in rs}
<1>1. Seed = IF rs = {} THEN None ELSE asked[CHOOSE i \in rs : \A j \in rs : j <= i]
  BY DEF Seed
<1> SUFFICES ASSUME rs # {} PROVE asked[CHOOSE i \in rs : \A j \in rs : j <= i] \in Cmds
  BY <1>1
<1>2. rs \subseteq 1..Len(asked) /\ gaps \subseteq Nat /\ gaps # {}
  OBVIOUS
<1>3. PICK x \in gaps : \A y \in gaps : <<y, x>> \notin OpToRel(<, Nat)
  BY <1>2, WFMin, NatLessThanWellFounded, Zenon
<1>4. \A y \in gaps : ~(y < x)
  BY <1>2, <1>3, Zenon DEF OpToRel
<1>5. \A y \in gaps : x <= y
  <2> HIDE DEF gaps
  <2> QED BY <1>2, <1>4, SMT
<1>6. PICK k \in rs : x = Len(asked) - k
  OBVIOUS
<1>7. \A j \in rs : j <= k
  <2> SUFFICES ASSUME NEW j \in rs PROVE j <= k
    OBVIOUS
  <2>1. Len(asked) - j \in gaps
    OBVIOUS
  <2>2. x <= Len(asked) - j
    BY <1>5, <2>1
  <2>3. j \in Nat /\ k \in Nat /\ Len(asked) \in Nat
    BY <1>2
  <2> HIDE DEF rs, gaps
  <2> QED BY <1>6, <2>2, <2>3
<1> HIDE DEF rs
<1>8. (CHOOSE i \in rs : \A j \in rs : j <= i) \in rs
  BY <1>7
<1> QED BY <1>2, <1>8 DEF rs

LEMMA ResumeInv ==
  ASSUME Inv, Resume PROVE Inv' /\ Settled
<1> USE DEF Inv, TypeOK, Resume
<1>1. TypeShell'
  BY SeedIsIn DEF TypeShell, TypeRecords
<1>2. TypeHistory'
  BY DEF TypeHistory, Orphans
<1>3. TypeRecords' /\ Frames' /\ CompletedHasResult' /\ Settled /\ TypePersister' /\ Ending' /\ TypeStop' /\ Stopping'
  BY Same DEF diskVars
<1> QED BY <1>1, <1>2, <1>3

LEMMA RecreateInv ==
  ASSUME Inv, Recreate PROVE Inv' /\ Settled
<1> USE DEF Inv, TypeOK
<1>1. /\ up' = TRUE /\ live' = TRUE /\ rec' = Sweep
      /\ UNCHANGED <<faults, out, runVars, shellVars, queue, persVars, stopVars, histVars>>
  BY DEF Recreate
<1>2. ASSUME NEW c \in Cmds
      PROVE  \/ rec'[c] = rec[c] /\ ~Is(c, "running")
             \/ /\ rec[c] # None /\ rec'[c] \in Record /\ rec'[c].status = "interrupted"
  <2>1. CASE Is(c, "running")
    <3>1. rec'[c] = [rec[c] EXCEPT !.status = "interrupted"] /\ rec[c] \in Record /\ rec[c] # None
      BY <1>1, <2>1 DEF Sweep, Is, TypeRecords
    <3> QED BY <3>1, Stamped DEF Statuses
  <2>2. CASE ~Is(c, "running")
    BY <1>1, <2>2 DEF Sweep, Is
  <2> QED BY <2>1, <2>2
<1>3. \A c \in Cmds : rec'[c] = None <=> rec[c] = None
  BY <1>2, NoneAssumption
<1>4. TypeRecords'
  <2>1. rec' \in [Cmds -> Record \cup {None}]
    BY <1>1, <1>2 DEF Sweep, TypeRecords
  <2> QED BY <1>1, <2>1 DEF TypeRecords, runVars
<1>5. Frames'
  BY <1>1, <1>3 DEF Frames, runVars
<1>6. Ending'
  <2>1. ppc = "save" => pcmd.cmd \in Cmds
    BY DEF Ending, TypeRecords, TypeHistory
  <2> QED BY <1>1, <1>3, <2>1 DEF Ending, persVars, histVars
<1>7. Stopping'
  BY <1>1, <1>3 DEF Stopping, stopVars
<1>8. CompletedHasResult' /\ Settled
  BY <1>1, <1>2, <1>3 DEF CompletedHasResult, Settled, Is, histVars
<1>9. TypeShell'
  BY <1>1 DEF TypeShell, shellVars
<1>10. TypeHistory' /\ TypePersister' /\ TypeStop'
  BY <1>1, Same
<1> QED BY <1>4, <1>5, <1>6, <1>7, <1>8, <1>9, <1>10

-----------------------------------------------------------------------------
(* The theorems *)

LEMMA Stutter ==
  ASSUME Inv, UNCHANGED vars PROVE Inv' /\ Settled
BY Same DEF vars, diskVars, faultVars, histVars, Inv, TypeOK

LEMMA InvStep == Inv /\ [Next]_vars => Inv' /\ Settled
<1> SUFFICES ASSUME Inv, [Next]_vars PROVE Inv' /\ Settled
  OBVIOUS
<1>1. ASSUME NEW c \in Cmds, RunSave(c) \/ HandleRun(c) PROVE Inv' /\ Settled
  BY <1>1, RunSaveInv, RunShellInv, RollbackGetInv, RollbackSaveInv DEF HandleRun
<1>2. ASSUME NEW h \in Handlers, StopCheck(h) \/ StopCommand(h) PROVE Inv' /\ Settled
  BY <1>2, StopCheckInv, StopGetInv, StopSaveInv, StopKillInv, StopPublishInv DEF StopCommand
<1>3. CASE Shell
  BY <1>3, BashStartsInv, BashEndsInv, ReadSentinelInv DEF Shell
<1>4. CASE Persister
  BY <1>4, PersistTakeInv, PersistGetInv, PersistSaveInv DEF Persister
<1>5. CASE ProcessGone \/ PodGone \/ Restart
  BY <1>5, ProcessGoneInv, PodGoneInv, ResumeInv, RecreateInv DEF Restart
<1> QED BY <1>1, <1>2, <1>3, <1>4, <1>5, Stutter DEF Next

LEMMA InvHolds == Spec => []Inv
<1>1. Inv /\ [Next]_vars => Inv'
  BY InvStep
<1> QED BY InvInit, <1>1, PTL DEF Spec

\* A record that says completed has the exit code, and its output was written before
\* it unless the disk refused a write for that command, always.
THEOREM ResultCorrect == Spec => []CompletedHasResult
<1>1. Inv => CompletedHasResult
  BY DEF Inv
<1> QED BY <1>1, InvHolds, PTL

\* No step of anybody takes a record back to running.
THEOREM SettledCorrect == Spec => NeverRunningAgain
<1>1. Inv /\ [Next]_vars => [Settled]_vars
  BY InvStep
<1>2. Spec => [][Settled]_vars
  BY <1>1, InvHolds, PTL DEF Spec
<1> QED BY <1>2 DEF NeverRunningAgain, Settled

=============================================================================
