------------------------- MODULE SessionsFileProofs -------------------------
(* With a single writer, Save is atomic, whatever fails and whenever the    *)
(* process is killed.                                                       *)
EXTENDS SessionsFile, TLAPS

IInv == FileTypeOK /\ SavingInv

LEMMA FileInit == Init => IInv
<1> SUFFICES ASSUME Init PROVE IInv
  OBVIOUS
<1>1. FileTypeOK
  BY DEF Init, FileTypeOK, Content
<1>2. SavingInv
  BY DEF Init, SavingInv, Stored, At
<1> QED BY <1>1, <1>2 DEF IInv

\* One lemma per step of Save.
LEMMA SaveInv ==
  ASSUME IInv, NEW w \in Writers, NEW l \in Lists, Save(w, l) PROVE IInv'
<1> USE DEF IInv, Save, At, GoTo, diskVars
<1>1. FileTypeOK'
  BY DEF FileTypeOK
<1>2. SavingInv'
  BY DEF FileTypeOK, SavingInv, Stored
<1> QED BY <1>1, <1>2

LEMMA OpenInv ==
  ASSUME IInv, \A v, w \in Writers : v = w, NEW w \in Writers, Open(w) PROVE IInv'
<1> USE DEF IInv, At, GoTo
<1>1. PICK i \in Inodes : /\ i # final /\ tmp' = i /\ fd' = [fd EXCEPT ![w] = i]
                          /\ content' = [content EXCEPT ![i] = Empty]
  <2>1. tmp # None => tmp # final /\ tmp \in Inodes
    BY DEF FileTypeOK, SavingInv
  <2> QED BY <2>1 DEF Open, Used
<1>2. FileTypeOK'
  BY <1>1 DEF Open, FileTypeOK, Content
<1>3. Stored' = Stored
  BY <1>1 DEF Open, Stored, FileTypeOK
<1>4. SavingInv'
  BY <1>1, <1>3, FileAssumption DEF Open, FileTypeOK, SavingInv
<1> QED BY <1>2, <1>4

LEMMA WriteInv ==
  ASSUME IInv, \A v, w \in Writers : v = w, NEW w \in Writers, Write(w) PROVE IInv'
<1> USE DEF IInv, At, GoTo
<1>1. /\ tmp # None /\ tmp # final /\ fd[w] = tmp /\ content[tmp] = Empty
      /\ want[w] \in Lists /\ tmp \in Inodes
  BY DEF Write, FileTypeOK, SavingInv
<1>2. Written(w) = {want[w]}
  BY <1>1 DEF Written
<1>3. \/ content' = [content EXCEPT ![tmp] = want[w]] /\ spc' = [spc EXCEPT ![w] = "rename"]
                    /\ saved' = saved
      \/ content' = content /\ spc' = [spc EXCEPT ![w] = "idle"]
                    /\ saved' = [saved EXCEPT ![w] = FALSE]
  BY <1>1, <1>2 DEF Write
<1>4. FileTypeOK'
  BY <1>1, <1>3 DEF Write, FileTypeOK, Content
<1>5. Stored' = Stored
  BY <1>1, <1>3 DEF Write, Stored, FileTypeOK
<1>6. SavingInv'
  BY <1>1, <1>3, <1>5 DEF Write, FileTypeOK, SavingInv
<1> QED BY <1>4, <1>6

LEMMA RenameInv ==
  ASSUME IInv, \A v, w \in Writers : v = w, NEW w \in Writers, Rename(w) PROVE IInv'
<1> USE DEF IInv, Rename, At, GoTo
<1>1. /\ tmp \in Inodes /\ tmp # final /\ final' = tmp /\ tmp' = None
      /\ content[tmp] = want[w] /\ want[w] \in Lists
  BY DEF FileTypeOK, SavingInv
<1>2. content' \in [Inodes -> Content] /\ content'[tmp] = want[w]
  BY <1>1 DEF Free, FileTypeOK, Content
<1>3. FileTypeOK'
  BY <1>1, <1>2 DEF FileTypeOK
<1>4. Stored' = want[w]
  BY <1>1, <1>2, FileAssumption DEF Stored
<1>5. SavingInv'
  BY <1>1, <1>4 DEF FileTypeOK, SavingInv
<1> QED BY <1>3, <1>5

LEMMA CleanInv ==
  ASSUME IInv, \A v, w \in Writers : v = w, NEW w \in Writers, Clean(w) PROVE IInv'
<1> USE DEF IInv, Clean, At, GoTo
<1>1. content' \in [Inodes -> Content] /\ (final # None => content'[final] = content[final])
  BY FileAssumption DEF Free, FileTypeOK, SavingInv, Content
<1>2. FileTypeOK'
  BY <1>1 DEF FileTypeOK
<1>3. Stored' = Stored
  BY <1>1 DEF Stored
<1>4. SavingInv'
  BY <1>3 DEF FileTypeOK, SavingInv
<1> QED BY <1>2, <1>4

LEMMA CrashInv == ASSUME IInv, Crash \/ UNCHANGED saveVars PROVE IInv'
<1> USE DEF IInv, Crash, saveVars, diskVars
<1>1. FileTypeOK'
  BY DEF FileTypeOK
<1>2. SavingInv'
  BY DEF FileTypeOK, SavingInv, Stored, At
<1> QED BY <1>1, <1>2

LEMMA FileInductive ==
  ASSUME \A v, w \in Writers : v = w
  PROVE  IInv /\ [Next]_saveVars => IInv'
BY SaveInv, OpenInv, WriteInv, RenameInv, CleanInv, CrashInv DEF Next, Steps

\* Whenever the process is killed, sessions.json holds a list that was saved.
THEOREM NeverTornCorrect ==
  ASSUME \A v, w \in Writers : v = w
  PROVE  Spec => []NeverTorn
<1>1. IInv => NeverTorn
  BY DEF IInv, SavingInv, NeverTorn
<1> QED BY <1>1, FileInit, FileInductive, PTL DEF Spec

\* Every step of a single writer's Save is a step of an atomic write.
THEOREM AtomicCorrect ==
  ASSUME \A v, w \in Writers : v = w
  PROVE  Spec => RefinesAtomicFile
<1>1. Init => Atomic!Init
  BY DEF Init, Stored, Atomic!Init
<1>2. IInv /\ [Next]_saveVars => [Atomic!Next]_Atomic!vars
  <2> SUFFICES ASSUME IInv, [Next]_saveVars PROVE [Atomic!Next]_Atomic!vars
    OBVIOUS
  <2> USE DEF IInv, At, GoTo
  <2>1. ASSUME NEW w \in Writers, NEW l \in Lists, Save(w, l) PROVE Atomic!Next
    <3>1. Atomic!Ask(w, l)
      BY <2>1 DEF Save, Atomic!Ask, Stored, diskVars, FileTypeOK
    <3> QED BY <3>1 DEF Atomic!Next
  <2>2. ASSUME NEW w \in Writers, Open(w) PROVE UNCHANGED Atomic!vars
    <3>1. PICK i \in Inodes : /\ i # final /\ content' = [content EXCEPT ![i] = Empty]
      <4>1. tmp # None => tmp # final /\ tmp \in Inodes
        BY DEF FileTypeOK, SavingInv
      <4> QED BY <2>2, <4>1 DEF Open, Used
    <3>2. Stored' = Stored
      BY <2>2, <3>1 DEF Open, Stored, FileTypeOK
    <3> QED BY <2>2, <3>2 DEF Open, Atomic!vars, FileTypeOK
  <2>3. ASSUME NEW w \in Writers, Write(w) PROVE [Atomic!Next]_Atomic!vars
    <3>1. tmp # None /\ tmp # final /\ fd[w] = tmp /\ want[w] \in Lists /\ content[tmp] = Empty
      BY <2>3 DEF Write, FileTypeOK, SavingInv
    <3>2. Stored' = Stored
      BY <2>3, <3>1 DEF Write, Stored, FileTypeOK
    <3>3. CASE spc' = [spc EXCEPT ![w] = "rename"]
      BY <2>3, <3>2, <3>3 DEF Write, Atomic!vars, FileTypeOK
    <3>4. CASE spc' = [spc EXCEPT ![w] = "idle"]
      <4>1. Atomic!Fail(w)
        BY <2>3, <3>1, <3>2, <3>4, FileAssumption DEF Write, Atomic!Fail, FileTypeOK
      <4> QED BY <4>1 DEF Atomic!Next
    <3> QED BY <2>3, <3>3, <3>4 DEF Write
  <2>4. ASSUME NEW w \in Writers, Rename(w) PROVE Atomic!Next
    <3>1. Stored' = want[w] /\ want[w] \in Lists
      <4>1. /\ tmp \in Inodes /\ tmp # final /\ final' = tmp
            /\ content[tmp] = want[w] /\ want[w] \in Lists
        BY <2>4 DEF Rename, FileTypeOK, SavingInv
      <4>2. content'[tmp] = want[w]
        BY <2>4, <4>1 DEF Rename, Free
      <4> QED BY <4>1, <4>2, FileAssumption DEF Stored
    <3>2. Atomic!Commit(w)
      BY <2>4, <3>1, FileAssumption DEF Rename, Atomic!Commit, FileTypeOK
    <3> QED BY <3>2 DEF Atomic!Next
  <2>5. ASSUME NEW w \in Writers, Clean(w) PROVE UNCHANGED Atomic!vars
    <3>1. final # None => content'[final] = content[final]
      BY <2>5, FileAssumption DEF Clean, Free, FileTypeOK, SavingInv
    <3>2. Stored' = Stored
      BY <2>5, <3>1 DEF Clean, Stored
    <3> QED BY <2>5, <3>2 DEF Clean, Atomic!vars, FileTypeOK
  <2>6. CASE Crash
    BY <2>6 DEF Crash, diskVars, Stored, Atomic!Crash, Atomic!Next
  <2>7. CASE UNCHANGED saveVars
    BY <2>7 DEF saveVars, diskVars, Stored, Atomic!vars
  <2> QED BY <2>1, <2>2, <2>3, <2>4, <2>5, <2>6, <2>7 DEF Next, Steps
<1> QED BY <1>1, <1>2, FileInit, FileInductive, PTL DEF Spec, RefinesAtomicFile, Atomic!Spec

=============================================================================
