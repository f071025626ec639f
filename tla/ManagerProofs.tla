--------------------------- MODULE ManagerProofs ---------------------------
(* However creations, failures, closings, crashes and boots interleave, the    *)
(* server never knows, nor has stored, more sessions than its limit.  Until    *)
(* the process first goes away every session that is known is backed, and has  *)
(* one conversation.  And when requests come one at a time, what a client was  *)
(* told holds across crashes, and memory, tmux and the files agree.            *)
EXTENDS Manager, FiniteSetTheorems, SequenceTheorems, TLAPS

USE ManagerAssumption

-----------------------------------------------------------------------------
(* The lists of sessions *)

LEMMA WithFacts ==
  ASSUME metas \in MetaLists, NEW s \in Sessions, NEW m \in Meta
  PROVE  With(s, m) \in MetaLists /\ DOMAIN With(s, m) = Known \cup {s}
<1>1. PICK S \in SUBSET Sessions : metas \in [S -> Meta]
  BY DEF MetaLists
<1>2. With(s, m) \in [S \cup {s} -> Meta]
  BY <1>1 DEF With, Known
<1>3. S \cup {s} \in SUBSET Sessions
  BY <1>1
<1> QED BY <1>1, <1>2, <1>3 DEF MetaLists, Known

LEMMA WithoutFacts ==
  ASSUME metas \in MetaLists, NEW s
  PROVE  Without(s) \in MetaLists /\ DOMAIN Without(s) = Known \ {s}
<1>1. PICK S \in SUBSET Sessions : metas \in [S -> Meta]
  BY DEF MetaLists
<1>2. Without(s) \in [S \ {s} -> Meta]
  BY <1>1 DEF Without, Known
<1>3. S \ {s} \in SUBSET Sessions
  BY <1>1
<1> QED BY <1>1, <1>2, <1>3 DEF MetaLists, Known

LEMMA MetaFacts ==
  ASSUME metas \in MetaLists
  PROVE  Known \subseteq Sessions /\ \A s \in Known : metas[s] \in Meta
BY DEF MetaLists, Known

LEMMA ListFacts ==
  ASSUME NEW l \in MetaLists
  PROVE  DOMAIN l \subseteq Sessions /\ \A s \in DOMAIN l : l[s] \in Meta
BY DEF MetaLists

LEMMA EmptyFacts == <<>> \in MetaLists /\ Fits(<<>>)
<1>1. <<>> \in [{} -> Meta] /\ DOMAIN <<>> = {}
  OBVIOUS
<1> QED BY <1>1, FS_EmptySet DEF MetaLists, Fits

LEMMA FitsSmaller ==
  ASSUME NEW l, NEW k, Fits(l), DOMAIN k \subseteq DOMAIN l PROVE Fits(k)
<1>1. IsFiniteSet(DOMAIN k) /\ Cardinality(DOMAIN k) <= Cardinality(DOMAIN l)
      /\ Cardinality(DOMAIN k) \in Nat /\ Cardinality(DOMAIN l) \in Nat
  BY FS_Subset, FS_CardinalityType DEF Fits
<1> QED BY <1>1 DEF Fits

LEMMA FitsOneMore ==
  ASSUME NEW l, NEW k, NEW s, Fits(l), Cardinality(DOMAIN l) < MaxSessions,
         DOMAIN k = DOMAIN l \cup {s}
  PROVE  Fits(k)
<1>1. IsFiniteSet(DOMAIN k) /\ Cardinality(DOMAIN l) \in Nat
      /\ Cardinality(DOMAIN k) \in {Cardinality(DOMAIN l), Cardinality(DOMAIN l) + 1}
  BY FS_AddElement, FS_CardinalityType DEF Fits
<1> QED BY <1>1 DEF Fits

-----------------------------------------------------------------------------
(* Type correctness, an action at a time *)

LEMMA TypeInit == Init => TypeOK
<1> SUFFICES ASSUME Init PROVE TypeOK
  OBVIOUS
<1>1. <<>> \in MetaLists
  BY EmptyFacts
<1>2. TypeMemory /\ TypeWorld
  BY <1>1 DEF Init, TypeMemory, TypeWorld
<1>3. TypeBoot
  BY <1>1 DEF Init, TypeBoot
<1>5. TypeCalls
  BY DEF Init, TypeCalls, Places, OnSession
<1>6. TypeBounds /\ TypeHist
  BY DEF Init, TypeBounds, TypeHist
<1>4. File!FileTypeOK
  BY DEF Init, File!Init, File!FileTypeOK, File!Content
<1> QED BY <1>2, <1>3, <1>4, <1>5, <1>6 DEF TypeOK

LEMMA PersistType ==
  ASSUME TypeOK, NEW w \in Goroutines, NEW l \in MetaLists, Persist(w, l)
  PROVE  File!FileTypeOK'
BY DEF TypeOK, Persist, File!Save, File!At, File!GoTo, File!diskVars, File!FileTypeOK

LEMMA SavedType ==
  ASSUME TypeOK, UNCHANGED saveVars
  PROVE  File!FileTypeOK'
BY DEF TypeOK, saveVars, File!FileTypeOK

LEMMA SaveStepType ==
  ASSUME TypeOK, LimitInv, NEW w \in Goroutines, SaveStep(w) PROVE TypeOK'
<1> USE DEF File!FileTypeOK, File!Content, File!At, File!GoTo
<1>1. /\ TypeMemory' /\ TypeWorld' /\ TypeCalls' /\ TypeBoot' /\ TypeBounds'
  BY DEF SaveStep, TypeOK, TypeMemory, TypeWorld, TypeCalls, TypeBoot, TypeBounds,
         OnSession, memVars, worldVars, callVars, bootVars, boundVars
<1>0. TypeHist'
  <2>1. todo \subseteq Sessions
    BY DEF TypeOK, TypeBoot, MetaLists
  <2> QED BY <2>1 DEF SaveStep, TypeOK, TypeHist
<1>2. CASE File!Open(w)
  <2>1. PICK i \in Inodes : /\ tmp' = i /\ fd' = [fd EXCEPT ![w] = i]
                            /\ content' = [content EXCEPT ![i] = Empty]
    BY <1>2 DEF File!Open, TypeOK
  <2> QED BY <1>0, <1>1, <1>2, <2>1 DEF File!Open, TypeOK
<1>3. CASE File!Write(w)
  <2>1. want[w] \in MetaLists /\ File!Written(w) \subseteq {want[w], Torn}
    BY <1>3 DEF File!Written, File!Write, TypeOK, LimitInv
  <2> QED BY <1>0, <1>1, <1>3, <2>1 DEF File!Write, TypeOK
<1>4. CASE File!Rename(w)
  <2>1. content' \in [Inodes -> File!Content]
    BY <1>4 DEF File!Rename, File!Free, TypeOK
  <2> QED BY <1>0, <1>1, <1>4, <2>1 DEF File!Rename, TypeOK
<1>5. CASE File!Clean(w)
  <2>1. content' \in [Inodes -> File!Content]
    BY <1>5 DEF File!Clean, File!Free, TypeOK
  <2> QED BY <1>0, <1>1, <1>5, <2>1 DEF File!Clean, TypeOK
<1> QED BY <1>2, <1>3, <1>4, <1>5 DEF SaveStep, File!Steps

LEMMA WorkerType ==
  ASSUME TypeOK, NEW w \in Workers, Creating(w) \/ Changing(w) \/ Closing(w)
  PROVE  TypeOK'
<1>w. w \in Goroutines
  BY DEF Goroutines
<1>m. /\ Known \subseteq Sessions /\ \A s \in Known : metas[s] \in Meta
      /\ metas \in MetaLists
  BY MetaFacts DEF TypeOK, TypeMemory
<1>n. NewMeta \in Meta
  BY DEF NewMeta, Meta
<1>r. ASSUME NEW s \in Sessions, Reserve(w, s) PROVE metas' \in MetaLists
  BY <1>r, <1>m, <1>n, WithFacts DEF Reserve
<1>f. ASSUME NEW s \in Sessions, Forget(w, s) PROVE metas' \in MetaLists
  BY <1>f, <1>m, WithoutFacts DEF Forget
<1>t. TypeMemory /\ TypeWorld /\ TypeCalls /\ TypeBoot /\ TypeBounds /\ TypeHist
  BY DEF TypeOK
<1>o. ASSUME NEW s \in Known, NEW o \in OptionSet, NEW on \in BOOLEAN
      PROVE [metas[s] EXCEPT !.opts = IF on THEN @ \cup {o} ELSE @ \ {o}] \in Meta
  BY <1>m DEF Meta
<1>a. OnSession(w) => arg[w] \in Sessions
  BY <1>t, <1>w DEF TypeCalls
<1>k. ASSUME NEW s \in Known PROVE [metas[s] EXCEPT !.kind = "recap"] \in Meta
  BY <1>m DEF Meta
<1>i. arg[w] \in Known => ConvoInstalled(w) \in Meta
  BY <1>m, <1>t, <1>w DEF ConvoInstalled, Meta, TypeCalls
<1> USE <1>t, <1>w
<1>1. ASSUME NEW s \in Sessions, CreateReserve(w, s) PROVE TypeOK'
  <2>1. TypeMemory'
    BY <1>1, <1>r DEF CreateReserve, Reserve, Request, Step, At, GoTo, OnSession, TypeMemory, memVars, bootVars
  <2>2. TypeBounds'
    BY <1>1 DEF CreateReserve, Reserve, Request, Step, At, GoTo, OnSession, TypeBounds, boundVars
  <2>3. TypeWorld' /\ TypeCalls' /\ TypeBoot' /\ TypeHist'
    BY <1>1 DEF CreateReserve, Reserve, Request, Step, At, GoTo, OnSession, TypeWorld, worldVars, TypeCalls,
       callVars, Places, TypeBoot, bootVars, TypeHist, histVars
  <2>4. File!FileTypeOK'
    BY <1>1, SavedType DEF CreateReserve, Reserve
  <2> QED BY <2>1, <2>2, <2>3, <2>4 DEF TypeOK
<1>2. ASSUME NEW s \in Sessions, RecapReserve(w, s) PROVE TypeOK'
  <2>1. TypeMemory'
    BY <1>2, <1>r DEF RecapReserve, Reserve, Request, Step, At, GoTo, OnSession, TypeMemory, memVars, bootVars
  <2>2. TypeBounds'
    BY <1>2 DEF RecapReserve, Reserve, Request, Step, At, GoTo, OnSession, TypeBounds, boundVars
  <2>3. TypeWorld' /\ TypeCalls' /\ TypeBoot' /\ TypeHist'
    BY <1>2 DEF RecapReserve, Reserve, Request, Step, At, GoTo, OnSession, TypeWorld, worldVars, TypeCalls,
       callVars, Places, TypeBoot, bootVars, TypeHist, histVars
  <2>4. File!FileTypeOK'
    BY <1>2, SavedType DEF RecapReserve, Reserve
  <2> QED BY <2>1, <2>2, <2>3, <2>4 DEF TypeOK
<1>3. CASE StartDirs(w) \/ StartTmux(w) \/ Register(w) \/ CreateRollback(w) \/ CloseShell(w) \/ CloseDir(w)
  <2>1. TypeMemory'
    BY <1>3, <1>a DEF StartDirs, StartTmux, Register, CreateRollback, CloseShell, CloseDir, Request, Step, At,
       GoTo, OnSession, TypeMemory, memVars, bootVars
  <2>2. TypeWorld'
    BY <1>3, <1>a DEF StartDirs, StartTmux, Register, CreateRollback, CloseShell, CloseDir, Request, Step, At,
       GoTo, OnSession, TypeWorld, worldVars
  <2>3. TypeCalls' /\ TypeBoot' /\ TypeBounds' /\ TypeHist'
    BY <1>3 DEF StartDirs, StartTmux, Register, CreateRollback, CloseShell, CloseDir, Request, Step, At, GoTo,
       OnSession, TypeCalls, callVars, Places, TypeBoot, bootVars, TypeBounds, boundVars, TypeHist, histVars
  <2>4. File!FileTypeOK'
    BY <1>3, SavedType DEF StartDirs, StartTmux, Register, CreateRollback, CloseShell, CloseDir
  <2> QED BY <2>1, <2>2, <2>3, <2>4 DEF TypeOK
<1>4. CASE CreateUnreserve(w)
  <2>1. TypeMemory'
    BY <1>4, <1>m, WithoutFacts DEF CreateUnreserve, Request, Step, At, GoTo, OnSession, TypeMemory, memVars, bootVars
  <2>2. TypeWorld' /\ TypeCalls' /\ TypeBoot' /\ TypeBounds' /\ TypeHist'
    BY <1>4 DEF CreateUnreserve, Request, Step, At, GoTo, OnSession, TypeWorld, worldVars, TypeCalls, callVars,
       Places, TypeBoot, bootVars, TypeBounds, boundVars, TypeHist, histVars
  <2>3. File!FileTypeOK'
    BY <1>4, SavedType DEF CreateUnreserve
  <2> QED BY <2>1, <2>2, <2>3 DEF TypeOK
<1>5. CASE CreateReturn(w)
  <2>1. TypeMemory'
    BY <1>5, <1>m, WithoutFacts DEF CreateReturn, Request, Step, At, GoTo, OnSession, TypeMemory, memVars, bootVars
  <2>2. TypeHist'
    BY <1>5, <1>a DEF CreateReturn, Request, Step, At, GoTo, OnSession, TypeHist, histVars
  <2>3. TypeWorld' /\ TypeCalls' /\ TypeBoot' /\ TypeBounds'
    BY <1>5 DEF CreateReturn, Request, Step, At, GoTo, OnSession, TypeWorld, worldVars, TypeCalls, callVars,
       Places, TypeBoot, bootVars, TypeBounds, boundVars
  <2>4. File!FileTypeOK'
    BY <1>5, SavedType DEF CreateReturn
  <2> QED BY <2>1, <2>2, <2>3, <2>4 DEF TypeOK
<1>6. CASE CreateSave(w) \/ RecapSave(w) \/ CloseSave(w)
  <2>1. TypeMemory' /\ TypeWorld' /\ TypeCalls' /\ TypeBoot' /\ TypeBounds' /\ TypeHist'
    BY <1>6 DEF CreateSave, RecapSave, CloseSave, Request, Step, At, GoTo, OnSession, TypeMemory, memVars,
       bootVars, TypeWorld, worldVars, TypeCalls, callVars, Places, TypeBoot, TypeBounds, boundVars, TypeHist,
       histVars
  <2>2. File!FileTypeOK'
    BY <1>6, <1>m, PersistType DEF CreateSave, RecapSave, CloseSave, MutateAndPersist
  <2> QED BY <2>1, <2>2 DEF TypeOK
<1>7. CASE RecapScan(w) \/ RecapAbsent(w) \/ RecapRefused(w) \/ Return(w) \/ OrphansClosed(w)
  <2>1. TypeCalls'
    <3>1. CASE RecapScan(w)
      BY <3>1, <1>m DEF RecapScan, Request, Step, At, GoTo, OnSession, TypeCalls, callVars, Places, Recaps
    <3>2. CASE RecapAbsent(w) \/ RecapRefused(w)
      BY <3>2 DEF RecapAbsent, RecapRefused, Request, Step, At, GoTo, OnSession, TypeCalls, callVars, Places
    <3>3. CASE Return(w) \/ OrphansClosed(w)
      BY <3>3 DEF Return, OrphansClosed, Step, At, GoTo, OnSession, TypeCalls, callVars, Places
    <3> QED BY <1>7, <3>1, <3>2, <3>3
  <2>2. TypeMemory' /\ TypeWorld' /\ TypeBoot' /\ TypeBounds' /\ TypeHist'
    BY <1>7 DEF RecapScan, RecapAbsent, RecapRefused, Return, OrphansClosed, Request, Step, At, GoTo, OnSession,
       TypeMemory, memVars, bootVars, TypeWorld, worldVars, TypeBoot, TypeBounds, boundVars, TypeHist, histVars
  <2>3. File!FileTypeOK'
    BY <1>7, SavedType DEF RecapScan, RecapAbsent, RecapRefused, Return, OrphansClosed
  <2> QED BY <2>1, <2>2, <2>3 DEF TypeOK
<1>8. CASE RecapTag(w)
  <2>1. TypeMemory'
    BY <1>8, <1>m, <1>k, WithFacts DEF RecapTag, Request, Step, At, GoTo, OnSession, TypeMemory, memVars, bootVars
  <2>2. TypeWorld' /\ TypeCalls' /\ TypeBoot' /\ TypeBounds' /\ TypeHist'
    BY <1>8 DEF RecapTag, Request, Step, At, GoTo, OnSession, TypeWorld, worldVars, TypeCalls, callVars, Places,
       TypeBoot, bootVars, TypeBounds, boundVars, TypeHist, histVars
  <2>3. File!FileTypeOK'
    BY <1>8, SavedType DEF RecapTag
  <2> QED BY <2>1, <2>2, <2>3 DEF TypeOK
<1>9. ASSUME NEW s \in Sessions, NEW o \in OptionSet, NEW on \in BOOLEAN, SetOption(w, s, o, on) PROVE TypeOK'
  <2>1. TypeMemory'
    BY <1>9, <1>m, <1>o, WithFacts DEF SetOption, MutateAndPersist, Request, Step, At, GoTo, OnSession,
       TypeMemory, memVars, bootVars
  <2>2. TypeBounds'
    BY <1>9 DEF SetOption, MutateAndPersist, Request, Step, At, GoTo, OnSession, TypeBounds, boundVars
  <2>3. TypeWorld' /\ TypeCalls' /\ TypeBoot' /\ TypeHist'
    BY <1>9 DEF SetOption, MutateAndPersist, Request, Step, At, GoTo, OnSession, TypeWorld, worldVars,
       TypeCalls, callVars, Places, TypeBoot, bootVars, TypeHist, histVars
  <2>4. File!FileTypeOK'
    BY <1>9, <1>m, <1>o, WithFacts, PersistType DEF SetOption, MutateAndPersist
  <2> QED BY <2>1, <2>2, <2>3, <2>4 DEF TypeOK
<1>10. ASSUME NEW s \in Sessions, EnsureConvo(w, s) PROVE TypeOK'
  <2>1. TypeCalls'
    BY <1>10 DEF EnsureConvo, Request, Step, At, GoTo, OnSession, TypeCalls, callVars, Places
  <2>2. TypeBounds'
    BY <1>10 DEF EnsureConvo, Request, Step, At, GoTo, OnSession, TypeBounds, boundVars
  <2>3. TypeHist'
    BY <1>10, <1>m DEF EnsureConvo, Request, Step, At, GoTo, OnSession, TypeHist, histVars, Meta
  <2>4. TypeMemory' /\ TypeWorld' /\ TypeBoot'
    BY <1>10 DEF EnsureConvo, Request, Step, At, GoTo, OnSession, TypeMemory, memVars, bootVars, TypeWorld,
       worldVars, TypeBoot
  <2>5. File!FileTypeOK'
    BY <1>10, SavedType DEF EnsureConvo
  <2> QED BY <2>1, <2>2, <2>3, <2>4, <2>5 DEF TypeOK
<1>11. CASE ConvoSet(w)
  <2>1. TypeMemory'
    BY <1>11, <1>m, <1>i, WithFacts DEF ConvoSet, MutateAndPersist, Request, Step, At, GoTo, OnSession,
       TypeMemory, memVars, bootVars
  <2>2. TypeWorld' /\ TypeCalls' /\ TypeBoot' /\ TypeBounds' /\ TypeHist'
    BY <1>11 DEF ConvoSet, MutateAndPersist, Request, Step, At, GoTo, OnSession, TypeWorld, worldVars,
       TypeCalls, callVars, Places, TypeBoot, bootVars, TypeBounds, boundVars, TypeHist, histVars
  <2>3. File!FileTypeOK'
    BY <1>11, <1>m, <1>i, WithFacts, SavedType, PersistType DEF ConvoSet, MutateAndPersist
  <2> QED BY <2>1, <2>2, <2>3 DEF TypeOK
<1>12. CASE ConvoReturn(w)
  <2>1. TypeHist'
    BY <1>12, <1>m DEF ConvoReturn, Request, Step, At, GoTo, OnSession, TypeHist, histVars, Meta, TypeCalls
  <2>2. TypeMemory' /\ TypeWorld' /\ TypeCalls' /\ TypeBoot' /\ TypeBounds'
    BY <1>12 DEF ConvoReturn, Request, Step, At, GoTo, OnSession, TypeMemory, memVars, bootVars, TypeWorld,
       worldVars, TypeCalls, callVars, Places, TypeBoot, TypeBounds, boundVars
  <2>3. File!FileTypeOK'
    BY <1>12, SavedType DEF ConvoReturn
  <2> QED BY <2>1, <2>2, <2>3 DEF TypeOK
<1>13. ASSUME NEW s \in Sessions, CloseForget(w, s) PROVE TypeOK'
  <2>1. TypeMemory'
    BY <1>13, <1>f DEF CloseForget, Forget, Request, Step, At, GoTo, OnSession, TypeMemory, memVars, bootVars
  <2>2. TypeCalls'
    BY <1>13 DEF CloseForget, Forget, Request, Step, At, GoTo, OnSession, TypeCalls, callVars, Places
  <2>3. TypeBounds'
    BY <1>13 DEF CloseForget, Forget, Request, Step, At, GoTo, OnSession, TypeBounds, boundVars
  <2>4. TypeHist'
    BY <1>13 DEF CloseForget, Forget, Request, Step, At, GoTo, OnSession, TypeHist, histVars
  <2>5. TypeWorld' /\ TypeBoot'
    BY <1>13 DEF CloseForget, Forget, Request, Step, At, GoTo, OnSession, TypeWorld, worldVars, TypeBoot, bootVars
  <2>6. File!FileTypeOK'
    BY <1>13, SavedType DEF CloseForget, Forget
  <2> QED BY <2>1, <2>2, <2>3, <2>4, <2>5, <2>6 DEF TypeOK
<1>14. CASE OrphanForget(w)
  <2>1. TypeMemory'
    BY <1>14, <1>f DEF OrphanForget, Forget, Request, Step, At, GoTo, OnSession, TypeMemory, memVars, bootVars,
       TypeCalls
  <2>2. TypeCalls'
    BY <1>14 DEF OrphanForget, Forget, Request, Step, At, GoTo, OnSession, TypeCalls, callVars, Places
  <2>3. TypeHist'
    BY <1>14 DEF OrphanForget, Forget, Request, Step, At, GoTo, OnSession, TypeHist, histVars, TypeCalls
  <2>4. TypeWorld' /\ TypeBoot' /\ TypeBounds'
    BY <1>14 DEF OrphanForget, Forget, Request, Step, At, GoTo, OnSession, TypeWorld, worldVars, TypeBoot,
       bootVars, TypeBounds, boundVars
  <2>5. File!FileTypeOK'
    BY <1>14, SavedType DEF OrphanForget, Forget
  <2> QED BY <2>1, <2>2, <2>3, <2>4, <2>5 DEF TypeOK
<1>15. CASE CloseReturn(w)
  <2>1. TypeHist'
    BY <1>15, <1>a DEF CloseReturn, Request, Step, At, GoTo, OnSession, TypeHist, histVars
  <2>2. TypeMemory' /\ TypeWorld' /\ TypeCalls' /\ TypeBoot' /\ TypeBounds'
    BY <1>15 DEF CloseReturn, Request, Step, At, GoTo, OnSession, TypeMemory, memVars, bootVars, TypeWorld,
       worldVars, TypeCalls, callVars, Places, TypeBoot, TypeBounds, boundVars
  <2>3. File!FileTypeOK'
    BY <1>15, SavedType DEF CloseReturn
  <2> QED BY <2>1, <2>2, <2>3 DEF TypeOK
<1> QED BY <1>1, <1>2, <1>3, <1>4, <1>5, <1>6, <1>7, <1>8, <1>9, <1>10, <1>11, <1>12, <1>13, <1>14, <1>15
        DEF Creating, Changing, Closing

LEMMA BootType ==
  ASSUME TypeOK, Booting PROVE TypeOK'
<1>w. Boot \in Goroutines
  BY DEF Goroutines
<1>t. TypeMemory /\ TypeWorld /\ TypeCalls /\ TypeBoot /\ TypeBounds /\ TypeHist
  BY DEF TypeOK
<1>m. /\ Known \subseteq Sessions /\ \A s \in Known : metas[s] \in Meta
      /\ metas \in MetaLists
  BY MetaFacts DEF TypeOK, TypeMemory
<1>l. \A s \in todo : s \in Sessions /\ loaded[s] \in Meta
  BY <1>t, ListFacts DEF TypeBoot
<1>o. ASSUME NEW s \in Known, NEW o PROVE [metas[s] EXCEPT !.opts = @ \ {o}] \in Meta
  BY <1>m DEF Meta
<1>e. <<>> \in MetaLists
  BY EmptyFacts
<1>n. Len(Options) \in Nat
  OBVIOUS
<1>a. OnSession(Boot) => arg[Boot] \in Sessions
  BY <1>t, <1>w DEF TypeCalls
<1>u. /\ \A s \in Sessions : BootResume(s) \/ BootRecreate(s) => metas' \in MetaLists
      /\ BootReset => metas' \in MetaLists
  <2>1. ASSUME NEW s \in Sessions, BootResume(s) \/ BootRecreate(s)
        PROVE  metas' = With(s, loaded[s]) /\ s \in todo
    BY <2>1 DEF BootResume, BootRecreate, IsNext
  <2>2. ASSUME BootReset PROVE metas' \in MetaLists
    <3>1. CASE arg[Boot] \in Known
      <4> DEFINE m == [metas[arg[Boot]] EXCEPT !.opts = @ \ {Options[reset + 1]}]
      <4>1. metas' = With(arg[Boot], m)
        BY <2>2, <3>1 DEF BootReset, MutateAndPersist
      <4>2. m \in Meta /\ arg[Boot] \in Sessions
        BY <3>1, <1>o, <1>m
      <4> HIDE DEF m
      <4> QED BY <4>1, <4>2, <1>m, WithFacts
    <3>2. CASE arg[Boot] \notin Known
      BY <2>2, <3>2, <1>m DEF BootReset, MutateAndPersist
    <3> QED BY <3>1, <3>2
  <2>3. \A s \in todo : s \in Sessions => With(s, loaded[s]) \in MetaLists
    BY <1>l, <1>m, WithFacts
  <2> QED BY <2>1, <2>2, <2>3
<1> USE <1>t, <1>w
<1>1. CASE BootLoad
  <2>1. TypeMemory'
    BY <1>1 DEF BootLoad, Request, Step, At, GoTo, OnSession, TypeMemory, memVars, bootVars
  <2>2. TypeBoot'
    BY <1>1, <1>e DEF BootLoad, Request, Step, At, GoTo, OnSession, TypeBoot, bootVars, TypeWorld
  <2>3. TypeWorld' /\ TypeCalls' /\ TypeBounds' /\ TypeHist'
    BY <1>1 DEF BootLoad, Request, Step, At, GoTo, OnSession, TypeWorld, worldVars, TypeCalls, callVars, Places,
       TypeBounds, boundVars, TypeHist, histVars
  <2>4. File!FileTypeOK'
    BY <1>1, SavedType DEF BootLoad
  <2> QED BY <2>1, <2>2, <2>3, <2>4 DEF TypeOK
<1>2. ASSUME NEW s \in Sessions, BootResume(s) PROVE TypeOK'
  <2>1. TypeMemory'
    BY <1>2, <1>u DEF BootResume, Request, Step, At, GoTo, OnSession, TypeMemory, memVars, bootVars
  <2>2. TypeWorld'
    BY <1>2 DEF BootResume, Request, Step, At, GoTo, OnSession, TypeWorld, worldVars
  <2>3. TypeBoot'
    BY <1>2 DEF BootResume, Request, Step, At, GoTo, OnSession, TypeBoot, bootVars
  <2>4. TypeCalls' /\ TypeBounds' /\ TypeHist'
    BY <1>2 DEF BootResume, Request, Step, At, GoTo, OnSession, TypeCalls, callVars, Places, TypeBounds,
       boundVars, TypeHist, histVars
  <2>5. File!FileTypeOK'
    BY <1>2, SavedType DEF BootResume
  <2> QED BY <2>1, <2>2, <2>3, <2>4, <2>5 DEF TypeOK
<1>3. ASSUME NEW s \in Sessions, BootRecreate(s) PROVE TypeOK'
  <2>1. TypeMemory'
    BY <1>3, <1>u DEF BootRecreate, Request, Step, At, GoTo, OnSession, TypeMemory, memVars, bootVars
  <2>2. TypeWorld'
    BY <1>3 DEF BootRecreate, Request, Step, At, GoTo, OnSession, TypeWorld, worldVars
  <2>3. TypeBoot'
    BY <1>3, <1>n DEF BootRecreate, Request, Step, At, GoTo, OnSession, TypeBoot, bootVars
  <2>4. TypeCalls' /\ TypeBounds' /\ TypeHist'
    BY <1>3 DEF BootRecreate, Request, Step, At, GoTo, OnSession, TypeCalls, callVars, Places, TypeBounds,
       boundVars, TypeHist, histVars
  <2>5. File!FileTypeOK'
    BY <1>3, SavedType DEF BootRecreate
  <2> QED BY <2>1, <2>2, <2>3, <2>4, <2>5 DEF TypeOK
<1>4. CASE BootReset
  <2>1. TypeMemory'
    BY <1>4, <1>u DEF BootReset, MutateAndPersist, Request, Step, At, GoTo, OnSession, TypeMemory, memVars, bootVars
  <2>2. TypeBoot'
    BY <1>4, <1>n DEF BootReset, MutateAndPersist, Request, Step, At, GoTo, OnSession, TypeBoot, bootVars
  <2>3. TypeWorld' /\ TypeCalls' /\ TypeBounds' /\ TypeHist'
    BY <1>4 DEF BootReset, MutateAndPersist, Request, Step, At, GoTo, OnSession, TypeWorld, worldVars,
       TypeCalls, callVars, Places, TypeBounds, boundVars, TypeHist, histVars
  <2>4. File!FileTypeOK'
    BY <1>4, <1>m, <1>o, <1>a, WithFacts, SavedType, PersistType DEF BootReset, MutateAndPersist
  <2> QED BY <2>1, <2>2, <2>3, <2>4 DEF TypeOK
<1>5. CASE BootResetDone
  <2>1. TypeMemory' /\ TypeWorld' /\ TypeCalls' /\ TypeBoot' /\ TypeBounds' /\ TypeHist'
    BY <1>5 DEF BootResetDone, Request, Step, At, GoTo, OnSession, TypeMemory, memVars, bootVars, TypeWorld,
       worldVars, TypeCalls, callVars, Places, TypeBoot, TypeBounds, boundVars, TypeHist, histVars
  <2>2. File!FileTypeOK'
    BY <1>5, SavedType DEF BootResetDone
  <2> QED BY <2>1, <2>2 DEF TypeOK
<1>6. CASE BootServe
  <2>1. TypeMemory'
    BY <1>6 DEF BootServe, Request, Step, At, GoTo, OnSession, TypeMemory, memVars, bootVars
  <2>2. TypeWorld'
    BY <1>6 DEF BootServe, Request, Step, At, GoTo, OnSession, TypeWorld, worldVars
  <2>3. TypeBoot'
    BY <1>6 DEF BootServe, Request, Step, At, GoTo, OnSession, TypeBoot, bootVars
  <2>4. TypeCalls' /\ TypeBounds' /\ TypeHist'
    BY <1>6 DEF BootServe, Request, Step, At, GoTo, OnSession, TypeCalls, callVars, Places, TypeBounds,
       boundVars, TypeHist, histVars
  <2>5. File!FileTypeOK'
    BY <1>6, SavedType DEF BootServe
  <2> QED BY <2>1, <2>2, <2>3, <2>4, <2>5 DEF TypeOK
<1> QED BY <1>1, <1>2, <1>3, <1>4, <1>5, <1>6 DEF Booting

LEMMA GoneType ==
  ASSUME TypeOK, ProcessGone \/ PodGone PROVE TypeOK'
<1>t. TypeMemory /\ TypeWorld /\ TypeCalls /\ TypeBoot /\ TypeBounds /\ TypeHist
  BY DEF TypeOK
<1>1. Gone /\ tmux' \in {tmux, {}}
  BY DEF ProcessGone, PodGone
<1>2. TypeMemory'
  BY <1>1, EmptyFacts DEF Gone, TypeMemory
<1>3. TypeCalls'
  BY <1>t, <1>1 DEF Gone, TypeCalls, Places, OnSession
<1>4. TypeWorld' /\ TypeBoot' /\ TypeBounds' /\ TypeHist'
  BY <1>t, <1>1 DEF Gone, TypeWorld, TypeBoot, TypeBounds, TypeHist, histVars
<1>5. File!FileTypeOK'
  BY <1>1 DEF TypeOK, Gone, File!Crash, File!FileTypeOK, File!diskVars, File!Content
<1> QED BY <1>2, <1>3, <1>4, <1>5 DEF TypeOK

LEMMA UserExitType ==
  ASSUME TypeOK, NEW s \in Sessions, UserExit(s) PROVE TypeOK'
<1>t. TypeMemory /\ TypeWorld /\ TypeCalls /\ TypeBoot /\ TypeBounds /\ TypeHist
  BY DEF TypeOK
<1>1. TypeMemory'
  BY <1>t, WithoutFacts DEF UserExit, TypeMemory, bootVars
<1>2. TypeWorld' /\ TypeCalls' /\ TypeBoot' /\ TypeBounds' /\ TypeHist'
  BY <1>t DEF UserExit, TypeWorld, TypeCalls, TypeBoot, TypeBounds, TypeHist, OnSession,
              worldVars, callVars, bootVars, boundVars
<1>3. File!FileTypeOK'
  BY SavedType DEF UserExit
<1> QED BY <1>1, <1>2, <1>3 DEF TypeOK

LEMMA TypeStep == TypeOK /\ LimitInv /\ [Next]_vars => TypeOK'
<1> SUFFICES ASSUME TypeOK, LimitInv, [Next]_vars PROVE TypeOK'
  OBVIOUS
<1>1. CASE UNCHANGED vars
  BY <1>1, SavedType
     DEF vars, TypeOK, TypeMemory, TypeWorld, TypeCalls, TypeBoot, TypeBounds, TypeHist, OnSession,
         memVars, worldVars, callVars, bootVars, boundVars, histVars
<1>2. CASE Next
  BY <1>2, WorkerType, SaveStepType, UserExitType, GoneType, BootType DEF Next
<1> QED BY <1>1, <1>2

-----------------------------------------------------------------------------
(* The limit *)

LEMMA LimitInit == Init => LimitInv
<1> SUFFICES ASSUME Init PROVE LimitInv
  OBVIOUS
<1>1. Fits(metas) /\ Fits(loaded)
  BY EmptyFacts DEF Init
<1>2. Known = {} /\ \A w \in Goroutines : pc[w] = "idle" /\ spc[w] = "idle"
  BY DEF Init, Known, File!Init
<1>3. \A i \in Inodes : content[i] = Empty
  BY DEF Init, File!Init
<1> QED BY <1>1, <1>2, <1>3 DEF LimitInv, Booted, At, Init, Goroutines

\* What a worker may do to the lists: save the list it leaves in memory.
LEMMA WorkerFrame ==
  ASSUME TypeOK, LimitInv, NEW w \in Workers,
         up = "serving", up' = up, loaded' = loaded, content' = content,
         NEW p, pc' = [pc EXCEPT ![w] = p], Fits(metas'), metas' \in MetaLists,
         \/ spc' = spc /\ want' = want
         \/ want' = [want EXCEPT ![w] = metas'] /\ spc' = [spc EXCEPT ![w] = "open"]
  PROVE  LimitInv'
<1>1. Fits(loaded') /\ \A i \in Inodes : content'[i] \in MetaLists => Fits(content'[i])
  BY DEF LimitInv
<1>2. \A v \in Goroutines : spc'[v] # "idle" => want'[v] \in MetaLists /\ Fits(want'[v])
  BY DEF LimitInv, TypeOK, File!FileTypeOK, Goroutines
<1>3. Booted'
  BY DEF LimitInv, Booted, TypeOK, TypeCalls, At, Goroutines
<1> QED BY <1>1, <1>2, <1>3 DEF LimitInv, Fits

LEMMA SavedFrame ==
  ASSUME UNCHANGED saveVars PROVE spc' = spc /\ want' = want /\ content' = content
BY DEF saveVars

LEMMA PersistFrame ==
  ASSUME NEW w, NEW l, Persist(w, l)
  PROVE  /\ want' = [want EXCEPT ![w] = l] /\ spc' = [spc EXCEPT ![w] = "open"]
         /\ content' = content
BY DEF Persist, File!Save, File!GoTo, File!diskVars

LEMMA WorkerLimit ==
  ASSUME TypeOK, LimitInv, TypeOK', NEW w \in Workers, Creating(w) \/ Changing(w) \/ Closing(w)
  PROVE  LimitInv'
<1>m. metas \in MetaLists /\ metas' \in MetaLists /\ Fits(metas) /\ \A s \in Known : metas[s] \in Meta
  BY MetaFacts DEF TypeOK, TypeMemory, LimitInv
<1>s. up = "serving" /\ up' = up /\ loaded' = loaded
  BY DEF LimitInv, Booted, At, Creating, Changing, Closing, Request, Step, bootVars,
         CreateReserve, StartDirs, StartTmux, CreateUnreserve, Register, CreateSave, CreateReturn,
         CreateRollback, RecapScan, RecapAbsent, RecapReserve, RecapRefused, RecapTag, RecapSave,
         Return, SetOption, EnsureConvo, ConvoSet, ConvoReturn, CloseForget, OrphanForget,
         OrphansClosed, CloseShell, CloseDir, CloseSave, CloseReturn
<1>p. \E p : pc' = [pc EXCEPT ![w] = p]
  <2>1. pc = [pc EXCEPT ![w] = pc[w]]
    BY DEF TypeOK, TypeCalls
  <2> QED
    BY <2>1 DEF Creating, Changing, Closing, Request, Step, GoTo,
         CreateReserve, StartDirs, StartTmux, CreateUnreserve, Register, CreateSave, CreateReturn,
         CreateRollback, RecapScan, RecapAbsent, RecapReserve, RecapRefused, RecapTag, RecapSave,
         Return, SetOption, EnsureConvo, ConvoSet, ConvoReturn, CloseForget, OrphanForget,
         OrphansClosed, CloseShell, CloseDir, CloseSave, CloseReturn
\* Either the list in memory does not grow, or a slot was free.
<1>f. Fits(metas')
  <2>1. ASSUME NEW s \in Sessions, Reserve(w, s) PROVE Fits(metas')
    <3>1. DOMAIN metas' = DOMAIN metas \cup {s} /\ Cardinality(DOMAIN metas) < MaxSessions
      BY <2>1, <1>m, WithFacts DEF Reserve, NewMeta, Meta, Known
    <3> QED BY <3>1, <1>m, FitsOneMore
  <2>2. ASSUME NEW s \in Sessions, metas' = Without(s) PROVE Fits(metas')
    <3>1. DOMAIN metas' \subseteq DOMAIN metas
      BY <2>2, <1>m, WithoutFacts DEF Known
    <3> QED BY <3>1, <1>m, FitsSmaller
  <2>3. ASSUME NEW s \in Known, NEW m, metas' = With(s, m) PROVE Fits(metas')
    <3>1. DOMAIN metas' \subseteq DOMAIN metas
      BY <2>3 DEF With, Known
    <3> QED BY <3>1, <1>m, FitsSmaller
  <2>4. OnSession(w) => arg[w] \in Sessions
    BY DEF TypeOK, TypeCalls, Goroutines
  <2>5. ASSUME NEW s \in Sessions, Forget(w, s) PROVE Fits(metas')
    BY <2>2, <2>5 DEF Forget
  <2>6. ASSUME NEW s \in Sessions, CreateReserve(w, s) \/ RecapReserve(w, s) PROVE Fits(metas')
    BY <2>1, <2>6 DEF CreateReserve, RecapReserve
  <2>7. CASE CreateUnreserve(w) \/ CreateReturn(w)
    BY <2>2, <2>4, <2>7, <1>m DEF CreateUnreserve, CreateReturn, OnSession, At, Step, memVars
  <2>8. CASE RecapTag(w) \/ ConvoSet(w)
    BY <2>3, <2>8, <1>m DEF RecapTag, ConvoSet, MutateAndPersist
  <2>9. ASSUME NEW s \in Sessions, NEW o, NEW on, SetOption(w, s, o, on) PROVE Fits(metas')
    BY <2>3, <2>9 DEF SetOption, MutateAndPersist
  <2>10. ASSUME NEW s \in Sessions, CloseForget(w, s) PROVE Fits(metas')
    BY <2>5, <2>10 DEF CloseForget
  <2>11. CASE OrphanForget(w)
    <3>1. orphans[w] \subseteq Sessions
      BY DEF TypeOK, TypeCalls, Goroutines
    <3> QED BY <2>5, <2>11, <3>1, <1>m DEF OrphanForget, memVars
  <2>12. CASE metas' = metas
    BY <2>12, <1>m
  <2> QED BY <2>6, <2>7, <2>8, <2>9, <2>10, <2>11, <2>12
          DEF Creating, Changing, Closing, memVars, StartDirs, StartTmux, Register, CreateSave,
              CreateRollback, RecapScan, RecapAbsent, RecapRefused, RecapSave, Return, EnsureConvo,
              ConvoReturn, OrphansClosed, CloseShell, CloseDir, CloseSave, CloseReturn
<1>v. UNCHANGED saveVars \/ Persist(w, metas')
  BY DEF Creating, Changing, Closing, memVars, MutateAndPersist,
         CreateReserve, StartDirs, StartTmux, CreateUnreserve, Register, CreateSave, CreateReturn,
         CreateRollback, RecapScan, RecapAbsent, RecapReserve, RecapRefused, RecapTag, RecapSave,
         Return, SetOption, EnsureConvo, ConvoSet, ConvoReturn, CloseForget, OrphanForget,
         OrphansClosed, CloseShell, CloseDir, CloseSave, CloseReturn
<1>x. /\ content' = content
      /\ \/ spc' = spc /\ want' = want
         \/ want' = [want EXCEPT ![w] = metas'] /\ spc' = [spc EXCEPT ![w] = "open"]
  BY <1>v, SavedFrame, PersistFrame
<1> QED BY <1>m, <1>s, <1>p, <1>f, <1>x, WorkerFrame

\* What Boot may do: take over one more of the loaded sessions, save, or serve.
LEMMA BootFrame ==
  ASSUME TypeOK, LimitInv, up # "serving", up' = "boot", loaded' = loaded, content' = content,
         pc' = pc \/ \E p : pc' = [pc EXCEPT ![Boot] = p],
         Known' \subseteq Known \cup DOMAIN loaded, Fits(loaded), Known \subseteq DOMAIN loaded,
         metas' \in MetaLists,
         \/ spc' = spc /\ want' = want
         \/ want' = [want EXCEPT ![Boot] = metas'] /\ spc' = [spc EXCEPT ![Boot] = "open"]
  PROVE  LimitInv'
<1>1. Fits(loaded') /\ \A i \in Inodes : content'[i] \in MetaLists => Fits(content'[i])
  BY DEF LimitInv
<1>2. Fits(metas')
  BY FitsSmaller DEF Known
<1>3. \A v \in Goroutines : spc'[v] # "idle" => want'[v] \in MetaLists /\ Fits(want'[v])
  BY <1>2 DEF LimitInv, TypeOK, File!FileTypeOK, Goroutines
<1>4. Booted'
  BY DEF LimitInv, Booted, TypeOK, TypeCalls, At, Goroutines
<1> QED BY <1>1, <1>2, <1>3, <1>4 DEF LimitInv, Fits

LEMMA BootLimit ==
  ASSUME TypeOK, LimitInv, TypeOK', Booting PROVE LimitInv'
<1>m. metas \in MetaLists /\ metas' \in MetaLists
  BY DEF TypeOK, TypeMemory
<1>1. CASE BootLoad
  <2>1. /\ pc' = [pc EXCEPT ![Boot] = "next"] /\ up' = "boot" /\ metas' = metas /\ Known = {}
        /\ spc' = spc /\ want' = want /\ content' = content
    BY <1>1, SavedFrame DEF BootLoad, GoTo, LimitInv, Booted, memVars
  <2>2. Fits(loaded')
    <3>1. CASE File!Stored = None
      BY <1>1, <3>1, EmptyFacts DEF BootLoad
    <3>2. CASE File!Stored # None
      BY <1>1, <3>2 DEF BootLoad, File!Stored, LimitInv, TypeOK, File!FileTypeOK
    <3> QED BY <3>1, <3>2
  <2>3. Booted'
    BY <2>1, <1>1 DEF LimitInv, Booted, TypeOK, TypeCalls, At, Goroutines, BootLoad, Known
  <2> QED BY <2>1, <2>2, <2>3 DEF LimitInv, Fits
<1>2. ASSUME ~BootLoad PROVE up = "boot" /\ Known \subseteq DOMAIN loaded /\ Fits(loaded)
  BY <1>2 DEF LimitInv, Booted, Booting, BootResume, BootRecreate, BootReset, BootResetDone,
              BootServe, At, Step
<1>3. ASSUME NEW s \in Sessions, ~BootLoad, BootResume(s) \/ BootRecreate(s) PROVE LimitInv'
  <2>1. s \in DOMAIN loaded /\ metas' = With(s, loaded[s])
    BY <1>3 DEF BootResume, BootRecreate, IsNext, TypeOK, TypeBoot
  <2>2. Known' \subseteq Known \cup DOMAIN loaded
    BY <2>1 DEF With, Known
  <2>3. /\ up' = up /\ loaded' = loaded /\ UNCHANGED saveVars
        /\ pc' = pc \/ pc' = [pc EXCEPT ![Boot] = "reset"]
    BY <1>3 DEF BootResume, BootRecreate, Step, GoTo
  <2> QED BY <1>m, <1>2, <1>3, <2>2, <2>3, SavedFrame, BootFrame
<1>4. CASE ~BootLoad /\ BootReset
  <2>1. Known' \subseteq Known /\ (UNCHANGED saveVars \/ Persist(Boot, metas'))
    BY <1>4 DEF BootReset, MutateAndPersist, With, Known
  <2>2. up' = up /\ loaded' = loaded /\ pc' = pc
    BY <1>4 DEF BootReset
  <2> QED BY <1>m, <1>2, <1>4, <2>1, <2>2, SavedFrame, PersistFrame, BootFrame
<1>5. CASE ~BootLoad /\ BootResetDone
  <2>1. /\ up' = up /\ loaded' = loaded /\ metas' = metas /\ UNCHANGED saveVars
        /\ pc' = [pc EXCEPT ![Boot] = "next"]
    BY <1>5 DEF BootResetDone, bootVars, memVars, Step, GoTo
  <2> QED BY <1>m, <1>2, <1>5, <2>1, SavedFrame, BootFrame DEF Known
<1>6. CASE ~BootLoad /\ BootServe
  <2>1. /\ up' = "serving" /\ loaded' = loaded /\ metas' = metas
        /\ spc' = spc /\ want' = want /\ content' = content /\ pc' = [pc EXCEPT ![Boot] = "idle"]
    BY <1>6, SavedFrame DEF BootServe, memVars, Step, GoTo
  <2>2. Booted'
    BY <2>1 DEF Booted, TypeOK, TypeCalls, Goroutines
  <2> QED BY <2>1, <2>2 DEF LimitInv, Fits
<1> QED BY <1>1, <1>3, <1>4, <1>5, <1>6 DEF Booting

LEMMA SaveStepLimit ==
  ASSUME TypeOK, LimitInv, NEW w \in Goroutines, SaveStep(w) PROVE LimitInv'
<1>1. UNCHANGED <<metas, pc, up, loaded>>
  BY DEF SaveStep, memVars, bootVars
<1>2. \A v \in Goroutines : spc'[v] # "idle" => spc[v] # "idle" /\ want'[v] = want[v]
  BY DEF SaveStep, File!Steps, File!Open, File!Write, File!Rename, File!Clean, File!At, File!GoTo,
         TypeOK, File!FileTypeOK
<1>3. \A i \in Inodes : content'[i] \in {content[i], Empty, Torn, want[w]}
  BY DEF SaveStep, File!Steps, File!Open, File!Write, File!Rename, File!Clean, File!Written,
         File!Free, TypeOK, File!FileTypeOK
<1>4. CASE content' = content
  BY <1>1, <1>2, <1>4 DEF LimitInv, Booted, Fits, Known, At
<1>5. CASE content' # content
  <2>1. spc[w] # "idle"
    BY <1>5 DEF SaveStep, File!Steps, File!Open, File!Write, File!Rename, File!Clean, File!At
  <2>2. \A i \in Inodes : content'[i] \in MetaLists => Fits(content'[i])
    BY <1>3, <2>1 DEF LimitInv
  <2> QED BY <1>1, <1>2, <2>2 DEF LimitInv, Booted, Fits, Known, At
<1> QED BY <1>4, <1>5

LEMMA GoneLimit ==
  ASSUME TypeOK, LimitInv, ProcessGone \/ PodGone PROVE LimitInv'
<1>1. Gone
  BY DEF ProcessGone, PodGone
<1>2. /\ metas' = <<>> /\ up' = "down" /\ loaded' = loaded /\ content' = content
      /\ \A w \in Goroutines : pc'[w] = "idle" /\ spc'[w] = "idle"
  BY <1>1 DEF Gone, File!Crash, File!diskVars
<1>3. Known' = {}
  BY <1>2 DEF Known
<1> QED BY <1>2, <1>3, EmptyFacts DEF LimitInv, Booted, Fits, At, Goroutines

LEMMA UserExitLimit ==
  ASSUME TypeOK, LimitInv, NEW s \in Sessions, UserExit(s) PROVE LimitInv'
<1>1. /\ metas' = Without(s) /\ up' = up /\ loaded' = loaded /\ pc' = pc
      /\ spc' = spc /\ want' = want /\ content' = content
  BY SavedFrame DEF UserExit, bootVars
<1>2. Known' \subseteq Known
  BY <1>1 DEF Without, Known
<1>3. Fits(metas')
  BY <1>2, FitsSmaller DEF LimitInv, Known
<1> QED BY <1>1, <1>2, <1>3 DEF LimitInv, Booted, Fits, At

LEMMA LimitStep == TypeOK /\ LimitInv /\ [Next]_vars => LimitInv'
<1> SUFFICES ASSUME TypeOK, LimitInv, [Next]_vars PROVE LimitInv'
  OBVIOUS
<1>1. CASE UNCHANGED vars
  BY <1>1 DEF vars, saveVars, memVars, bootVars, LimitInv, Booted, Fits, Known, At
<1>2. CASE Next
  BY <1>2, TypeStep, WorkerLimit, SaveStepLimit, UserExitLimit, GoneLimit, BootLimit DEF Next
<1> QED BY <1>1, <1>2

-----------------------------------------------------------------------------
LEMMA ManagerInvariant == Spec => [](TypeOK /\ LimitInv)
<1>1. Init => TypeOK /\ LimitInv
  BY TypeInit, LimitInit
<1>2. TypeOK /\ LimitInv /\ [Next]_vars => (TypeOK /\ LimitInv)'
  BY TypeStep, LimitStep
<1> QED BY <1>1, <1>2, PTL DEF Spec

\* Every variable of the manager keeps its type.
THEOREM TypeCorrect == Spec => []TypeOK
BY ManagerInvariant, PTL

\* Whatever requests, failures, crashes and boots interleave, the server never
\* holds more sessions than Config.MaxSessions.
THEOREM LimitCorrect == Spec => []LimitRespected
<1>1. LimitInv => LimitRespected
  BY DEF LimitInv, Fits, LimitRespected, Known
<1> QED BY <1>1, ManagerInvariant, PTL

-----------------------------------------------------------------------------
(* Until the process first goes away *)

HIDE ManagerAssumption

\* The ids that were handed to new sessions.
Ids(q) == {q[i] : i \in DOMAIN q}
Minted == Ids(minted)

\* Nothing is stored, and nobody saves, before the first boot is over.
FirstBoot ==
  up # "serving" => /\ Known = {} /\ todo = {} /\ File!Stored = None
                    /\ \A w \in Goroutines : Returned(w)

\* w has reserved s and has neither reported it nor given it back.
Creates(w, s) ==
  /\ arg[w] = s
  /\ \/ pc[w] \in {"startDirs", "startTmux", "unreserve", "register"}
     \/ pc[w] \in {"createSave", "createReturn"} /\ s \in shells

\* A session that is known has been reported and has its shell, or somebody creates it.
SlotsInv == \A s \in Known : s \in acked \cap shells \/ \E w \in Workers : Creates(w, s)

\* An id that was handed out is the one the session has for good.
ConvoInv ==
  /\ \A s \in Sessions : s \in Known \/ handed[s] # {} => s \in Minted
  /\ \A s \in Known : handed[s] \subseteq {metas[s].convo} \ {None}
  /\ \A s \in Sessions : \A u, v \in handed[s] : u = v
  /\ \A w \in Workers :
       /\ pc[w] \in {"convoSet", "convoReturn"} => arg[w] \in Minted
       /\ pc[w] = "convoSet" => convo[w] # None
       /\ pc[w] = "convoReturn" /\ arg[w] \in Known => metas[arg[w]].convo # None

\* What holds until the process first goes away.
FirstLife == crashes = 0 => FirstBoot /\ SlotsInv /\ ConvoInv

LEMMA FirstInit == Init => crashes \in Nat /\ FirstLife
<1> SUFFICES ASSUME Init PROVE crashes \in Nat /\ FirstLife
  OBVIOUS
<1>1. Known = {} /\ crashes = 0
  BY DEF Init, Known
<1>2. FirstBoot
  BY <1>1 DEF Init, File!Init, FirstBoot, File!Stored, Returned, Goroutines
<1>3. SlotsInv
  BY <1>1 DEF SlotsInv
<1>4. ConvoInv
  BY <1>1 DEF Init, ConvoInv, Goroutines
<1> QED BY <1>1, <1>2, <1>3, <1>4 DEF FirstLife

\* Requests are served, and nothing of theirs counts as a crash.
LEMMA WorkerServes ==
  ASSUME LimitInv, NEW w \in Workers, Creating(w) \/ Changing(w) \/ Closing(w)
  PROVE  up = "serving" /\ up' = up /\ crashes' = crashes
BY DEF LimitInv, Booted, At, Creating, Changing, Closing, Request, Step, bootVars, boundVars,
       CreateReserve, StartDirs, StartTmux, CreateUnreserve, Register, CreateSave, CreateReturn,
       CreateRollback, RecapScan, RecapAbsent, RecapReserve, RecapRefused, RecapTag, RecapSave,
       Return, SetOption, EnsureConvo, ConvoSet, ConvoReturn, CloseForget, OrphanForget,
       OrphansClosed, CloseShell, CloseDir, CloseSave, CloseReturn

\* Creations, and requests of other kinds, keep SlotsInv.
LEMMA CreatingSlots ==
  ASSUME TypeOK, SlotsInv, NEW w \in Workers, Creating(w) PROVE SlotsInv'
<1>w. w \in Goroutines /\ \A v \in Workers : v \in Goroutines
  BY DEF Goroutines
<1>t. /\ pc \in [Goroutines -> Places] /\ arg \in [Goroutines -> Sessions \cup {None}]
  BY DEF TypeOK, TypeCalls
<1> USE <1>w, <1>t
<1>1. ASSUME NEW s \in Sessions, CreateReserve(w, s) \/ RecapReserve(w, s) PROVE SlotsInv'
  <2>1. Known' = Known \cup {s} /\ arg' = [arg EXCEPT ![w] = s]
        /\ pc' = [pc EXCEPT ![w] = "startDirs"] /\ pc[w] \in {"idle", "recapCreate"} /\ UNCHANGED <<shells, acked>>
    BY <1>1 DEF CreateReserve, RecapReserve, Request, Reserve, Step, At, GoTo, With, Known, histVars
  <2> QED BY <2>1 DEF SlotsInv, Creates
<1>2. CASE \/ StartDirs(w) \/ StartTmux(w) \/ CreateRollback(w) \/ CreateSave(w)
           \/ RecapScan(w) \/ RecapAbsent(w) \/ RecapRefused(w) \/ RecapSave(w)
  <2>1. Known' = Known /\ UNCHANGED <<arg, shells, acked>>
    BY <1>2 DEF StartDirs, StartTmux, CreateRollback, RecapScan, RecapAbsent, RecapRefused, CreateSave,
       RecapSave, Known, histVars, memVars, callVars
  <2>3. \A s : Creates(w, s) => Creates(w, s)'
    BY <2>1, <1>2 DEF StartDirs, StartTmux, CreateRollback, RecapScan, RecapAbsent, RecapRefused, CreateSave,
       RecapSave, Creates, Step, Request, At, GoTo
  <2>4. \A v \in Workers \ {w} : pc'[v] = pc[v]
    BY <1>2 DEF StartDirs, StartTmux, CreateRollback, RecapScan, RecapAbsent, RecapRefused, CreateSave,
       RecapSave, Step, Request, At, GoTo
  <2> QED BY <2>1, <2>3, <2>4 DEF SlotsInv, Creates
<1>3. CASE CreateUnreserve(w)
  <2>1. Known' = Known \ {arg[w]} /\ UNCHANGED <<arg, shells, acked>> /\ pc' = [pc EXCEPT ![w] = "idle"]
    BY <1>3 DEF CreateUnreserve, Step, GoTo, Without, Known, histVars, memVars, callVars
  <2> QED BY <2>1 DEF SlotsInv, Creates
<1>4. CASE Register(w)
  <2>1. Known' = Known /\ UNCHANGED <<arg, acked>> /\ shells' = shells \cup {arg[w]} /\ pc' = [pc EXCEPT ![w] = "createSave"]
    BY <1>4 DEF Register, Step, GoTo, Known, histVars, callVars
  <2> QED BY <2>1 DEF SlotsInv, Creates
<1>5. CASE CreateReturn(w)
  <2>1. pc[w] = "createReturn" /\ arg' = arg /\ \A v \in Workers \ {w} : pc'[v] = pc[v]
    BY <1>5 DEF CreateReturn, callVars, At, GoTo
  <2>2. CASE saved[w]
    <3>1. Known' = Known /\ UNCHANGED shells /\ acked' = acked \cup {arg[w]}
      BY <1>5, <2>2 DEF CreateReturn, memVars, Known
    <3> QED BY <2>1, <3>1 DEF SlotsInv, Creates
  <2>3. CASE ~saved[w]
    <3>1. Known' = Known \ {arg[w]} /\ shells' = shells \ {arg[w]} /\ acked' = acked
      BY <1>5, <2>3 DEF CreateReturn, Without, Known
    <3> QED BY <2>1, <3>1 DEF SlotsInv, Creates
  <2> QED BY <2>2, <2>3
<1>6. CASE RecapTag(w)
  <2>1. Known' = Known /\ UNCHANGED <<arg, shells, acked>> /\ pc[w] = "recapTag" /\ \A v \in Workers \ {w} : pc'[v] = pc[v]
    BY <1>6 DEF RecapTag, Step, At, GoTo, With, Known, histVars, callVars
  <2> QED BY <2>1 DEF SlotsInv, Creates
<1> QED BY <1>1, <1>2, <1>3, <1>4, <1>5, <1>6 DEF Creating

LEMMA OtherSlots ==
  ASSUME TypeOK, SlotsInv, NEW w \in Workers, Changing(w) \/ Closing(w) PROVE SlotsInv'
<1>w. w \in Goroutines /\ \A v \in Workers : v \in Goroutines
  BY DEF Goroutines
<1>t. /\ pc \in [Goroutines -> Places] /\ arg \in [Goroutines -> Sessions \cup {None}]
  BY DEF TypeOK, TypeCalls
<1> USE <1>w, <1>t
<1>1. \A s : ~Creates(w, s)
  BY DEF Creates, Changing, Closing, SetOption, EnsureConvo, ConvoSet, ConvoReturn, Return, CloseForget, OrphanForget,
       OrphansClosed, CloseShell, CloseDir, CloseSave, CloseReturn, Step, Request, At
<1>2. \A v \in Workers \ {w} : pc'[v] = pc[v] /\ arg'[v] = arg[v]
  BY DEF Changing, Closing, SetOption, EnsureConvo, ConvoSet, ConvoReturn, Return, CloseForget, OrphanForget, Forget,
       OrphansClosed, CloseShell, CloseDir, CloseSave, CloseReturn, Step, Request, At, GoTo, callVars
<1>3. acked' = acked
  BY DEF Changing, Closing, SetOption, EnsureConvo, ConvoSet, ConvoReturn, Return, CloseForget, OrphanForget,
       OrphansClosed, CloseShell, CloseDir, CloseSave, CloseReturn, histVars
<1>4. \/ Known' = Known /\ shells' = shells
      \/ \E s : Known' = Known \ {s} /\ shells' = shells \ {s}
  BY DEF Changing, Closing, SetOption, EnsureConvo, ConvoSet, ConvoReturn, Return, CloseForget, OrphanForget,
       OrphansClosed, CloseShell, CloseDir, CloseSave, CloseReturn, memVars, MutateAndPersist, Forget, With, Without, Known
<1> QED BY <1>1, <1>2, <1>3, <1>4 DEF SlotsInv, Creates

\* The list after a session was added or removed.
LEMMA Added ==
  ASSUME NEW s, NEW m, metas' = With(s, m)
  PROVE  Known' = Known \cup {s} /\ metas'[s] = m /\ \A t \in Known \ {s} : metas'[t] = metas[t]
BY DEF With, Known

LEMMA Removed ==
  ASSUME NEW s, metas' = Without(s)
  PROVE  Known' = Known \ {s} /\ \A t \in Known' : metas'[t] = metas[t]
BY DEF Without, Known

LEMMA IdsAppend ==
  ASSUME NEW q \in Seq(Sessions), NEW s \in Sessions PROVE Ids(Append(q, s)) = Ids(q) \cup {s}
BY AppendProperties DEF Ids

\* Steps that neither add a session nor change a conversation id, nor hand one out.
LEMMA ConvoFrame ==
  ASSUME TypeOK, ConvoInv, Known' \subseteq Known, \A s \in Known' : metas'[s].convo = metas[s].convo,
         UNCHANGED <<minted, handed>>,
         NEW w \in Goroutines, \A v \in Workers \ {w} : pc'[v] = pc[v] /\ arg'[v] = arg[v] /\ convo'[v] = convo[v],
         w \in Workers => /\ pc'[w] = "convoSet" => convo'[w] # None /\ arg'[w] \in Minted
                          /\ pc'[w] # "convoReturn"
  PROVE  ConvoInv'
BY DEF ConvoInv, Minted

\* EnsureClaudeConvoID gives a session its id once.
LEMMA WorkerConvo ==
  ASSUME TypeOK, ConvoInv, NEW w \in Workers, Creating(w) \/ Changing(w) \/ Closing(w) PROVE ConvoInv'
<1>w. w \in Goroutines /\ \A v \in Workers : v \in Goroutines
  BY DEF Goroutines
<1>t. /\ pc \in [Goroutines -> Places] /\ arg \in [Goroutines -> Sessions \cup {None}]
      /\ convo \in [Goroutines -> Convos \cup {None}] /\ handed \in [Sessions -> SUBSET (Convos \cup {None})]
      /\ minted \in Seq(Sessions) /\ metas \in MetaLists
  BY DEF TypeOK, TypeCalls, TypeHist, TypeBounds, TypeMemory
<1>m. Known \subseteq Sessions /\ \A s \in Known : metas[s] \in Meta
  BY <1>t, MetaFacts
<1> USE <1>w, <1>t
<1>1. ASSUME NEW s \in Sessions, CreateReserve(w, s) \/ RecapReserve(w, s) PROVE ConvoInv'
  <2>1. metas' = With(s, NewMeta) /\ s \notin Minted /\ minted' = Append(minted, s)
        /\ arg' = [arg EXCEPT ![w] = s] /\ pc' = [pc EXCEPT ![w] = "startDirs"] /\ UNCHANGED <<convo, handed>>
    BY <1>1 DEF CreateReserve, RecapReserve, Request, Reserve, Step, GoTo, histVars, Minted, Ids
  <2>2. Known' = Known \cup {s} /\ metas'[s].convo = None /\ \A t \in Known \ {s} : metas'[t] = metas[t]
    <3>1. NewMeta.convo = None
      BY DEF NewMeta
    <3> QED BY <2>1, <3>1, Added
  <2>3. Minted' = Minted \cup {s} /\ s \notin Known /\ handed[s] = {}
    <3>1. Minted' = Minted \cup {s}
      BY <2>1, IdsAppend DEF Minted
    <3>2. s \notin Known /\ handed[s] = {}
      BY <2>1 DEF ConvoInv
    <3> QED BY <3>1, <3>2
  <2>4. \A v \in Workers \ {w} : pc'[v] = "convoReturn" /\ arg'[v] \in Known' => metas'[arg'[v]].convo # None
    BY <2>1, <2>2, <2>3 DEF ConvoInv
  <2> QED BY <2>1, <2>2, <2>3, <2>4 DEF ConvoInv
<1>2. CASE ConvoSet(w)
  <2>1. CASE arg[w] \notin Known
    BY <1>2, <2>1, ConvoFrame DEF ConvoSet, MutateAndPersist, Step, GoTo, callVars, histVars, boundVars, Known
  <2>2. CASE arg[w] \in Known
    <3>1. metas' = With(arg[w], ConvoInstalled(w)) /\ pc[w] = "convoSet" /\ pc' = [pc EXCEPT ![w] = "convoReturn"]
          /\ UNCHANGED <<minted, handed, arg, convo>>
      BY <1>2, <2>2 DEF ConvoSet, MutateAndPersist, Step, At, GoTo, callVars, histVars, boundVars
    <3>2. Known' = Known /\ metas'[arg[w]] = ConvoInstalled(w) /\ \A t \in Known \ {arg[w]} : metas'[t] = metas[t]
    <4>1. /\ Known' = Known \cup {arg[w]} /\ metas'[arg[w]] = ConvoInstalled(w)
          /\ \A t \in Known \ {arg[w]} : metas'[t] = metas[t]
      BY <3>1, Added
    <4> QED BY <2>2, <4>1
    <3>3. /\ ConvoInstalled(w).convo = (IF metas[arg[w]].convo = None THEN convo[w] ELSE metas[arg[w]].convo)
      BY <2>2, <1>m DEF ConvoInstalled, Meta
    <3>4. convo[w] # None
      BY <3>1 DEF ConvoInv
    <3>5. metas'[arg[w]].convo # None /\ handed[arg[w]] \subseteq {metas'[arg[w]].convo}
      BY <3>2, <3>3, <3>4, <2>2 DEF ConvoInv
    <3> QED BY <3>1, <3>2, <3>5 DEF ConvoInv, Minted
  <2> QED BY <2>1, <2>2
<1>3. CASE ConvoReturn(w)
  <2>1. /\ pc[w] = "convoReturn" /\ pc' = [pc EXCEPT ![w] = "idle"] /\ UNCHANGED <<metas, arg, convo, minted>>
        /\ \/ handed' = handed
           \/ arg[w] \in Known /\ handed' = [handed EXCEPT ![arg[w]] = @ \cup {metas[arg[w]].convo}]
    BY <1>3 DEF ConvoReturn, Step, At, GoTo, memVars, callVars, boundVars
  <2>2. arg[w] \in Known => metas[arg[w]].convo # None
    BY <2>1 DEF ConvoInv
  <2>3. CASE handed' = handed
    BY <2>1, <2>3 DEF ConvoInv, Known, Minted
  <2>4. CASE arg[w] \in Known /\ handed' = [handed EXCEPT ![arg[w]] = @ \cup {metas[arg[w]].convo}]
    <3>1. \A s \in Sessions : handed'[s] = (IF s = arg[w] THEN handed[s] \cup {metas[s].convo} ELSE handed[s])
      BY <2>4
    <3>2. Known' = Known /\ Minted' = Minted
      BY <2>1 DEF Known, Minted
    <3>3. \A s \in Known : handed'[s] \subseteq {metas[s].convo} \ {None}
      BY <1>m, <2>2, <2>4, <3>1 DEF ConvoInv
    <3>4. \A s \in Sessions : \A u, v \in handed'[s] : u = v
      BY <2>2, <2>4, <3>1 DEF ConvoInv
    <3>5. \A s \in Sessions : s \in Known \/ handed'[s] # {} => s \in Minted
      BY <2>4, <3>1 DEF ConvoInv
    <3>6. \A v \in Workers : pc'[v] \in {"convoSet", "convoReturn"} => v # w /\ pc'[v] = pc[v]
      BY <2>1
    <3> QED BY <2>1, <3>2, <3>3, <3>4, <3>5, <3>6 DEF ConvoInv
  <2> QED BY <2>1, <2>3, <2>4
<1>4. ASSUME NEW s \in Sessions, EnsureConvo(w, s) PROVE ConvoInv'
  <2>1. CASE metas[s].convo # None
    <3>1. /\ s \in Known /\ pc' = [pc EXCEPT ![w] = "idle"] /\ UNCHANGED <<metas, arg, convo, minted>>
          /\ handed' = [handed EXCEPT ![s] = @ \cup {metas[s].convo}]
      BY <1>4, <2>1 DEF EnsureConvo, Request, Step, GoTo, memVars
    <3> QED BY <2>1, <3>1 DEF ConvoInv, Known, Minted
  <2>2. CASE metas[s].convo = None
    <3>1. PICK u \in Convos : convo' = [convo EXCEPT ![w] = u]
      BY <1>4, <2>2 DEF EnsureConvo
    <3>2. /\ pc' = [pc EXCEPT ![w] = "convoSet"] /\ UNCHANGED <<metas, minted, handed>>
          /\ arg' = [arg EXCEPT ![w] = s]
      BY <1>4, <2>2 DEF EnsureConvo, Request, Step, GoTo, memVars
    <3>3. s \in Minted
      BY <1>4 DEF EnsureConvo, ConvoInv
    <3> QED BY <3>1, <3>2, <3>3, ConvoFrame, ManagerAssumption DEF Known
  <2> QED BY <2>1, <2>2
<1>k. ASSUME NEW s \in Known, NEW k
      PROVE  /\ [metas[s] EXCEPT !.kind = "recap"].convo = metas[s].convo
             /\ [metas[s] EXCEPT !.opts = k].convo = metas[s].convo
  BY <1>m DEF Meta
<1>s. ASSUME NEW s \in Known, NEW m, metas' = With(s, m), m.convo = metas[s].convo
      PROVE  Known' = Known /\ \A t \in Known' : metas'[t].convo = metas[t].convo
  <2>1. Known' = Known \cup {s} /\ metas'[s] = m /\ \A t \in Known \ {s} : metas'[t] = metas[t]
    BY <1>s, Added
  <2> QED BY <2>1, <1>s
<1>5. CASE RecapTag(w)
  <2>1. /\ UNCHANGED <<minted, handed, convo, arg>> /\ pc'[w] = "recapSave"
        /\ \A v \in Workers \ {w} : pc'[v] = pc[v]
    BY <1>5 DEF RecapTag, Step, GoTo, boundVars, callVars, histVars
  <2>2. Known' = Known /\ \A t \in Known' : metas'[t].convo = metas[t].convo
    <3>1. CASE arg[w] \in Known
      BY <1>5, <3>1, <1>k, <1>s DEF RecapTag
    <3>2. CASE arg[w] \notin Known
      BY <1>5, <3>2 DEF RecapTag, Known
    <3> QED BY <3>1, <3>2
  <2> QED BY <2>1, <2>2, ConvoFrame
<1>10. ASSUME NEW s \in Sessions, NEW o \in OptionSet, NEW on \in BOOLEAN, SetOption(w, s, o, on) PROVE ConvoInv'
  <2>1. /\ UNCHANGED <<minted, handed, convo, arg>> /\ pc'[w] = "return"
        /\ \A v \in Workers \ {w} : pc'[v] = pc[v]
    BY <1>10 DEF SetOption, Request, Step, GoTo, callVars, histVars
  <2>2. Known' = Known /\ \A t \in Known' : metas'[t].convo = metas[t].convo
    <3> DEFINE k == IF on THEN metas[s].opts \cup {o} ELSE metas[s].opts \ {o}
    <3>1. s \in Known /\ metas' = With(s, [metas[s] EXCEPT !.opts = k])
      BY <1>10 DEF SetOption, MutateAndPersist
    <3> HIDE DEF k
    <3> QED BY <3>1, <1>k, <1>s
  <2> QED BY <2>1, <2>2, ConvoFrame
<1>6. CASE \E s \in Sessions : CloseForget(w, s)
  <2>1. PICK s \in Sessions : CloseForget(w, s)
    BY <1>6
  <2>2. metas' = Without(s) /\ arg' = [arg EXCEPT ![w] = s] /\ UNCHANGED <<minted, handed, convo>>
    BY <2>1 DEF CloseForget, Forget
  <2>3. pc'[w] \notin {"convoSet", "convoReturn"} /\ \A v \in Workers \ {w} : pc'[v] = pc[v]
    BY <2>1 DEF CloseForget, Request, Step, GoTo
  <2>4. Known' \subseteq Known /\ \A t \in Known' : metas'[t].convo = metas[t].convo
    BY <2>2, Removed
  <2>5. \A v \in Workers \ {w} : arg'[v] = arg[v] /\ convo'[v] = convo[v]
    BY <2>2
  <2> QED BY <2>2, <2>3, <2>4, <2>5, ConvoFrame
<1>7. CASE OrphanForget(w)
  <2>1. \/ metas' = metas \/ \E s : metas' = Without(s)
    BY <1>7 DEF OrphanForget, Forget, memVars
  <2>2. /\ UNCHANGED <<minted, handed, convo>> /\ pc'[w] \notin {"convoSet", "convoReturn"}
        /\ \A v \in Workers \ {w} : pc'[v] = pc[v] /\ arg'[v] = arg[v]
    BY <1>7 DEF OrphanForget, Forget, GoTo, At, boundVars, callVars, memVars
  <2> QED BY <2>1, <2>2, Removed, ConvoFrame DEF Known
<1>8. CASE CreateUnreserve(w) \/ CreateReturn(w)
  <2>1. \/ metas' = metas \/ \E s : metas' = Without(s)
    BY <1>8 DEF CreateUnreserve, CreateReturn, memVars
  <2>2. /\ UNCHANGED <<minted, handed, convo, arg>> /\ pc'[w] \notin {"convoSet", "convoReturn"}
        /\ \A v \in Workers \ {w} : pc'[v] = pc[v]
    BY <1>8 DEF CreateUnreserve, CreateReturn, Step, At, GoTo, boundVars, callVars, histVars
  <2> QED BY <2>1, <2>2, Removed, ConvoFrame DEF Known
<1>9. CASE StartDirs(w) \/ StartTmux(w) \/ Register(w) \/ CreateSave(w) \/ CreateRollback(w)
           \/ RecapScan(w) \/ RecapAbsent(w) \/ RecapRefused(w) \/ RecapSave(w)
           \/ Return(w) \/ OrphansClosed(w) \/ CloseShell(w) \/ CloseDir(w) \/ CloseSave(w) \/ CloseReturn(w)
  <2>1. /\ metas' = metas /\ UNCHANGED <<minted, handed, convo, arg>> /\ pc'[w] \notin {"convoSet", "convoReturn"}
        /\ \A v \in Workers \ {w} : pc'[v] = pc[v]
    BY <1>9 DEF StartDirs, StartTmux, Register, CreateSave, CreateRollback, RecapScan, RecapAbsent, RecapRefused,
        RecapSave, Return, OrphansClosed, CloseShell, CloseDir, CloseSave, CloseReturn, Request, Step, GoTo,
        memVars, boundVars, callVars, histVars
  <2> QED BY <2>1, ConvoFrame DEF Known
<1> QED BY <1>1, <1>2, <1>3, <1>4, <1>5, <1>6, <1>7, <1>8, <1>9, <1>10 DEF Creating, Changing, Closing

\* The steps, one kind at a time.
LEMMA WorkerFirst ==
  ASSUME TypeOK, LimitInv, FirstLife, NEW w \in Workers, Creating(w) \/ Changing(w) \/ Closing(w)
  PROVE  crashes' = crashes /\ FirstLife'
<1>1. up' = "serving" /\ crashes' = crashes
  BY WorkerServes
<1> QED BY <1>1, CreatingSlots, OtherSlots, WorkerConvo DEF FirstLife, FirstBoot

LEMMA BootFirst ==
  ASSUME TypeOK, LimitInv, FirstLife, Booting PROVE crashes' = crashes /\ FirstLife'
<1>1. crashes' = crashes
  BY DEF Booting, BootLoad, BootResume, BootRecreate, BootReset, BootResetDone, BootServe, boundVars
<1>2. CASE crashes # 0
  BY <1>1, <1>2 DEF FirstLife
<1>3. CASE crashes = 0
  <2>1. up # "serving" /\ FirstBoot /\ SlotsInv /\ ConvoInv /\ todo = {} /\ Known = {}
    BY <1>3 DEF FirstLife, FirstBoot, LimitInv, Booted, Booting, BootLoad, BootResume, BootRecreate, BootReset,
                BootResetDone, BootServe, Step, At
  <2>2. /\ Known' = {} /\ todo' = {} /\ UNCHANGED saveVars /\ UNCHANGED <<minted, handed>>
        /\ \A w \in Workers : pc'[w] = pc[w] /\ arg'[w] = arg[w] /\ convo'[w] = convo[w]
    <3>1. CASE BootLoad
      BY <2>1, <3>1, ManagerAssumption DEF BootLoad, FirstBoot, memVars, Known, callVars, boundVars, histVars, GoTo
    <3>2. CASE BootReset
      BY <2>1, <3>2 DEF BootReset, MutateAndPersist, Known, bootVars, callVars, boundVars, histVars
    <3>3. CASE BootResetDone \/ BootServe
      <4>1. metas' = metas /\ todo' = todo /\ UNCHANGED saveVars /\ UNCHANGED <<minted, handed, arg, convo>>
        BY <3>3 DEF BootResetDone, BootServe, memVars, bootVars, callVars, boundVars, histVars
      <4>2. \A w \in Workers : pc'[w] = pc[w]
        BY <3>3, ManagerAssumption DEF BootResetDone, BootServe, Step, GoTo, TypeOK, TypeCalls, Goroutines
      <4> QED BY <2>1, <4>1, <4>2 DEF Known
    <3> QED BY <2>1, <3>1, <3>2, <3>3 DEF Booting, BootResume, BootRecreate, IsNext
  <2>3. FirstBoot'
    BY <2>1, <2>2 DEF FirstBoot, saveVars, File!Stored, Returned
  <2>4. SlotsInv' /\ ConvoInv'
    BY <2>1, <2>2 DEF SlotsInv, ConvoInv, Minted
  <2> QED BY <1>1, <2>3, <2>4 DEF FirstLife
<1> QED BY <1>2, <1>3

LEMMA OtherFirst ==
  ASSUME TypeOK, crashes \in Nat, FirstLife,
         \/ \E w \in Goroutines : SaveStep(w)
         \/ \E s \in Sessions : UserExit(s)
         \/ ProcessGone \/ PodGone \/ UNCHANGED vars
  PROVE  crashes' \in Nat /\ FirstLife'
<1>1. ASSUME NEW w \in Goroutines, SaveStep(w) PROVE crashes' \in Nat /\ FirstLife'
  <2>1. UNCHANGED <<up, metas, shells, pc, arg, convo, todo, minted, handed, acked, crashes>> /\ ~Returned(w)
    BY <1>1 DEF SaveStep, File!Steps, File!Open, File!Write, File!Rename, File!Clean, File!At, Returned,
                memVars, bootVars, callVars, boundVars, histVars
  <2> QED BY <2>1 DEF FirstLife, FirstBoot, SlotsInv, ConvoInv, Creates, Minted, Known
<1>2. ASSUME NEW s \in Sessions, UserExit(s) PROVE crashes' \in Nat /\ FirstLife'
  <2>1. /\ Known' = Known \ {s} /\ shells' = shells \ {s} /\ \A t \in Known' : metas'[t] = metas[t]
        /\ UNCHANGED <<up, pc, arg, convo, todo, minted, handed, acked, crashes>> /\ UNCHANGED saveVars
    BY <1>2, Removed DEF UserExit, Known, bootVars, callVars
  <2> QED BY <2>1 DEF FirstLife, FirstBoot, SlotsInv, ConvoInv, Creates, Minted, saveVars, File!Stored, Returned
<1>3. CASE ProcessGone \/ PodGone
  BY <1>3 DEF ProcessGone, PodGone, Gone, FirstLife
<1>4. CASE UNCHANGED vars
  BY <1>4 DEF vars, memVars, bootVars, callVars, boundVars, histVars, saveVars, FirstLife, FirstBoot, SlotsInv,
              ConvoInv, Creates, Minted, Known, File!Stored, Returned
<1> QED BY <1>1, <1>2, <1>3, <1>4

LEMMA FirstLives == Spec => [](FirstLife)
<1>1. Init => TypeOK /\ LimitInv /\ crashes \in Nat /\ FirstLife
  BY TypeInit, LimitInit, FirstInit
<1>2. TypeOK /\ LimitInv /\ crashes \in Nat /\ FirstLife /\ [Next]_vars
      => (TypeOK /\ LimitInv /\ crashes \in Nat /\ FirstLife)'
  BY TypeStep, LimitStep, WorkerFirst, BootFirst, OtherFirst DEF Next
<1> QED BY <1>1, <1>2, PTL DEF Spec

\* Until the process first goes away, when no request is in progress every session
\* the server knows was reported to its creator and has a shell.
THEOREM SlotsCorrect == Spec => [](crashes = 0 => SlotsBacked)
<1>1. FirstLife => (crashes = 0 => SlotsBacked)
  BY DEF FirstLife, SlotsInv, Creates, SlotsBacked, Settled, At
<1> QED BY <1>1, FirstLives, PTL

\* Until the process first goes away, every caller of EnsureClaudeConvoID gets the
\* same id for a session.
THEOREM ConvoCorrect == Spec => [](crashes = 0 => OneConvo)
<1>1. TypeOK /\ FirstLife => (crashes = 0 => OneConvo)
  <2> SUFFICES ASSUME TypeOK, FirstLife, crashes = 0, NEW s \in Sessions PROVE Cardinality(handed[s]) <= 1
    BY DEF OneConvo
  <2>1. CASE handed[s] = {}
    BY <2>1, FS_EmptySet
  <2>2. CASE handed[s] # {}
    <3>1. PICK u : u \in handed[s]
      BY <2>2
    <3>2. \A v \in handed[s] : v = u
      BY <3>1 DEF FirstLife, ConvoInv
    <3>3. handed[s] = {u}
      BY <3>1, <3>2
    <3>4. Cardinality(handed[s]) = 1
      BY <3>3, FS_Singleton
    <3> QED BY <3>4
  <2> QED BY <2>1, <2>2
<1> QED BY <1>1, FirstLives, ManagerInvariant, PTL

-----------------------------------------------------------------------------
(* Requests one at a time: the inductive invariant *)

\* Requests come one at a time.
Serial == \A v, w \in Workers : v = w

\* Save has work to do for g.
Saving(g) == spc[g] \in {"open", "write", "rename"}

\* Places where a worker waits for its list to be saved, ...
Savers == {"createReturn", "return", "convoReturn", "closeReturn"}
\* ... has reserved a session and not reported it, has no shell for it yet, ...
Unshelled == {"startDirs", "startTmux", "unreserve", "register"}
Reserving == Unshelled \cup {"createSave", "createReturn"}
\* ... has forgotten one, or has changed the list and not saved it.
Closed == {"closeShell", "closeDir", "closeSave", "closeReturn"}
Unsaved == {"closeShell", "closeDir", "closeSave", "recapSave"}

\* Some worker is at one of these places on behalf of s.
Doing(s, P) == \E w \in Workers : pc[w] \in P /\ arg[w] = s

\* Only one goroutine saves, into a file that nobody else touches.
SavesInv ==
  /\ \A w \in Workers : ~Returned(w) => pc[w] \in Savers
  /\ ~Returned(Boot) => pc[Boot] = "reset"
  /\ tmp # None => tmp # final
  /\ File!Stored \in MetaLists \cup {None}
  /\ \A g \in Goroutines :
       /\ spc[g] = "write" => tmp # None /\ fd[g] = tmp /\ content[tmp] = Empty
       /\ spc[g] = "rename" => tmp # None /\ content[tmp] = want[g]

\* Nothing is known or stored that was not created here.
MintInv ==
  /\ Known \cup DOMAIN loaded \cup StoredIds \cup acked \cup notified \cup omitted \subseteq Minted
  /\ \A g \in Goroutines : Saving(g) => DOMAIN want[g] \subseteq Minted
  /\ \A w \in Workers : pc[w] \in Reserving \cup Closed => arg[w] \in Minted

\* Reported and nobody closed it.
Kept == acked \ closing

\* A session that is kept is on disk or was omitted, and the server knows it, or will
\* before it serves, unless an earlier boot had omitted it.  Those that are lost are
\* never met again.
AckInv ==
  /\ Kept \subseteq StoredIds \cup omitted /\ StoredIds \cap omitted = {}
  /\ Known \cap Lost = {} /\ \A g \in Goroutines : Saving(g) => DOMAIN want[g] \cap Lost = {}
  /\ up = "boot" => Kept \subseteq Known \cup todo \cup Lost
  /\ up = "serving" => todo = {} /\ Kept \subseteq Known \cup Lost
  /\ \A g \in Goroutines : Saving(g) => Kept \subseteq DOMAIN want[g] \cup todo \cup Lost
  /\ \A w \in Workers :
       /\ pc[w] \in Reserving => arg[w] \in (Known \cup closing) \ acked
       /\ pc[w] = "createReturn" => /\ Saving(w) => arg[w] \in DOMAIN want[w] \cup closing
                                    /\ ~Saving(w) /\ saved[w] => arg[w] \in StoredIds \cup closing

\* What was closed is neither known, nor alive, nor in a list that is being saved.
ClosedInv ==
  /\ notified \cap (Known \cup tmux \cup StoredIds) = {}
  /\ up = "boot" => notified \cap todo = {}
  /\ \A g \in Goroutines : Saving(g) => notified \cap DOMAIN want[g] = {}
  /\ \A w \in Workers :
       /\ pc[w] \in Reserving => arg[w] \notin notified
       /\ pc[w] \in Closed => arg[w] \notin Known
       /\ pc[w] \in Closed \ {"closeShell"} => arg[w] \notin tmux
       /\ pc[w] = "closeReturn" => /\ Saving(w) => arg[w] \notin DOMAIN want[w]
                                   /\ ~Saving(w) /\ saved[w] => arg[w] \notin StoredIds
  /\ \A s \in Known : s \in shells \/ s \notin tmux \/ Doing(s, Unshelled)

\* Memory, tmux and the directories agree, but for the request in progress.
AliveInv ==
  /\ up = "down" => shells = {}
  /\ up = "boot" => /\ shells = Known /\ tmux = live \cup Known /\ Known \subseteq dirs
                    /\ Known \cup todo = DOMAIN loaded
  /\ up = "serving" =>
       /\ \A s \in Sessions :
            /\ s \in shells <=> s \in Known /\ ~Doing(s, Unshelled)
            /\ s \in tmux <=> \/ s \in Known /\ ~Doing(s, {"startDirs", "startTmux"})
                              \/ Doing(s, {"rollback", "closeShell"})
            /\ s \in Known => s \in dirs \/ Doing(s, {"startDirs"})
       /\ \A w \in Workers : /\ pc[w] \in Unshelled => arg[w] \in Known
                             /\ pc[w] # "unreserve"
                             /\ pc[w] \in {"rollback"} \cup Closed => arg[w] \notin Known

\* What is on disk, or about to be, is what memory knows.
StoredInv ==
  /\ up = "serving" =>
       /\ \A w \in Workers : Saving(w) => want[w] = metas
       /\ \A w \in Workers : pc[w] = "createReturn" /\ ~Saving(w) => saved[w]
       /\ (\A w \in Workers : ~Saving(w) /\ pc[w] \notin Unsaved)
          => \A s \in StoredIds : s \in Known /\ File!Stored[s] = metas[s]
       /\ (\A w \in Workers : ~Saving(w) /\ pc[w] \notin Unshelled \cup {"createSave"})
          => Known \subseteq StoredIds \cup omitted
  /\ up = "boot" =>
       /\ Known \cup todo \subseteq StoredIds \cup omitted
       /\ Known \cap todo = {}
       /\ Saving(Boot) => want[Boot] = metas
       /\ ~Saving(Boot) => \A s \in StoredIds : \/ s \in Known /\ File!Stored[s] = metas[s]
                                                \/ s \in todo /\ File!Stored[s] = loaded[s]

\* tmux may refuse to start a session, or a bash may exit by itself.
Fallible == TmuxFails \/ MayExit

SerialInv ==
  /\ SavesInv /\ MintInv /\ AckInv
  /\ ~TmuxFails => ClosedInv
  /\ ~Fallible => AliveInv
  /\ ~(Fallible \/ IOFails) => StoredInv

-----------------------------------------------------------------------------
(* Facts about the definitions, and the initial states *)

LEMMA DoingFacts ==
  ASSUME NEW w, Workers = {w}, NEW s, NEW P
  PROVE  /\ Doing(s, P) <=> pc[w] \in P /\ arg[w] = s
         /\ Doing(s, P)' <=> pc'[w] \in P /\ arg'[w] = s
BY DEF Doing

LEMMA StoredFacts ==
  ASSUME UNCHANGED <<final, content>> PROVE UNCHANGED <<File!Stored, StoredIds>>
BY DEF File!Stored, StoredIds

LEMMA SerialInit == Init => SerialInv
<1> SUFFICES ASSUME Init PROVE SerialInv
  OBVIOUS
<1>1. Known = {} /\ DOMAIN loaded = {} /\ \A g \in Goroutines : Returned(g) /\ ~Saving(g)
  BY DEF Init, File!Init, Known, Returned, Saving
<1>2. File!Stored = None /\ StoredIds = {}
  BY DEF Init, File!Init, File!Stored, StoredIds
<1>3. pc = [w \in Goroutines |-> "idle"] /\ \A w \in Workers : w \in Goroutines
  BY DEF Init, Goroutines
<1>4. Boot \in Goroutines
  BY DEF Goroutines
<1>5. SavesInv
  BY <1>1, <1>2, <1>3, <1>4 DEF Init, File!Init, SavesInv, Returned
<1>6. MintInv
  BY <1>1, <1>2, <1>3 DEF Init, MintInv, Reserving, Unshelled, Closed
<1>7. AckInv
  BY <1>1, <1>2, <1>3 DEF Init, AckInv, Kept, Reserving, Unshelled
<1>8. ClosedInv
  BY <1>1, <1>2, <1>3 DEF Init, ClosedInv, Reserving, Unshelled, Closed
<1>9. AliveInv /\ StoredInv
  BY DEF Init, AliveInv, StoredInv
<1> QED BY <1>5, <1>6, <1>7, <1>8, <1>9 DEF SerialInv

-----------------------------------------------------------------------------
(* Steps of Save *)

\* What a step of Save does to the file and to its caller.
LEMMA SaveEffect ==
  ASSUME TypeOK, LimitInv, SavesInv, Serial, NEW g \in Goroutines, SaveStep(g)
  PROVE  /\ ~Returned(g) /\ \A h \in Goroutines \ {g} : Returned(h) /\ Returned(h)'
         /\ \A h \in Goroutines \ {g} : saved'[h] = saved[h]
         /\ \/ /\ Saving(g) /\ Saving(g)' /\ want'[g] = want[g] /\ UNCHANGED <<File!Stored, saved>>
            \/ /\ Saving(g) /\ ~Saving(g)' /\ ~saved'[g] /\ IOFails /\ UNCHANGED File!Stored
            \/ /\ Saving(g) /\ ~Saving(g)' /\ saved'[g] /\ File!Stored' = want[g] /\ want[g] \in MetaLists
            \/ /\ ~Saving(g) /\ ~Saving(g)' /\ UNCHANGED <<File!Stored, saved>>
         /\ SavesInv'
<1>t. /\ spc \in [Goroutines -> {"idle", "open", "write", "rename", "clean"}]
      /\ want \in [Goroutines -> MetaLists \cup {None}] /\ saved \in [Goroutines -> BOOLEAN]
      /\ fd \in [Goroutines -> Inodes \cup {None}]
      /\ tmp \in Inodes \cup {None} /\ final \in Inodes \cup {None}
      /\ content \in [Inodes -> File!Content]
  BY DEF TypeOK, File!FileTypeOK
<1>g. Boot \in Goroutines /\ \A w \in Workers : w \in Goroutines /\ w # Boot
  BY ManagerAssumption DEF Goroutines
<1>1. ~Returned(g)
  BY DEF SaveStep, File!Steps, File!Open, File!Write, File!Rename, File!Clean, File!At, Returned
<1>2. \A h \in Goroutines \ {g} : Returned(h)
  BY <1>1 DEF SavesInv, Savers, Serial, LimitInv, Booted, At, Goroutines
<1>3. UNCHANGED <<pc, up>> /\ \A h \in Goroutines \ {g} : spc'[h] = spc[h] /\ saved'[h] = saved[h]
  BY <1>t DEF SaveStep, bootVars, File!Steps, File!Open, File!Write, File!Rename, File!Clean, File!At, File!GoTo
<1>4. want[g] \in MetaLists
  BY <1>1 DEF LimitInv, Returned
<1>p. /\ \A w \in Workers : ~Returned(w)' => pc'[w] \in Savers
      /\ ~Returned(Boot)' => pc'[Boot] = "reset"
  BY <1>1, <1>2, <1>3, <1>g DEF SavesInv, Returned
<1>n. None \notin Inodes /\ Empty \notin MetaLists /\ Torn \notin MetaLists
  BY ManagerAssumption
<1>5. CASE File!Open(g)
  <2>1. PICK i \in Inodes : /\ tmp' = i /\ fd' = [fd EXCEPT ![g] = i] /\ i # final
                            /\ content' = [content EXCEPT ![i] = Empty]
    BY <1>5, <1>t, <1>n DEF File!Open, File!Used, SavesInv
  <2>2. /\ spc[g] = "open" /\ spc'[g] = "write" /\ UNCHANGED <<want, saved, final>>
    BY <1>5, <1>t DEF File!Open, File!At, File!GoTo
  <2>3. UNCHANGED File!Stored
    BY <2>1, <2>2, <1>t DEF File!Stored
  <2>4. SavesInv'
    BY <1>p, <1>2, <1>3, <1>t, <1>n, <2>1, <2>2, <2>3 DEF SavesInv, Returned
  <2> QED BY <1>1, <1>2, <1>3, <2>2, <2>3, <2>4 DEF Saving, Returned
<1>6. CASE File!Write(g)
  <2>1. /\ spc[g] = "write" /\ tmp # None /\ tmp # final /\ fd[g] = tmp /\ content[tmp] = Empty
        /\ UNCHANGED <<want, tmp, final>>
    BY <1>6 DEF File!Write, File!At, SavesInv
  <2>2. CASE content' = [content EXCEPT ![fd[g]] = want[g]] /\ spc' = [spc EXCEPT ![g] = "rename"] /\ saved' = saved
    <3>1. UNCHANGED File!Stored
      BY <2>1, <2>2, <1>t DEF File!Stored
    <3>2. SavesInv'
      BY <1>p, <1>2, <1>3, <1>t, <1>n, <2>1, <2>2, <3>1 DEF SavesInv, Returned
    <3> QED BY <1>1, <1>2, <1>3, <1>t, <2>1, <2>2, <3>1, <3>2 DEF Saving, Returned
  <2>3. CASE IOFails /\ spc' = [spc EXCEPT ![g] = "idle"] /\ saved' = [saved EXCEPT ![g] = FALSE] /\ content' = content
    <3>1. UNCHANGED File!Stored
      BY <2>1, <2>3 DEF File!Stored
    <3>2. SavesInv'
      BY <1>p, <1>2, <1>3, <1>t, <1>n, <2>1, <2>3, <3>1 DEF SavesInv, Returned
    <3> QED BY <1>1, <1>2, <1>3, <1>t, <2>1, <2>3, <3>1, <3>2 DEF Saving, Returned
  <2> QED BY <1>6, <2>1, <2>2, <2>3 DEF File!Write, File!Written, File!GoTo
<1>7. CASE File!Rename(g)
  <2>1. spc[g] = "rename" /\ tmp # None /\ content[tmp] = want[g] /\ tmp # final
    BY <1>7 DEF File!Rename, File!At, SavesInv
  <2>2. /\ final' = tmp /\ tmp' = None /\ content'[tmp] = content[tmp] /\ UNCHANGED <<want, fd>>
        /\ spc'[g] = "clean" /\ saved'[g] = TRUE
    BY <1>7, <2>1, <1>t DEF File!Rename, File!Free, File!GoTo
  <2>3. File!Stored' = want[g]
    BY <2>1, <2>2, <1>t DEF File!Stored
  <2>4. SavesInv'
    BY <1>p, <1>2, <1>3, <1>4, <1>t, <1>n, <2>1, <2>2, <2>3 DEF SavesInv, Returned
  <2> QED BY <1>1, <1>2, <1>3, <1>4, <2>1, <2>2, <2>3, <2>4 DEF Saving, Returned
<1>8. CASE File!Clean(g)
  <2>1. /\ spc[g] = "clean" /\ tmp' = None /\ final' = final /\ saved' = saved /\ fd' = fd /\ spc'[g] = "idle"
        /\ final # None => content'[final] = content[final]
    BY <1>8, <1>t DEF File!Clean, File!At, File!GoTo, File!Free, SavesInv
  <2>2. UNCHANGED File!Stored
    BY <2>1 DEF File!Stored
  <2>3. SavesInv'
    BY <1>p, <1>2, <1>3, <1>t, <1>n, <2>1, <2>2 DEF SavesInv, Returned
  <2> QED BY <1>1, <1>2, <1>3, <2>1, <2>2, <2>3 DEF Saving, Returned
<1> QED BY <1>5, <1>6, <1>7, <1>8 DEF SaveStep, File!Steps

LEMMA SaveSerial ==
  ASSUME TypeOK, LimitInv, SerialInv, Serial, NEW g \in Goroutines, SaveStep(g)
  PROVE  SerialInv'
<1> DEFINE effect ==
       \/ Saving(g) /\ Saving(g)' /\ want'[g] = want[g] /\ UNCHANGED <<File!Stored, saved>>
       \/ Saving(g) /\ ~Saving(g)' /\ ~saved'[g] /\ IOFails /\ UNCHANGED File!Stored
       \/ Saving(g) /\ ~Saving(g)' /\ saved'[g] /\ File!Stored' = want[g] /\ want[g] \in MetaLists
       \/ ~Saving(g) /\ ~Saving(g)' /\ UNCHANGED <<File!Stored, saved>>
<1>1. ~Returned(g) /\ effect /\ SavesInv'
      /\ \A h \in Goroutines \ {g} : Returned(h) /\ Returned(h)' /\ saved'[h] = saved[h]
  BY SaveEffect DEF SerialInv
<1>2. \A h \in Goroutines \ {g} : ~Saving(h) /\ ~Saving(h)'
  BY <1>1 DEF Returned, Saving
<1>3. UNCHANGED <<metas, shells, tmux, dirs, pc, arg, up, loaded, todo, live, minted, crashes, acked, closing, notified>>
  BY DEF SaveStep, memVars, worldVars, callVars, bootVars, boundVars
<1>4. Known' = Known /\ Minted' = Minted /\ Kept' = Kept
  BY <1>3 DEF Known, Minted, Kept
<1>5. /\ File!Stored' = File!Stored => StoredIds' = StoredIds
      /\ File!Stored' = want[g] /\ want[g] \in MetaLists => StoredIds' = DOMAIN want[g]
  BY ManagerAssumption DEF StoredIds
<1>o. /\ omitted' = (omitted \cup todo) \ StoredIds'
      /\ Lost' = Lost \ StoredIds'
  <2>1. omitted' = (omitted \cup todo) \ StoredIds'
    BY DEF SaveStep
  <2>2. todo \subseteq DOMAIN loaded
    BY DEF TypeOK, TypeBoot
  <2> QED BY <1>3, <2>1, <2>2 DEF Lost
<1>6. \A s, P : Doing(s, P)' <=> Doing(s, P)
  BY <1>3 DEF Doing
<1>g. Boot \in Goroutines /\ Boot \notin Workers /\ \A w \in Workers : w \in Goroutines
  BY ManagerAssumption DEF Goroutines
<1>7. MintInv'
  <2>1. omitted' \subseteq omitted \cup DOMAIN loaded
    BY <1>o DEF TypeOK, TypeBoot
  <2> QED BY <1>1, <1>2, <1>3, <1>4, <1>5, <1>g, <2>1 DEF SerialInv, MintInv
<1>u. /\ up = "serving" => g \in Workers /\ Workers = {g}
      /\ up = "boot" => g = Boot
      /\ up \in {"boot", "serving"}
  BY <1>1, <1>g DEF TypeOK, TypeMemory, SerialInv, SavesInv, LimitInv, Booted, At, Serial, Savers, Goroutines
<1>8. AckInv'
  <2>0. /\ \A h \in Goroutines \ {g} : ~Saving(h) /\ ~Saving(h)' /\ saved'[h] = saved[h]
        /\ AckInv /\ up' = up /\ (up = "serving" => todo = {}) /\ todo' = todo /\ pc' = pc /\ arg' = arg
        /\ Lost \subseteq omitted
    BY <1>1, <1>2, <1>3 DEF SerialInv, AckInv, Lost
  <2>1. CASE File!Stored' = want[g] /\ want[g] \in MetaLists /\ Saving(g) /\ ~Saving(g)'
    <3>1. StoredIds' = DOMAIN want[g] /\ \A h \in Goroutines : ~Saving(h)'
      BY <1>5, <2>0, <2>1
    <3>2. Kept \subseteq DOMAIN want[g] \cup todo \cup Lost /\ DOMAIN want[g] \cap Lost = {}
      BY <2>0, <2>1 DEF AckInv
    <3>3. Kept' \subseteq StoredIds' \cup omitted' /\ StoredIds' \cap omitted' = {}
      BY <1>4, <1>o, <2>0, <3>1, <3>2
    <3>4. Lost' = Lost
      BY <1>o, <3>1, <3>2
    <3>5. ASSUME NEW w \in Workers, pc[w] = "createReturn" PROVE arg[w] \in StoredIds' \cup closing
      <4>1. w = g
        BY <1>g, <1>u, <3>5 DEF LimitInv, Booted, At
      <4> QED BY <2>0, <2>1, <3>1, <3>5, <4>1 DEF AckInv
    <3>6. \A w \in Workers : pc[w] \in Reserving => arg[w] \in (Known \cup closing) \ acked
      BY <2>0 DEF AckInv
    <3>7. /\ Known' \cap Lost' = {} /\ (up' = "boot" => Kept' \subseteq Known' \cup todo' \cup Lost')
          /\ (up' = "serving" => todo' = {} /\ Kept' \subseteq Known' \cup Lost')
      BY <1>4, <2>0, <3>4 DEF AckInv
    <3> QED BY <1>3, <1>4, <1>g, <2>0, <3>1, <3>3, <3>5, <3>6, <3>7 DEF AckInv
  <2>2. CASE UNCHANGED File!Stored /\ (Saving(g)' => Saving(g) /\ want'[g] = want[g])
             /\ (~Saving(g)' /\ saved'[g] => ~Saving(g) /\ saved[g])
    <3>1. StoredIds' = StoredIds /\ Lost' = Lost
      <4>1. StoredIds' = StoredIds
        BY <1>5, <2>2
      <4> QED BY <1>o, <2>0, <4>1 DEF AckInv
    <3>2. Kept' \subseteq StoredIds' \cup omitted' /\ StoredIds' \cap omitted' = {}
      BY <1>4, <1>o, <2>0, <3>1 DEF AckInv
    <3>3. \A h \in Goroutines : Saving(h)' => Saving(h) /\ want'[h] = want[h]
      BY <2>0, <2>2
    <3>4. \A w \in Workers : ~Saving(w)' /\ saved'[w] => ~Saving(w) /\ saved[w]
      BY <1>g, <2>0, <2>2
    <3>5. \A h \in Goroutines : Saving(h)' => /\ DOMAIN want'[h] \cap Lost' = {}
                                              /\ Kept' \subseteq DOMAIN want'[h] \cup todo' \cup Lost'
      BY <1>4, <2>0, <3>1, <3>3 DEF AckInv
    <3>6. ASSUME NEW w \in Workers, pc[w] = "createReturn"
          PROVE  /\ Saving(w)' => arg[w] \in DOMAIN want'[w] \cup closing
                 /\ ~Saving(w)' /\ saved'[w] => arg[w] \in StoredIds' \cup closing
      BY <1>g, <2>0, <3>1, <3>3, <3>4, <3>6 DEF AckInv
    <3> QED BY <1>3, <1>4, <2>0, <3>1, <3>2, <3>5, <3>6 DEF AckInv
  <2> QED BY <1>1, <2>1, <2>2
<1>9. ~TmuxFails => ClosedInv'
  <2>1. CASE Saving(g) /\ Saving(g)' /\ want'[g] = want[g] /\ UNCHANGED <<File!Stored, saved>>
    BY <2>1, <1>1, <1>2, <1>3, <1>4, <1>5, <1>6, <1>u, <1>g DEF SerialInv, ClosedInv
  <2>2. CASE Saving(g) /\ ~Saving(g)' /\ ~saved'[g] /\ IOFails /\ UNCHANGED File!Stored
    BY <2>2, <1>1, <1>2, <1>3, <1>4, <1>5, <1>6, <1>u, <1>g DEF SerialInv, ClosedInv
  <2>3. CASE Saving(g) /\ ~Saving(g)' /\ saved'[g] /\ File!Stored' = want[g] /\ want[g] \in MetaLists
    <3>1. \A h \in Goroutines : ~Saving(h)'
      BY <1>2, <2>3
    <3>2. StoredIds' = DOMAIN want[g]
      BY <1>5, <2>3
    <3>3. ~TmuxFails => notified \cap DOMAIN want[g] = {}
      BY <2>3 DEF SerialInv, ClosedInv
    <3>4. ~TmuxFails => \A w \in Workers : pc[w] = "closeReturn" => arg[w] \notin DOMAIN want[g]
      <4>1. \A w \in Workers : pc[w] = "closeReturn" => w = g
        BY <1>g, <1>u DEF LimitInv, Booted, At
      <4> QED BY <4>1, <2>3 DEF SerialInv, ClosedInv
    <3> QED BY <1>3, <1>4, <1>6, <1>g, <3>1, <3>2, <3>3, <3>4 DEF SerialInv, ClosedInv
  <2>4. CASE ~Saving(g) /\ ~Saving(g)' /\ UNCHANGED <<File!Stored, saved>>
    BY <2>4, <1>1, <1>2, <1>3, <1>4, <1>5, <1>6, <1>u, <1>g DEF SerialInv, ClosedInv
  <2> QED BY <1>1, <2>1, <2>2, <2>3, <2>4
<1>10. ~Fallible => AliveInv'
  BY <1>3, <1>4, <1>6 DEF SerialInv, AliveInv
<1>11. ~(Fallible \/ IOFails) => StoredInv'
  <2>1. SUFFICES ASSUME ~(Fallible \/ IOFails) PROVE StoredInv'
    OBVIOUS
  <2>2. StoredInv /\ (up = "serving" => todo = {})
    BY <2>1 DEF SerialInv, AckInv
  <2>3. CASE File!Stored' = want[g] /\ want[g] \in MetaLists /\ Saving(g) /\ ~Saving(g)' /\ saved'[g]
    <3>1. StoredIds' = DOMAIN want[g] /\ \A h \in Goroutines : ~Saving(h)'
      BY <1>2, <1>5, <2>3
    <3>2. want[g] = metas
      BY <1>u, <2>2, <2>3 DEF StoredInv
    <3>3. StoredIds' = Known /\ (\A s \in StoredIds' : File!Stored'[s] = metas[s])
      BY <2>3, <3>1, <3>2 DEF Known
    <3>4. todo \subseteq StoredIds' \cup omitted'
      BY <1>o
    <3> QED BY <1>1, <1>3, <1>4, <1>g, <1>u, <2>2, <2>3, <3>1, <3>3, <3>4 DEF StoredInv
  <2>4. CASE UNCHANGED File!Stored /\ (Saving(g)' <=> Saving(g)) /\ (Saving(g) => want'[g] = want[g])
             /\ saved'[g] = saved[g]
    <3>1. StoredIds' = StoredIds
      BY <1>5, <2>4
    <3>2. \A P : P \subseteq StoredIds \cup omitted => P \subseteq StoredIds' \cup omitted'
      BY <1>o, <3>1
    <3>3. \A h \in Goroutines : /\ Saving(h)' <=> Saving(h)
                                /\ Saving(h) => want'[h] = want[h]
                                /\ saved'[h] = saved[h]
      BY <1>1, <1>2, <2>4
    <3>4. up = "boot" => Known \cup todo \subseteq StoredIds' \cup omitted'
      BY <2>2, <3>2 DEF StoredInv
    <3>5. up = "serving" /\ (\A w \in Workers : ~Saving(w) /\ pc[w] \notin Unshelled \cup {"createSave"})
            => Known \subseteq StoredIds' \cup omitted'
      BY <2>2, <3>2 DEF StoredInv
    <3>6. /\ up = "boot" => Known \cup todo \subseteq StoredIds' \cup omitted' /\ Known \cap todo = {}
          /\ up = "boot" /\ Saving(Boot)' => want'[Boot] = metas
      BY <1>g, <2>2, <3>3, <3>4 DEF StoredInv
    <3>7. up = "boot" /\ ~Saving(Boot)' =>
            \A s \in StoredIds' : \/ s \in Known /\ File!Stored'[s] = metas[s]
                                  \/ s \in todo /\ File!Stored'[s] = loaded[s]
      BY <1>g, <2>2, <2>4, <3>1, <3>3 DEF StoredInv
    <3>8. up = "serving" => /\ \A w \in Workers : Saving(w)' => want'[w] = metas
                            /\ \A w \in Workers : pc[w] = "createReturn" /\ ~Saving(w)' => saved'[w]
      BY <1>g, <2>2, <3>3 DEF StoredInv
    <3>9. up = "serving" /\ (\A w \in Workers : ~Saving(w)' /\ pc[w] \notin Unsaved)
            => \A s \in StoredIds' : s \in Known /\ File!Stored'[s] = metas[s]
      BY <1>g, <2>2, <2>4, <3>1, <3>3 DEF StoredInv
    <3>10. \A w \in Workers : Saving(w)' <=> Saving(w)
      BY <1>g, <3>3
    <3> QED BY <1>3, <1>4, <3>5, <3>6, <3>7, <3>8, <3>9, <3>10 DEF StoredInv
  <2> QED BY <1>1, <2>1, <2>3, <2>4
<1> QED BY <1>1, <1>7, <1>8, <1>9, <1>10, <1>11 DEF SerialInv, Fallible

-----------------------------------------------------------------------------
(* Steps of the worker *)

\* What a step of the only worker finds, and what it leaves alone.
View(w) ==
  /\ Workers = {w} /\ w \in Goroutines /\ Boot \in Goroutines /\ Boot # w
  /\ up = "serving" /\ up' = up
  /\ UNCHANGED <<crashes, loaded, todo, live, saved, omitted>> /\ Lost' = Lost
  /\ \A g \in Goroutines : Returned(g) /\ ~Saving(g)
  /\ \A g \in Goroutines \ {w} : Returned(g)' /\ ~Saving(g)'
  /\ UNCHANGED <<File!Stored, StoredIds>>
  /\ \/ ~Saving(w)'
     \/ Saving(w)' /\ want'[w] = metas' /\ DOMAIN want'[w] = Known'
  /\ SavesInv'

LEMMA ViewFacts ==
  ASSUME TypeOK, LimitInv, SavesInv, Serial, NEW w \in Workers, Creating(w) \/ Changing(w) \/ Closing(w)
  PROVE  View(w) /\ (UNCHANGED saveVars => ~Saving(w)') /\ (Persist(w, metas') => Saving(w)')
<1>g. w \in Goroutines /\ Boot \in Goroutines /\ Boot # w /\ Workers = {w}
  BY ManagerAssumption DEF Goroutines, Serial
<1>1. up = "serving" /\ up' = up /\ crashes' = crashes
  BY WorkerServes
<1>2. UNCHANGED <<loaded, todo, live, omitted>> /\ Lost' = Lost
  BY DEF Lost, Creating, Changing, Closing, bootVars, histVars, CreateReserve, StartDirs, StartTmux, CreateUnreserve, Register,
     CreateSave, CreateReturn,
       CreateRollback, RecapScan, RecapAbsent, RecapReserve, RecapRefused, RecapTag, RecapSave,
       Return, SetOption, EnsureConvo, ConvoSet, ConvoReturn, CloseForget, OrphanForget,
       OrphansClosed, CloseShell, CloseDir, CloseSave, CloseReturn
<1>3. /\ Returned(w)
      /\ UNCHANGED saveVars \/ (Persist(w, metas') /\ pc'[w] \in Savers)
  BY <1>g DEF TypeOK, TypeCalls, Creating, Changing, Closing, memVars, MutateAndPersist, Request, Step, At,
     GoTo, SavesInv, Savers, CreateReserve, StartDirs, StartTmux, CreateUnreserve, Register, CreateSave,
     CreateReturn,
       CreateRollback, RecapScan, RecapAbsent, RecapReserve, RecapRefused, RecapTag, RecapSave,
       Return, SetOption, EnsureConvo, ConvoSet, ConvoReturn, CloseForget, OrphanForget,
       OrphansClosed, CloseShell, CloseDir, CloseSave, CloseReturn
<1>4. pc'[Boot] = pc[Boot]
  BY <1>g DEF TypeOK, TypeCalls, Creating, Changing, Closing, Request, Step, GoTo, CreateReserve, StartDirs,
     StartTmux, CreateUnreserve, Register, CreateSave, CreateReturn,
       CreateRollback, RecapScan, RecapAbsent, RecapReserve, RecapRefused, RecapTag, RecapSave,
       Return, SetOption, EnsureConvo, ConvoSet, ConvoReturn, CloseForget, OrphanForget,
       OrphansClosed, CloseShell, CloseDir, CloseSave, CloseReturn
<1>5. \A g \in Goroutines : Returned(g)
  BY <1>g, <1>1, <1>3 DEF SavesInv, LimitInv, Booted, Goroutines
<1>6. \A g \in Goroutines : ~Saving(g)
  BY <1>5 DEF Returned, Saving
<1>t. spc \in [Goroutines -> {"idle", "open", "write", "rename", "clean"}] /\ want \in [Goroutines -> MetaLists \cup {None}]
  BY DEF TypeOK, File!FileTypeOK
<1>7. CASE UNCHANGED saveVars
  <2>1. UNCHANGED <<spc, want, saved, tmp, fd, final, content>>
    BY <1>7 DEF saveVars
  <2>2. UNCHANGED <<File!Stored, StoredIds>>
    BY <2>1, StoredFacts
  <2>3. SavesInv'
    BY <1>g, <1>5, <2>1, <2>2 DEF SavesInv, Returned
  <2>4. ~Persist(w, metas')
    BY <1>7, <1>g, <1>t, <2>1, <1>5 DEF Persist, File!Save, File!At, File!GoTo
  <2>5. \A g \in Goroutines : Returned(g)' /\ ~Saving(g)'
    BY <2>1, <1>5, <1>6 DEF Returned, Saving
  <2> QED BY <1>g, <1>1, <1>2, <1>5, <1>6, <2>1, <2>2, <2>3, <2>4, <2>5 DEF View
<1>8. CASE Persist(w, metas') /\ pc'[w] \in Savers
  <2>1. /\ UNCHANGED <<saved, tmp, fd, final, content>>
        /\ spc' = [spc EXCEPT ![w] = "open"] /\ want' = [want EXCEPT ![w] = metas']
    BY <1>8 DEF Persist, File!Save, File!GoTo, File!diskVars
  <2>2. UNCHANGED <<File!Stored, StoredIds>>
    BY <2>1, StoredFacts
  <2>3. \A g \in Goroutines \ {w} : Returned(g)' /\ ~Saving(g)'
    BY <2>1, <1>t, <1>5, <1>6 DEF Returned, Saving
  <2>4. Saving(w)' /\ ~Returned(w)' /\ spc'[w] = "open" /\ want'[w] = metas'
    BY <2>1, <1>t, <1>g DEF Returned, Saving
  <2>5. SavesInv'
    BY <1>8, <1>g, <1>t, <1>5, <2>1, <2>2, <2>3, <2>4 DEF SavesInv, Returned
  <2>6. spc' # spc
    BY <2>4, <1>5, <1>g DEF Returned
  <2>7. DOMAIN want'[w] = Known'
    BY <2>4 DEF Known
  <2> QED BY <1>g, <1>1, <1>2, <1>5, <1>6, <2>1, <2>2, <2>3, <2>4, <2>5, <2>6, <2>7 DEF View, saveVars
<1> QED BY <1>3, <1>7, <1>8

\* Places outside creations and closings.
Neutral == {"idle", "recapCreate", "recapOrphans", "return", "convoSet", "convoReturn"}

\* One lemma per step: what the step does, then each part of the invariant.
LEMMA ReserveSerial ==
  ASSUME TypeOK, TypeOK', LimitInv, SerialInv, Serial, NEW w \in Workers, View(w), NEW s \in Sessions,
         CreateReserve(w, s) \/ RecapReserve(w, s), ~Saving(w)'
  PROVE  SerialInv'
<1>t. pc \in [Goroutines -> Places] /\ arg \in [Goroutines -> Sessions \cup {None}] /\ w \in Goroutines
      /\ minted \in Seq(Sessions) /\ metas \in MetaLists /\ Known \subseteq Sessions
      /\ (OnSession(w) => arg[w] \in Sessions)
  BY MetaFacts DEF TypeOK, TypeCalls, TypeBounds, TypeMemory, View
<1>1. /\ s \notin Minted /\ Minted' = Minted \cup {s} /\ arg'[w] = s
      /\ Known' = Known \cup {s} /\ \A t \in Known \ {s} : metas'[t] = metas[t]
      /\ pc[w] \in {"idle", "recapCreate"} /\ pc'[w] = "startDirs"
      /\ UNCHANGED <<shells, tmux, dirs, acked, closing, notified>>
  <2>1. /\ metas' = With(s, NewMeta) /\ minted' = Append(minted, s) /\ s \notin Minted /\ arg'[w] = s
        /\ pc[w] \in {"idle", "recapCreate"} /\ pc'[w] = "startDirs"
        /\ UNCHANGED <<shells, tmux, dirs, acked, closing, notified>>
    BY <1>t DEF CreateReserve, RecapReserve, Reserve, Request, Step, At, GoTo, worldVars, histVars, Minted, Ids
  <2>2. Minted' = Minted \cup {s}
    BY <2>1, <1>t, IdsAppend DEF Minted
  <2> QED BY <2>1, <2>2, Added
<1>2. Kept' = acked' \ closing' /\ Kept = acked \ closing
  BY DEF Kept
<1>3. MintInv'
  BY <1>1, <1>2, <1>t DEF View, SerialInv, MintInv, Reserving, Unshelled, Closed
<1>4. AckInv'
  <2>1. s \notin Lost
    BY <1>1 DEF SerialInv, MintInv, Lost
  <2> QED BY <1>1, <1>2, <1>t, <2>1 DEF View, SerialInv, MintInv, AckInv, Reserving, Unshelled, Closed
<1>5. ~TmuxFails => ClosedInv'
  BY <1>1, <1>2, <1>t, DoingFacts DEF View, SerialInv, MintInv, ClosedInv, Reserving, Unshelled, Closed
<1>6. ~Fallible => AliveInv'
  BY <1>1, <1>2, <1>t, DoingFacts DEF View, SerialInv, MintInv, AliveInv, Unshelled, Closed, Fallible
<1>7. ~(Fallible \/ IOFails) => StoredInv'
  BY <1>1, <1>2, <1>t DEF View, SerialInv, StoredInv, MintInv, AliveInv, Reserving, Unshelled, Closed, Unsaved,
     Fallible
<1> QED BY <1>3, <1>4, <1>5, <1>6, <1>7 DEF View, SerialInv, Fallible

LEMMA StartDirsSerial ==
  ASSUME TypeOK, TypeOK', LimitInv, SerialInv, Serial, NEW w \in Workers, View(w), StartDirs(w), ~Saving(w)'
  PROVE  SerialInv'
<1>t. pc \in [Goroutines -> Places] /\ arg \in [Goroutines -> Sessions \cup {None}] /\ w \in Goroutines
      /\ minted \in Seq(Sessions) /\ metas \in MetaLists /\ Known \subseteq Sessions
      /\ (OnSession(w) => arg[w] \in Sessions)
  BY MetaFacts DEF TypeOK, TypeCalls, TypeBounds, TypeMemory, View
<1>1. /\ pc[w] = "startDirs" /\ pc'[w] = "startTmux" /\ dirs' = dirs \cup {arg[w]}
      /\ UNCHANGED <<metas, shells, tmux, arg, minted, acked, closing, notified>>
      /\ Known' = Known /\ Minted' = Minted
  BY <1>t DEF StartDirs, Known, Minted, memVars, worldVars, callVars, bootVars, boundVars, histVars, Request,
     Step, At, GoTo
<1>2. Kept' = acked' \ closing' /\ Kept = acked \ closing
  BY DEF Kept
<1>3. MintInv'
  BY <1>1, <1>2, <1>t DEF View, SerialInv, MintInv, Reserving, Unshelled, Closed
<1>4. AckInv'
  BY <1>1, <1>2, <1>t DEF View, SerialInv, MintInv, AckInv, Reserving, Unshelled, Closed
<1>5. ~TmuxFails => ClosedInv'
  BY <1>1, <1>2, <1>t, DoingFacts DEF View, SerialInv, MintInv, ClosedInv, Reserving, Unshelled, Closed
<1>6. ~Fallible => AliveInv'
  BY <1>1, <1>2, <1>t, DoingFacts DEF View, SerialInv, MintInv, AliveInv, Unshelled, Closed, Fallible
<1>7. ~(Fallible \/ IOFails) => StoredInv'
  BY <1>1, <1>2, <1>t DEF View, SerialInv, StoredInv, MintInv, AliveInv, Reserving, Unshelled, Closed, Unsaved,
     Fallible
<1> QED BY <1>3, <1>4, <1>5, <1>6, <1>7 DEF View, SerialInv, Fallible

LEMMA StartedSerial ==
  ASSUME TypeOK, TypeOK', LimitInv, SerialInv, Serial, NEW w \in Workers, View(w), StartTmux(w),
         pc'[w] = "register", ~Saving(w)'
  PROVE  SerialInv'
<1>t. pc \in [Goroutines -> Places] /\ arg \in [Goroutines -> Sessions \cup {None}] /\ w \in Goroutines
      /\ minted \in Seq(Sessions) /\ metas \in MetaLists /\ Known \subseteq Sessions
      /\ (OnSession(w) => arg[w] \in Sessions)
  BY MetaFacts DEF TypeOK, TypeCalls, TypeBounds, TypeMemory, View
<1>1. /\ pc[w] = "startTmux" /\ tmux' = tmux \cup {arg[w]}
      /\ UNCHANGED <<metas, shells, dirs, arg, minted, acked, closing, notified>>
      /\ Known' = Known /\ Minted' = Minted
  BY <1>t DEF StartTmux, Known, Minted, memVars, worldVars, callVars, bootVars, boundVars, histVars, Request,
     Step, At, GoTo
<1>2. Kept' = acked' \ closing' /\ Kept = acked \ closing
  BY DEF Kept
<1>3. MintInv'
  BY <1>1, <1>2, <1>t DEF View, SerialInv, MintInv, Reserving, Unshelled, Closed
<1>4. AckInv'
  BY <1>1, <1>2, <1>t DEF View, SerialInv, MintInv, AckInv, Reserving, Unshelled, Closed
<1>5. ~TmuxFails => ClosedInv'
  BY <1>1, <1>2, <1>t, DoingFacts DEF View, SerialInv, MintInv, ClosedInv, Reserving, Unshelled, Closed
<1>6. ~Fallible => AliveInv'
  BY <1>1, <1>2, <1>t, DoingFacts DEF View, SerialInv, MintInv, AliveInv, Unshelled, Closed, Fallible
<1>7. ~(Fallible \/ IOFails) => StoredInv'
  BY <1>1, <1>2, <1>t DEF View, SerialInv, StoredInv, MintInv, AliveInv, Reserving, Unshelled, Closed, Unsaved,
     Fallible
<1> QED BY <1>3, <1>4, <1>5, <1>6, <1>7 DEF View, SerialInv, Fallible

LEMMA NotStartedSerial ==
  ASSUME TypeOK, TypeOK', LimitInv, SerialInv, Serial, NEW w \in Workers, View(w), StartTmux(w),
         pc'[w] # "register", ~Saving(w)'
  PROVE  SerialInv'
<1>t. pc \in [Goroutines -> Places] /\ arg \in [Goroutines -> Sessions \cup {None}] /\ w \in Goroutines
      /\ minted \in Seq(Sessions) /\ metas \in MetaLists /\ Known \subseteq Sessions
      /\ (OnSession(w) => arg[w] \in Sessions)
  BY MetaFacts DEF TypeOK, TypeCalls, TypeBounds, TypeMemory, View
<1>1. /\ pc[w] = "startTmux" /\ pc'[w] = "unreserve"
      /\ tmux' \in {tmux, tmux \cup {arg[w]}} /\ (TmuxFails \/ arg[w] \notin dirs)
      /\ UNCHANGED <<metas, shells, dirs, arg, minted, acked, closing, notified>>
      /\ Known' = Known /\ Minted' = Minted
  BY <1>t DEF StartTmux, Known, Minted, memVars, worldVars, callVars, bootVars, boundVars, histVars, Request,
     Step, At, GoTo
<1>2. Kept' = acked' \ closing' /\ Kept = acked \ closing
  BY DEF Kept
<1>3. MintInv'
  BY <1>1, <1>2, <1>t DEF View, SerialInv, MintInv, Reserving, Unshelled, Closed
<1>4. AckInv'
  BY <1>1, <1>2, <1>t DEF View, SerialInv, MintInv, AckInv, Reserving, Unshelled, Closed
<1>5. ~TmuxFails => ClosedInv'
  BY <1>1, <1>2, <1>t, DoingFacts DEF View, SerialInv, MintInv, ClosedInv, Reserving, Unshelled, Closed
<1>6. ~Fallible => AliveInv'
  BY <1>1, <1>2, <1>t, DoingFacts DEF View, SerialInv, MintInv, AliveInv, Unshelled, Closed, Fallible
<1>7. ~(Fallible \/ IOFails) => StoredInv'
  BY <1>1, <1>2, <1>t DEF View, SerialInv, StoredInv, MintInv, AliveInv, Reserving, Unshelled, Closed, Unsaved,
     Fallible
<1> QED BY <1>3, <1>4, <1>5, <1>6, <1>7 DEF View, SerialInv, Fallible

LEMMA UnreserveSerial ==
  ASSUME TypeOK, TypeOK', LimitInv, SerialInv, Serial, NEW w \in Workers, View(w), CreateUnreserve(w), ~Saving(w)'
  PROVE  SerialInv'
<1>t. pc \in [Goroutines -> Places] /\ arg \in [Goroutines -> Sessions \cup {None}] /\ w \in Goroutines
      /\ minted \in Seq(Sessions) /\ metas \in MetaLists /\ Known \subseteq Sessions
      /\ (OnSession(w) => arg[w] \in Sessions)
  BY MetaFacts DEF TypeOK, TypeCalls, TypeBounds, TypeMemory, View
<1>1. /\ pc[w] = "unreserve" /\ pc'[w] = "idle"
      /\ UNCHANGED <<shells, tmux, dirs, arg, minted, acked, closing, notified>>
      /\ Known' = Known \ {arg[w]} /\ (\A t \in Known' : metas'[t] = metas[t]) /\ Minted' = Minted
  BY <1>t, Removed DEF CreateUnreserve, Minted, memVars, worldVars, callVars, bootVars, boundVars, histVars,
     Request, Step, At, GoTo
<1>2. Kept' = acked' \ closing' /\ Kept = acked \ closing
  BY DEF Kept
<1>3. MintInv'
  BY <1>1, <1>2, <1>t DEF View, SerialInv, MintInv, Reserving, Unshelled, Closed
<1>4. AckInv'
  BY <1>1, <1>2, <1>t DEF View, SerialInv, MintInv, AckInv, Reserving, Unshelled, Closed
<1>5. ~TmuxFails => ClosedInv'
  BY <1>1, <1>2, <1>t, DoingFacts DEF View, SerialInv, MintInv, ClosedInv, Reserving, Unshelled, Closed
<1>6. ~Fallible => AliveInv'
  BY <1>1, <1>2, <1>t, DoingFacts DEF View, SerialInv, MintInv, AliveInv, Unshelled, Closed, Fallible
<1>7. ~(Fallible \/ IOFails) => StoredInv'
  BY <1>1, <1>2, <1>t DEF View, SerialInv, StoredInv, MintInv, AliveInv, Reserving, Unshelled, Closed, Unsaved,
     Fallible
<1> QED BY <1>3, <1>4, <1>5, <1>6, <1>7 DEF View, SerialInv, Fallible

LEMMA RegisterSerial ==
  ASSUME TypeOK, TypeOK', LimitInv, SerialInv, Serial, NEW w \in Workers, View(w), Register(w), ~Saving(w)'
  PROVE  SerialInv'
<1>t. pc \in [Goroutines -> Places] /\ arg \in [Goroutines -> Sessions \cup {None}] /\ w \in Goroutines
      /\ minted \in Seq(Sessions) /\ metas \in MetaLists /\ Known \subseteq Sessions
      /\ (OnSession(w) => arg[w] \in Sessions)
  BY MetaFacts DEF TypeOK, TypeCalls, TypeBounds, TypeMemory, View
<1>1. /\ pc[w] = "register" /\ pc'[w] = "createSave" /\ shells' = shells \cup {arg[w]}
      /\ UNCHANGED <<metas, tmux, dirs, arg, minted, acked, closing, notified>>
      /\ Known' = Known /\ Minted' = Minted
  BY <1>t DEF Register, Known, Minted, memVars, worldVars, callVars, bootVars, boundVars, histVars, Request,
     Step, At, GoTo
<1>2. Kept' = acked' \ closing' /\ Kept = acked \ closing
  BY DEF Kept
<1>3. MintInv'
  BY <1>1, <1>2, <1>t DEF View, SerialInv, MintInv, Reserving, Unshelled, Closed
<1>4. AckInv'
  BY <1>1, <1>2, <1>t DEF View, SerialInv, MintInv, AckInv, Reserving, Unshelled, Closed
<1>5. ~TmuxFails => ClosedInv'
  BY <1>1, <1>2, <1>t, DoingFacts DEF View, SerialInv, MintInv, ClosedInv, Reserving, Unshelled, Closed
<1>6. ~Fallible => AliveInv'
  BY <1>1, <1>2, <1>t, DoingFacts DEF View, SerialInv, MintInv, AliveInv, Unshelled, Closed, Fallible
<1>7. ~(Fallible \/ IOFails) => StoredInv'
  BY <1>1, <1>2, <1>t DEF View, SerialInv, StoredInv, MintInv, AliveInv, Reserving, Unshelled, Closed, Unsaved,
     Fallible
<1> QED BY <1>3, <1>4, <1>5, <1>6, <1>7 DEF View, SerialInv, Fallible

LEMMA CreateSaveSerial ==
  ASSUME TypeOK, TypeOK', LimitInv, SerialInv, Serial, NEW w \in Workers, View(w), CreateSave(w), Saving(w)'
  PROVE  SerialInv'
<1>t. pc \in [Goroutines -> Places] /\ arg \in [Goroutines -> Sessions \cup {None}] /\ w \in Goroutines
      /\ minted \in Seq(Sessions) /\ metas \in MetaLists /\ Known \subseteq Sessions
      /\ (OnSession(w) => arg[w] \in Sessions)
  BY MetaFacts DEF TypeOK, TypeCalls, TypeBounds, TypeMemory, View
<1>1. /\ pc[w] = "createSave" /\ pc'[w] = "createReturn"
      /\ UNCHANGED <<metas, shells, tmux, dirs, arg, minted, acked, closing, notified>>
      /\ Known' = Known /\ Minted' = Minted
  BY <1>t DEF CreateSave, Known, Minted, memVars, worldVars, callVars, bootVars, boundVars, histVars, Request,
     Step, At, GoTo
<1>2. Kept' = acked' \ closing' /\ Kept = acked \ closing
  BY DEF Kept
<1>3. MintInv'
  BY <1>1, <1>2, <1>t DEF View, SerialInv, MintInv, Reserving, Unshelled, Closed
<1>4. AckInv'
  BY <1>1, <1>2, <1>t DEF View, SerialInv, MintInv, AckInv, Reserving, Unshelled, Closed
<1>5. ~TmuxFails => ClosedInv'
  BY <1>1, <1>2, <1>t, DoingFacts DEF View, SerialInv, MintInv, ClosedInv, Reserving, Unshelled, Closed
<1>6. ~Fallible => AliveInv'
  BY <1>1, <1>2, <1>t, DoingFacts DEF View, SerialInv, MintInv, AliveInv, Unshelled, Closed, Fallible
<1>7. ~(Fallible \/ IOFails) => StoredInv'
  BY <1>1, <1>2, <1>t DEF View, SerialInv, StoredInv, MintInv, AliveInv, Reserving, Unshelled, Closed, Unsaved,
     Fallible
<1> QED BY <1>3, <1>4, <1>5, <1>6, <1>7 DEF View, SerialInv, Fallible

LEMMA ReportedSerial ==
  ASSUME TypeOK, TypeOK', LimitInv, SerialInv, Serial, NEW w \in Workers, View(w), CreateReturn(w), saved[w],
         ~Saving(w)'
  PROVE  SerialInv'
<1>t. pc \in [Goroutines -> Places] /\ arg \in [Goroutines -> Sessions \cup {None}] /\ w \in Goroutines
      /\ minted \in Seq(Sessions) /\ metas \in MetaLists /\ Known \subseteq Sessions
      /\ (OnSession(w) => arg[w] \in Sessions)
  BY MetaFacts DEF TypeOK, TypeCalls, TypeBounds, TypeMemory, View
<1>1. /\ pc[w] = "createReturn" /\ pc'[w] \in {"recapTag", "idle"} /\ acked' = acked \cup {arg[w]}
      /\ UNCHANGED <<metas, shells, tmux, dirs, arg, minted, closing, notified>>
      /\ Known' = Known /\ Minted' = Minted
  BY <1>t DEF CreateReturn, Known, Minted, memVars, worldVars, callVars, bootVars, boundVars, histVars, Request,
     Step, At, GoTo
<1>2. Kept' = acked' \ closing' /\ Kept = acked \ closing
  BY DEF Kept
<1>3. MintInv'
  BY <1>1, <1>2, <1>t DEF View, SerialInv, MintInv, Reserving, Unshelled, Closed
<1>4. AckInv'
  BY <1>1, <1>2, <1>t DEF View, SerialInv, MintInv, AckInv, Reserving, Unshelled, Closed
<1>5. ~TmuxFails => ClosedInv'
  BY <1>1, <1>2, <1>t, DoingFacts DEF View, SerialInv, MintInv, ClosedInv, Reserving, Unshelled, Closed
<1>6. ~Fallible => AliveInv'
  BY <1>1, <1>2, <1>t, DoingFacts DEF View, SerialInv, MintInv, AliveInv, Unshelled, Closed, Fallible
<1>7. ~(Fallible \/ IOFails) => StoredInv'
  BY <1>1, <1>2, <1>t DEF View, SerialInv, StoredInv, MintInv, AliveInv, Reserving, Unshelled, Closed, Unsaved,
     Fallible
<1> QED BY <1>3, <1>4, <1>5, <1>6, <1>7 DEF View, SerialInv, Fallible

LEMMA NotSavedSerial ==
  ASSUME TypeOK, TypeOK', LimitInv, SerialInv, Serial, NEW w \in Workers, View(w), CreateReturn(w), ~saved[w],
         ~Saving(w)'
  PROVE  SerialInv'
<1>t. pc \in [Goroutines -> Places] /\ arg \in [Goroutines -> Sessions \cup {None}] /\ w \in Goroutines
      /\ minted \in Seq(Sessions) /\ metas \in MetaLists /\ Known \subseteq Sessions
      /\ (OnSession(w) => arg[w] \in Sessions)
  BY MetaFacts DEF TypeOK, TypeCalls, TypeBounds, TypeMemory, View
<1>1. /\ pc[w] = "createReturn" /\ pc'[w] = (IF arg[w] \in shells THEN "rollback" ELSE "idle") /\ shells' = shells \ {arg[w]}
      /\ UNCHANGED <<tmux, dirs, arg, minted, acked, closing, notified>>
      /\ Known' = Known \ {arg[w]} /\ (\A t \in Known' : metas'[t] = metas[t]) /\ Minted' = Minted
  BY <1>t, Removed DEF CreateReturn, Minted, memVars, worldVars, callVars, bootVars, boundVars, histVars,
     Request, Step, At, GoTo
<1>2. Kept' = acked' \ closing' /\ Kept = acked \ closing
  BY DEF Kept
<1>3. MintInv'
  BY <1>1, <1>2, <1>t DEF View, SerialInv, MintInv, Reserving, Unshelled, Closed
<1>4. AckInv'
  BY <1>1, <1>2, <1>t DEF View, SerialInv, MintInv, AckInv, Reserving, Unshelled, Closed
<1>5. ~TmuxFails => ClosedInv'
  BY <1>1, <1>2, <1>t, DoingFacts DEF View, SerialInv, MintInv, ClosedInv, Reserving, Unshelled, Closed
<1>6. ~Fallible => AliveInv'
  BY <1>1, <1>2, <1>t, DoingFacts DEF View, SerialInv, MintInv, AliveInv, Unshelled, Closed, Fallible
<1>7. ~(Fallible \/ IOFails) => StoredInv'
  BY <1>1, <1>2, <1>t DEF View, SerialInv, StoredInv, MintInv, AliveInv, Reserving, Unshelled, Closed, Unsaved,
     Fallible
<1> QED BY <1>3, <1>4, <1>5, <1>6, <1>7 DEF View, SerialInv, Fallible

LEMMA RollbackSerial ==
  ASSUME TypeOK, TypeOK', LimitInv, SerialInv, Serial, NEW w \in Workers, View(w), CreateRollback(w), ~Saving(w)'
  PROVE  SerialInv'
<1>t. pc \in [Goroutines -> Places] /\ arg \in [Goroutines -> Sessions \cup {None}] /\ w \in Goroutines
      /\ minted \in Seq(Sessions) /\ metas \in MetaLists /\ Known \subseteq Sessions
      /\ (OnSession(w) => arg[w] \in Sessions)
  BY MetaFacts DEF TypeOK, TypeCalls, TypeBounds, TypeMemory, View
<1>1. /\ pc[w] = "rollback" /\ pc'[w] = "idle" /\ tmux' = tmux \ {arg[w]}
      /\ UNCHANGED <<metas, shells, dirs, arg, minted, acked, closing, notified>>
      /\ Known' = Known /\ Minted' = Minted
  BY <1>t DEF CreateRollback, Known, Minted, memVars, worldVars, callVars, bootVars, boundVars, histVars,
     Request, Step, At, GoTo
<1>2. Kept' = acked' \ closing' /\ Kept = acked \ closing
  BY DEF Kept
<1>3. MintInv'
  BY <1>1, <1>2, <1>t DEF View, SerialInv, MintInv, Reserving, Unshelled, Closed
<1>4. AckInv'
  BY <1>1, <1>2, <1>t DEF View, SerialInv, MintInv, AckInv, Reserving, Unshelled, Closed
<1>5. ~TmuxFails => ClosedInv'
  BY <1>1, <1>2, <1>t, DoingFacts DEF View, SerialInv, MintInv, ClosedInv, Reserving, Unshelled, Closed
<1>6. ~Fallible => AliveInv'
  BY <1>1, <1>2, <1>t, DoingFacts DEF View, SerialInv, MintInv, AliveInv, Unshelled, Closed, Fallible
<1>7. ~(Fallible \/ IOFails) => StoredInv'
  BY <1>1, <1>2, <1>t DEF View, SerialInv, StoredInv, MintInv, AliveInv, Reserving, Unshelled, Closed, Unsaved,
     Fallible
<1> QED BY <1>3, <1>4, <1>5, <1>6, <1>7 DEF View, SerialInv, Fallible

\* Steps that change nothing but the place of the worker outside creations and closings.
LEMMA AsideSerial ==
  ASSUME TypeOK, TypeOK', LimitInv, SerialInv, Serial, NEW w \in Workers, View(w), pc[w] \in Neutral,
         pc'[w] \in Neutral, UNCHANGED <<metas, shells, tmux, dirs, minted, acked, closing, notified>>,
         ~Saving(w)'
  PROVE  SerialInv'
<1>t. pc \in [Goroutines -> Places] /\ arg \in [Goroutines -> Sessions \cup {None}] /\ w \in Goroutines
      /\ minted \in Seq(Sessions) /\ metas \in MetaLists /\ Known \subseteq Sessions
      /\ (OnSession(w) => arg[w] \in Sessions)
  BY MetaFacts DEF TypeOK, TypeCalls, TypeBounds, TypeMemory, View
<1>1. /\ pc[w] \in Neutral /\ pc'[w] \in Neutral
      /\ UNCHANGED <<metas, shells, tmux, dirs, minted, acked, closing, notified>>
      /\ Known' = Known /\ Minted' = Minted
  BY <1>t DEF Known, Minted, memVars, worldVars, callVars, bootVars, boundVars, histVars, Request, Step, At, GoTo
<1>2. Kept' = acked' \ closing' /\ Kept = acked \ closing
  BY DEF Kept
<1>3. MintInv'
  BY <1>1, <1>2, <1>t DEF View, SerialInv, MintInv, Reserving, Unshelled, Closed, Neutral
<1>4. AckInv'
  BY <1>1, <1>2, <1>t DEF View, SerialInv, MintInv, AckInv, Reserving, Unshelled, Closed, Neutral
<1>5. ~TmuxFails => ClosedInv'
  BY <1>1, <1>2, <1>t, DoingFacts DEF View, SerialInv, MintInv, ClosedInv, Reserving, Unshelled, Closed, Neutral
<1>6. ~Fallible => AliveInv'
  BY <1>1, <1>2, <1>t, DoingFacts DEF View, SerialInv, MintInv, AliveInv, Unshelled, Closed, Fallible, Neutral
<1>7. ~(Fallible \/ IOFails) => StoredInv'
  BY <1>1, <1>2, <1>t DEF View, SerialInv, StoredInv, MintInv, AliveInv, Reserving, Unshelled, Closed, Unsaved,
     Fallible, Neutral
<1> QED BY <1>3, <1>4, <1>5, <1>6, <1>7 DEF View, SerialInv, Fallible

LEMMA ChangeSerial ==
  ASSUME TypeOK, TypeOK', LimitInv, SerialInv, Serial, NEW w \in Workers, View(w), pc[w] \in Neutral,
         pc'[w] \in Neutral, NEW s \in Known, NEW m, metas' = With(s, m),
         UNCHANGED <<shells, tmux, dirs, minted, acked, closing, notified>>, Saving(w)'
  PROVE  SerialInv'
<1>t. pc \in [Goroutines -> Places] /\ arg \in [Goroutines -> Sessions \cup {None}] /\ w \in Goroutines
      /\ minted \in Seq(Sessions) /\ metas \in MetaLists /\ Known \subseteq Sessions
      /\ (OnSession(w) => arg[w] \in Sessions)
  BY MetaFacts DEF TypeOK, TypeCalls, TypeBounds, TypeMemory, View
<1>1. /\ pc[w] \in Neutral /\ pc'[w] \in Neutral
      /\ UNCHANGED <<shells, tmux, dirs, minted, acked, closing, notified>>
      /\ Known' = Known /\ Minted' = Minted
  BY <1>t, Added DEF Minted, memVars, worldVars, callVars, bootVars, boundVars, histVars, Request, Step, At, GoTo
<1>2. Kept' = acked' \ closing' /\ Kept = acked \ closing
  BY DEF Kept
<1>3. MintInv'
  BY <1>1, <1>2, <1>t DEF View, SerialInv, MintInv, Reserving, Unshelled, Closed, Neutral
<1>4. AckInv'
  BY <1>1, <1>2, <1>t DEF View, SerialInv, MintInv, AckInv, Reserving, Unshelled, Closed, Neutral
<1>5. ~TmuxFails => ClosedInv'
  BY <1>1, <1>2, <1>t, DoingFacts DEF View, SerialInv, MintInv, ClosedInv, Reserving, Unshelled, Closed, Neutral
<1>6. ~Fallible => AliveInv'
  BY <1>1, <1>2, <1>t, DoingFacts DEF View, SerialInv, MintInv, AliveInv, Unshelled, Closed, Fallible, Neutral
<1>7. ~(Fallible \/ IOFails) => StoredInv'
  BY <1>1, <1>2, <1>t DEF View, SerialInv, StoredInv, MintInv, AliveInv, Reserving, Unshelled, Closed, Unsaved,
     Fallible, Neutral
<1> QED BY <1>3, <1>4, <1>5, <1>6, <1>7 DEF View, SerialInv, Fallible

LEMMA RecapTagSerial ==
  ASSUME TypeOK, TypeOK', LimitInv, SerialInv, Serial, NEW w \in Workers, View(w), RecapTag(w), ~Saving(w)'
  PROVE  SerialInv'
<1>t. pc \in [Goroutines -> Places] /\ arg \in [Goroutines -> Sessions \cup {None}] /\ w \in Goroutines
      /\ minted \in Seq(Sessions) /\ metas \in MetaLists /\ Known \subseteq Sessions
      /\ (OnSession(w) => arg[w] \in Sessions)
  BY MetaFacts DEF TypeOK, TypeCalls, TypeBounds, TypeMemory, View
<1>1. /\ pc[w] = "recapTag" /\ pc'[w] = "recapSave"
      /\ UNCHANGED <<shells, tmux, dirs, arg, minted, acked, closing, notified>>
      /\ Known' = Known /\ Minted' = Minted
  <2>1. /\ pc[w] = "recapTag" /\ pc'[w] = "recapSave"
        /\ UNCHANGED <<shells, tmux, dirs, arg, minted, acked, closing, notified>>
        /\ metas' = metas \/ (arg[w] \in Known /\ \E m : metas' = With(arg[w], m))
    BY <1>t DEF RecapTag, Step, At, GoTo, worldVars, callVars, boundVars, histVars
  <2> QED BY <2>1, Added DEF Known, Minted
<1>2. Kept' = acked' \ closing' /\ Kept = acked \ closing
  BY DEF Kept
<1>3. MintInv'
  BY <1>1, <1>2, <1>t DEF View, SerialInv, MintInv, Reserving, Unshelled, Closed
<1>4. AckInv'
  BY <1>1, <1>2, <1>t DEF View, SerialInv, MintInv, AckInv, Reserving, Unshelled, Closed
<1>5. ~TmuxFails => ClosedInv'
  BY <1>1, <1>2, <1>t, DoingFacts DEF View, SerialInv, MintInv, ClosedInv, Reserving, Unshelled, Closed
<1>6. ~Fallible => AliveInv'
  BY <1>1, <1>2, <1>t, DoingFacts DEF View, SerialInv, MintInv, AliveInv, Unshelled, Closed, Fallible
<1>7. ~(Fallible \/ IOFails) => StoredInv'
  BY <1>1, <1>2, <1>t DEF View, SerialInv, StoredInv, MintInv, AliveInv, Reserving, Unshelled, Closed, Unsaved,
     Fallible
<1> QED BY <1>3, <1>4, <1>5, <1>6, <1>7 DEF View, SerialInv, Fallible

LEMMA RecapSaveSerial ==
  ASSUME TypeOK, TypeOK', LimitInv, SerialInv, Serial, NEW w \in Workers, View(w), RecapSave(w), Saving(w)'
  PROVE  SerialInv'
<1>t. pc \in [Goroutines -> Places] /\ arg \in [Goroutines -> Sessions \cup {None}] /\ w \in Goroutines
      /\ minted \in Seq(Sessions) /\ metas \in MetaLists /\ Known \subseteq Sessions
      /\ (OnSession(w) => arg[w] \in Sessions)
  BY MetaFacts DEF TypeOK, TypeCalls, TypeBounds, TypeMemory, View
<1>1. /\ pc[w] = "recapSave" /\ pc'[w] = "return"
      /\ UNCHANGED <<metas, shells, tmux, dirs, arg, minted, acked, closing, notified>>
      /\ Known' = Known /\ Minted' = Minted
  BY <1>t DEF RecapSave, Known, Minted, memVars, worldVars, callVars, bootVars, boundVars, histVars, Request,
     Step, At, GoTo
<1>2. Kept' = acked' \ closing' /\ Kept = acked \ closing
  BY DEF Kept
<1>3. MintInv'
  BY <1>1, <1>2, <1>t DEF View, SerialInv, MintInv, Reserving, Unshelled, Closed
<1>4. AckInv'
  BY <1>1, <1>2, <1>t DEF View, SerialInv, MintInv, AckInv, Reserving, Unshelled, Closed
<1>5. ~TmuxFails => ClosedInv'
  BY <1>1, <1>2, <1>t, DoingFacts DEF View, SerialInv, MintInv, ClosedInv, Reserving, Unshelled, Closed
<1>6. ~Fallible => AliveInv'
  BY <1>1, <1>2, <1>t, DoingFacts DEF View, SerialInv, MintInv, AliveInv, Unshelled, Closed, Fallible
<1>7. ~(Fallible \/ IOFails) => StoredInv'
  BY <1>1, <1>2, <1>t DEF View, SerialInv, StoredInv, MintInv, AliveInv, Reserving, Unshelled, Closed, Unsaved,
     Fallible
<1> QED BY <1>3, <1>4, <1>5, <1>6, <1>7 DEF View, SerialInv, Fallible

\* Close and the closing of an older recap session begin alike.
LEMMA ForgetSerial ==
  ASSUME TypeOK, TypeOK', LimitInv, SerialInv, Serial, NEW w \in Workers, View(w), pc[w] \in Neutral,
         NEW s \in Sessions, Forget(w, s), pc'[w] = (IF s \in shells THEN "closeShell" ELSE "closeDir"),
         UNCHANGED <<tmux, dirs, minted, acked, notified>>, ~Saving(w)'
  PROVE  SerialInv'
<1>t. pc \in [Goroutines -> Places] /\ arg \in [Goroutines -> Sessions \cup {None}] /\ w \in Goroutines
      /\ minted \in Seq(Sessions) /\ metas \in MetaLists /\ Known \subseteq Sessions
      /\ (OnSession(w) => arg[w] \in Sessions)
  BY MetaFacts DEF TypeOK, TypeCalls, TypeBounds, TypeMemory, View
<1>1. /\ pc[w] \in Neutral /\ s \in Known /\ shells' = shells \ {s} /\ closing' = closing \cup {s} /\ arg'[w] = s
      /\ pc'[w] = (IF s \in shells THEN "closeShell" ELSE "closeDir")
      /\ UNCHANGED <<tmux, dirs, minted, acked, notified>>
      /\ Known' = Known \ {s} /\ (\A t \in Known' : metas'[t] = metas[t]) /\ Minted' = Minted
  BY <1>t, Removed DEF Forget, Minted, memVars, worldVars, callVars, bootVars, boundVars, histVars, Request,
     Step, At, GoTo
<1>2. Kept' = acked' \ closing' /\ Kept = acked \ closing
  BY DEF Kept
<1>3. MintInv'
  BY <1>1, <1>2, <1>t DEF View, SerialInv, MintInv, Reserving, Unshelled, Closed, Neutral
<1>4. AckInv'
  BY <1>1, <1>2, <1>t DEF View, SerialInv, MintInv, AckInv, Reserving, Unshelled, Closed, Neutral
<1>5. ~TmuxFails => ClosedInv'
  BY <1>1, <1>2, <1>t, DoingFacts DEF View, SerialInv, MintInv, ClosedInv, Reserving, Unshelled, Closed, Neutral
<1>6. ~Fallible => AliveInv'
  BY <1>1, <1>2, <1>t, DoingFacts DEF View, SerialInv, MintInv, AliveInv, Unshelled, Closed, Fallible, Neutral
<1>7. ~(Fallible \/ IOFails) => StoredInv'
  BY <1>1, <1>2, <1>t DEF View, SerialInv, StoredInv, MintInv, AliveInv, Reserving, Unshelled, Closed, Unsaved,
     Fallible, Neutral
<1> QED BY <1>3, <1>4, <1>5, <1>6, <1>7 DEF View, SerialInv, Fallible

LEMMA CloseShellSerial ==
  ASSUME TypeOK, TypeOK', LimitInv, SerialInv, Serial, NEW w \in Workers, View(w), CloseShell(w), ~Saving(w)'
  PROVE  SerialInv'
<1>t. pc \in [Goroutines -> Places] /\ arg \in [Goroutines -> Sessions \cup {None}] /\ w \in Goroutines
      /\ minted \in Seq(Sessions) /\ metas \in MetaLists /\ Known \subseteq Sessions
      /\ (OnSession(w) => arg[w] \in Sessions)
  BY MetaFacts DEF TypeOK, TypeCalls, TypeBounds, TypeMemory, View
<1>1. /\ pc[w] = "closeShell" /\ pc'[w] = "closeDir" /\ tmux' = tmux \ {arg[w]}
      /\ UNCHANGED <<metas, shells, dirs, arg, minted, acked, closing, notified>>
      /\ Known' = Known /\ Minted' = Minted
  BY <1>t DEF CloseShell, Known, Minted, memVars, worldVars, callVars, bootVars, boundVars, histVars, Request,
     Step, At, GoTo
<1>2. Kept' = acked' \ closing' /\ Kept = acked \ closing
  BY DEF Kept
<1>3. MintInv'
  BY <1>1, <1>2, <1>t DEF View, SerialInv, MintInv, Reserving, Unshelled, Closed
<1>4. AckInv'
  BY <1>1, <1>2, <1>t DEF View, SerialInv, MintInv, AckInv, Reserving, Unshelled, Closed
<1>5. ~TmuxFails => ClosedInv'
  BY <1>1, <1>2, <1>t, DoingFacts DEF View, SerialInv, MintInv, ClosedInv, Reserving, Unshelled, Closed
<1>6. ~Fallible => AliveInv'
  BY <1>1, <1>2, <1>t, DoingFacts DEF View, SerialInv, MintInv, AliveInv, Unshelled, Closed, Fallible
<1>7. ~(Fallible \/ IOFails) => StoredInv'
  BY <1>1, <1>2, <1>t DEF View, SerialInv, StoredInv, MintInv, AliveInv, Reserving, Unshelled, Closed, Unsaved,
     Fallible
<1> QED BY <1>3, <1>4, <1>5, <1>6, <1>7 DEF View, SerialInv, Fallible

LEMMA CloseDirSerial ==
  ASSUME TypeOK, TypeOK', LimitInv, SerialInv, Serial, NEW w \in Workers, View(w), CloseDir(w), ~Saving(w)'
  PROVE  SerialInv'
<1>t. pc \in [Goroutines -> Places] /\ arg \in [Goroutines -> Sessions \cup {None}] /\ w \in Goroutines
      /\ minted \in Seq(Sessions) /\ metas \in MetaLists /\ Known \subseteq Sessions
      /\ (OnSession(w) => arg[w] \in Sessions)
  BY MetaFacts DEF TypeOK, TypeCalls, TypeBounds, TypeMemory, View
<1>1. /\ pc[w] = "closeDir" /\ pc'[w] = "closeSave" /\ dirs' = dirs \ {arg[w]}
      /\ UNCHANGED <<metas, shells, tmux, arg, minted, acked, closing, notified>>
      /\ Known' = Known /\ Minted' = Minted
  BY <1>t DEF CloseDir, Known, Minted, memVars, worldVars, callVars, bootVars, boundVars, histVars, Request,
     Step, At, GoTo
<1>2. Kept' = acked' \ closing' /\ Kept = acked \ closing
  BY DEF Kept
<1>3. MintInv'
  BY <1>1, <1>2, <1>t DEF View, SerialInv, MintInv, Reserving, Unshelled, Closed
<1>4. AckInv'
  BY <1>1, <1>2, <1>t DEF View, SerialInv, MintInv, AckInv, Reserving, Unshelled, Closed
<1>5. ~TmuxFails => ClosedInv'
  BY <1>1, <1>2, <1>t, DoingFacts DEF View, SerialInv, MintInv, ClosedInv, Reserving, Unshelled, Closed
<1>6. ~Fallible => AliveInv'
  BY <1>1, <1>2, <1>t, DoingFacts DEF View, SerialInv, MintInv, AliveInv, Unshelled, Closed, Fallible
<1>7. ~(Fallible \/ IOFails) => StoredInv'
  BY <1>1, <1>2, <1>t DEF View, SerialInv, StoredInv, MintInv, AliveInv, Reserving, Unshelled, Closed, Unsaved,
     Fallible
<1> QED BY <1>3, <1>4, <1>5, <1>6, <1>7 DEF View, SerialInv, Fallible

LEMMA CloseSaveSerial ==
  ASSUME TypeOK, TypeOK', LimitInv, SerialInv, Serial, NEW w \in Workers, View(w), CloseSave(w), Saving(w)'
  PROVE  SerialInv'
<1>t. pc \in [Goroutines -> Places] /\ arg \in [Goroutines -> Sessions \cup {None}] /\ w \in Goroutines
      /\ minted \in Seq(Sessions) /\ metas \in MetaLists /\ Known \subseteq Sessions
      /\ (OnSession(w) => arg[w] \in Sessions)
  BY MetaFacts DEF TypeOK, TypeCalls, TypeBounds, TypeMemory, View
<1>1. /\ pc[w] = "closeSave" /\ pc'[w] = "closeReturn"
      /\ UNCHANGED <<metas, shells, tmux, dirs, arg, minted, acked, closing, notified>>
      /\ Known' = Known /\ Minted' = Minted
  BY <1>t DEF CloseSave, Known, Minted, memVars, worldVars, callVars, bootVars, boundVars, histVars, Request,
     Step, At, GoTo
<1>2. Kept' = acked' \ closing' /\ Kept = acked \ closing
  BY DEF Kept
<1>3. MintInv'
  BY <1>1, <1>2, <1>t DEF View, SerialInv, MintInv, Reserving, Unshelled, Closed
<1>4. AckInv'
  BY <1>1, <1>2, <1>t DEF View, SerialInv, MintInv, AckInv, Reserving, Unshelled, Closed
<1>5. ~TmuxFails => ClosedInv'
  BY <1>1, <1>2, <1>t, DoingFacts DEF View, SerialInv, MintInv, ClosedInv, Reserving, Unshelled, Closed
<1>6. ~Fallible => AliveInv'
  BY <1>1, <1>2, <1>t, DoingFacts DEF View, SerialInv, MintInv, AliveInv, Unshelled, Closed, Fallible
<1>7. ~(Fallible \/ IOFails) => StoredInv'
  BY <1>1, <1>2, <1>t DEF View, SerialInv, StoredInv, MintInv, AliveInv, Reserving, Unshelled, Closed, Unsaved,
     Fallible
<1> QED BY <1>3, <1>4, <1>5, <1>6, <1>7 DEF View, SerialInv, Fallible

LEMMA CloseReturnSerial ==
  ASSUME TypeOK, TypeOK', LimitInv, SerialInv, Serial, NEW w \in Workers, View(w), CloseReturn(w), ~Saving(w)'
  PROVE  SerialInv'
<1>t. pc \in [Goroutines -> Places] /\ arg \in [Goroutines -> Sessions \cup {None}] /\ w \in Goroutines
      /\ minted \in Seq(Sessions) /\ metas \in MetaLists /\ Known \subseteq Sessions
      /\ (OnSession(w) => arg[w] \in Sessions)
  BY MetaFacts DEF TypeOK, TypeCalls, TypeBounds, TypeMemory, View
<1>1. /\ pc[w] = "closeReturn" /\ pc'[w] = "recapOrphans" /\ notified' \in {notified, notified \cup {arg[w]}}
      /\ ~saved[w] => notified' = notified
      /\ UNCHANGED <<metas, shells, tmux, dirs, arg, minted, acked, closing>>
      /\ Known' = Known /\ Minted' = Minted
  BY <1>t DEF CloseReturn, Known, Minted, memVars, worldVars, callVars, bootVars, boundVars, histVars, Request,
     Step, At, GoTo
<1>2. Kept' = acked' \ closing' /\ Kept = acked \ closing
  BY DEF Kept
<1>3. MintInv'
  BY <1>1, <1>2, <1>t DEF View, SerialInv, MintInv, Reserving, Unshelled, Closed
<1>4. AckInv'
  BY <1>1, <1>2, <1>t DEF View, SerialInv, MintInv, AckInv, Reserving, Unshelled, Closed
<1>5. ~TmuxFails => ClosedInv'
  BY <1>1, <1>2, <1>t, DoingFacts DEF View, SerialInv, MintInv, ClosedInv, Reserving, Unshelled, Closed
<1>6. ~Fallible => AliveInv'
  BY <1>1, <1>2, <1>t, DoingFacts DEF View, SerialInv, MintInv, AliveInv, Unshelled, Closed, Fallible
<1>7. ~(Fallible \/ IOFails) => StoredInv'
  BY <1>1, <1>2, <1>t DEF View, SerialInv, StoredInv, MintInv, AliveInv, Reserving, Unshelled, Closed, Unsaved,
     Fallible
<1> QED BY <1>3, <1>4, <1>5, <1>6, <1>7 DEF View, SerialInv, Fallible

\* Every step of the worker.
LEMMA WorkerSerial ==
  ASSUME TypeOK, TypeOK', LimitInv, SerialInv, Serial, NEW w \in Workers, Creating(w) \/ Changing(w) \/ Closing(w)
  PROVE  SerialInv'
<1>v. View(w) /\ (UNCHANGED saveVars => ~Saving(w)') /\ (Persist(w, metas') => Saving(w)')
  BY ViewFacts DEF SerialInv
<1>t. pc \in [Goroutines -> Places] /\ w \in Goroutines
  BY DEF TypeOK, TypeCalls, View, Goroutines
<1>1. ASSUME NEW s \in Sessions, CreateReserve(w, s) \/ RecapReserve(w, s) PROVE SerialInv'
  <2>1. UNCHANGED saveVars
    BY <1>1 DEF CreateReserve, RecapReserve
  <2> QED BY <1>1, <1>v, <2>1, ReserveSerial
<1>2. CASE StartDirs(w)
  <2>1. UNCHANGED saveVars
    BY <1>2 DEF StartDirs
  <2> QED BY <1>2, <1>v, <2>1, StartDirsSerial
<1>3. CASE StartTmux(w)
  <2>1. UNCHANGED saveVars
    BY <1>3 DEF StartTmux
  <2> QED BY <1>3, <1>v, <2>1, StartedSerial, NotStartedSerial
<1>4. CASE CreateUnreserve(w)
  <2>1. UNCHANGED saveVars
    BY <1>4 DEF CreateUnreserve
  <2> QED BY <1>4, <1>v, <2>1, UnreserveSerial
<1>5. CASE Register(w)
  <2>1. UNCHANGED saveVars
    BY <1>5 DEF Register
  <2> QED BY <1>5, <1>v, <2>1, RegisterSerial
<1>6. CASE CreateSave(w)
  <2>1. Persist(w, metas')
    BY <1>6 DEF CreateSave, memVars
  <2> QED BY <1>6, <1>v, <2>1, CreateSaveSerial
<1>7. CASE CreateReturn(w)
  <2>1. UNCHANGED saveVars
    BY <1>7 DEF CreateReturn
  <2> QED BY <1>7, <1>v, <2>1, ReportedSerial, NotSavedSerial
<1>8. CASE CreateRollback(w)
  <2>1. UNCHANGED saveVars
    BY <1>8 DEF CreateRollback
  <2> QED BY <1>8, <1>v, <2>1, RollbackSerial
<1>9. CASE RecapScan(w) \/ RecapAbsent(w) \/ RecapRefused(w) \/ Return(w) \/ OrphansClosed(w) \/ ConvoReturn(w)
           \/ (\E s \in Sessions : EnsureConvo(w, s)) \/ (ConvoSet(w) /\ arg[w] \notin Known)
  <2>1. pc[w] \in Neutral /\ pc'[w] \in Neutral /\ UNCHANGED <<metas, shells, tmux, dirs, minted, acked, closing, notified>>
    BY <1>9, <1>t DEF RecapScan, RecapAbsent, RecapRefused, Return, OrphansClosed, ConvoReturn, EnsureConvo, ConvoSet,
       MutateAndPersist, Request, Step, At, GoTo, memVars, worldVars, boundVars, histVars, Neutral
  <2>2. UNCHANGED saveVars
    BY <1>9 DEF RecapScan, RecapAbsent, RecapRefused, Return, OrphansClosed, ConvoReturn, EnsureConvo, ConvoSet,
       MutateAndPersist
  <2> QED BY <1>v, <2>1, <2>2, AsideSerial
<1>10. CASE ConvoSet(w) /\ arg[w] \in Known
  <2>1. /\ pc[w] \in Neutral /\ pc'[w] \in Neutral /\ UNCHANGED <<shells, tmux, dirs, minted, acked, closing, notified>>
        /\ metas' = With(arg[w], ConvoInstalled(w)) /\ Persist(w, metas')
    BY <1>10, <1>t DEF ConvoSet, MutateAndPersist, Step, At, GoTo, worldVars, boundVars, histVars, Neutral
  <2> QED BY <1>10, <1>v, <2>1, ChangeSerial
<1>11. ASSUME NEW s \in Sessions, NEW o \in OptionSet, NEW on \in BOOLEAN, SetOption(w, s, o, on) PROVE SerialInv'
  <2>1. PICK m : m = [metas[s] EXCEPT !.opts = IF on THEN @ \cup {o} ELSE @ \ {o}]
    OBVIOUS
  <2>2. /\ pc[w] \in Neutral /\ pc'[w] \in Neutral /\ UNCHANGED <<shells, tmux, dirs, minted, acked, closing, notified>>
    BY <1>11, <1>t DEF SetOption, Request, Step, At, GoTo, worldVars, histVars, Neutral
  <2>3. s \in Known /\ metas' = With(s, m) /\ Persist(w, metas')
    BY <1>11, <2>1 DEF SetOption, MutateAndPersist
  <2> QED BY <1>v, <2>2, <2>3, ChangeSerial
<1>12. CASE RecapTag(w)
  <2>1. UNCHANGED saveVars
    BY <1>12 DEF RecapTag
  <2> QED BY <1>12, <1>v, <2>1, RecapTagSerial
<1>13. CASE RecapSave(w)
  <2>1. Persist(w, metas')
    BY <1>13 DEF RecapSave, memVars
  <2> QED BY <1>13, <1>v, <2>1, RecapSaveSerial
<1>14. ASSUME NEW s \in Sessions, CloseForget(w, s) PROVE SerialInv'
  <2>1. /\ pc[w] \in Neutral /\ Forget(w, s) /\ pc'[w] = (IF s \in shells THEN "closeShell" ELSE "closeDir")
        /\ UNCHANGED <<tmux, dirs, minted, acked, notified>> /\ UNCHANGED saveVars
    BY <1>14, <1>t DEF CloseForget, Request, Step, At, GoTo, worldVars, Neutral
  <2> QED BY <1>v, <2>1, ForgetSerial
<1>15. CASE OrphanForget(w)
  <2>1. PICK s \in Sessions : IF s \in Known
          THEN Forget(w, s) /\ GoTo(w, IF s \in shells THEN "closeShell" ELSE "closeDir")
          ELSE UNCHANGED <<memVars, arg, closing, pc>>
    BY <1>15, <1>t DEF OrphanForget, TypeOK, TypeCalls
  <2>2. /\ pc[w] = "recapOrphans" /\ pc[w] \in Neutral
        /\ UNCHANGED <<tmux, dirs, minted, acked, notified>> /\ UNCHANGED saveVars
    BY <1>15 DEF OrphanForget, At, Neutral, worldVars, boundVars
  <2>3. CASE s \in Known
    <3>1. Forget(w, s) /\ pc'[w] = (IF s \in shells THEN "closeShell" ELSE "closeDir")
      BY <2>1, <2>3, <1>t DEF GoTo
    <3> QED BY <1>v, <2>2, <3>1, ForgetSerial
  <2>4. CASE s \notin Known
    <3>1. UNCHANGED <<metas, shells, tmux, dirs, minted, acked, closing, notified>> /\ pc'[w] \in Neutral
      BY <2>1, <2>2, <2>4 DEF memVars
    <3> QED BY <1>v, <2>2, <3>1, AsideSerial
  <2> QED BY <2>3, <2>4
<1>16. CASE CloseShell(w)
  <2>1. UNCHANGED saveVars
    BY <1>16 DEF CloseShell
  <2> QED BY <1>16, <1>v, <2>1, CloseShellSerial
<1>17. CASE CloseDir(w)
  <2>1. UNCHANGED saveVars
    BY <1>17 DEF CloseDir
  <2> QED BY <1>17, <1>v, <2>1, CloseDirSerial
<1>18. CASE CloseSave(w)
  <2>1. Persist(w, metas')
    BY <1>18 DEF CloseSave, memVars
  <2> QED BY <1>18, <1>v, <2>1, CloseSaveSerial
<1>19. CASE CloseReturn(w)
  <2>1. UNCHANGED saveVars
    BY <1>19 DEF CloseReturn
  <2> QED BY <1>19, <1>v, <2>1, CloseReturnSerial
<1> QED BY <1>1, <1>2, <1>3, <1>4, <1>5, <1>6, <1>7, <1>8, <1>9, <1>10, <1>11, <1>12, <1>13, <1>14, <1>15,
           <1>16, <1>17, <1>18, <1>19 DEF Creating, Changing, Closing

-----------------------------------------------------------------------------
(* Bash exits, the process goes away, and the boot *)

\* Nobody asks for anything until the server serves.
LEMMA IdleFacts ==
  ASSUME TypeOK, LimitInv, up # "serving"
  PROVE  /\ Boot \in Goroutines /\ Boot \notin Workers
         /\ \A w \in Workers : /\ pc[w] = "idle" /\ w \in Goroutines
                               /\ pc[w] \notin Reserving \cup Closed \cup Unsaved \cup Savers \cup {"rollback"}
         /\ \A s : ~Doing(s, Reserving) /\ ~Doing(s, Unshelled) /\ ~Doing(s, {"startDirs"})
                   /\ ~Doing(s, {"startDirs", "startTmux"}) /\ ~Doing(s, {"rollback", "closeShell"})
BY ManagerAssumption DEF LimitInv, Booted, At, Goroutines, Doing, Reserving, Unshelled, Closed, Unsaved, Savers

LEMMA ExitSerial ==
  ASSUME TypeOK, LimitInv, SerialInv, NEW s \in Sessions, UserExit(s) PROVE SerialInv'
<1>1. /\ MayExit /\ s \in Known /\ shells' = shells \ {s} /\ closing' = closing \cup {s}
      /\ UNCHANGED <<tmux, dirs, pc, arg, up, loaded, todo, live, minted, crashes, acked, notified, omitted>>
      /\ Known' = Known \ {s} /\ \A t \in Known' : metas'[t] = metas[t]
  BY Removed DEF UserExit, worldVars, callVars, bootVars
<1>2. UNCHANGED <<spc, want, fd, saved, tmp, final, content>> /\ UNCHANGED <<File!Stored, StoredIds>>
  BY StoredFacts DEF UserExit, saveVars
<1>3. Minted' = Minted /\ Kept' = Kept \ {s} /\ Lost' = Lost
  BY <1>1 DEF Minted, Kept, Lost
<1>4. /\ \A g : (Saving(g)' <=> Saving(g)) /\ (Returned(g)' <=> Returned(g))
      /\ \A t, P : Doing(t, P)' <=> Doing(t, P)
  BY <1>1, <1>2 DEF Saving, Returned, Doing
<1>5. SavesInv'
  BY <1>1, <1>2, <1>4 DEF SerialInv, SavesInv
<1>6. MintInv'
  BY <1>1, <1>2, <1>3, <1>4 DEF SerialInv, MintInv
<1>7. AckInv'
  BY <1>1, <1>2, <1>3, <1>4 DEF SerialInv, AckInv
<1>8. ~TmuxFails => ClosedInv'
  BY <1>1, <1>2, <1>4 DEF SerialInv, ClosedInv
<1> QED BY <1>1, <1>5, <1>6, <1>7, <1>8 DEF SerialInv, Fallible

LEMMA GoneSerial ==
  ASSUME TypeOK, LimitInv, SerialInv, ProcessGone \/ PodGone PROVE SerialInv'
<1>1. /\ up' = "down" /\ crashes' = crashes + 1 /\ metas' = <<>> /\ shells' = {}
      /\ pc' = [w \in Goroutines |-> "idle"] /\ spc' = [w \in Goroutines |-> "idle"] /\ tmux' \in {tmux, {}}
      /\ UNCHANGED <<loaded, todo, minted, acked, closing, notified, omitted, want, saved, tmp, final, content>>
  BY DEF ProcessGone, PodGone, Gone, File!Crash, File!diskVars, histVars
<1>2. Known' = {} /\ Minted' = Minted /\ Kept' = Kept /\ Lost' = Lost /\ UNCHANGED <<File!Stored, StoredIds>>
  BY <1>1, StoredFacts DEF Known, Minted, Kept, Lost
<1>3. \A g \in Goroutines : Returned(g)' /\ ~Saving(g)' /\ spc'[g] = "idle" /\ pc'[g] = "idle"
  BY <1>1 DEF Returned, Saving
<1>4. Boot \in Goroutines /\ \A w \in Workers : w \in Goroutines
  BY DEF Goroutines
<1>5. SavesInv'
  BY <1>1, <1>2, <1>3, <1>4 DEF SerialInv, SavesInv
<1>6. MintInv'
  BY <1>1, <1>2, <1>3, <1>4 DEF SerialInv, MintInv, Reserving, Unshelled, Closed
<1>7. AckInv'
  BY <1>1, <1>2, <1>3, <1>4 DEF SerialInv, AckInv, Reserving, Unshelled
<1>8. ~TmuxFails => ClosedInv'
  BY <1>1, <1>2, <1>3, <1>4 DEF SerialInv, ClosedInv, Reserving, Unshelled, Closed
<1>9. AliveInv' /\ StoredInv'
  BY <1>1 DEF AliveInv, StoredInv
<1> QED BY <1>5, <1>6, <1>7, <1>8, <1>9 DEF SerialInv, Fallible

\* What a step of Boot leaves alone.
BootView ==
  /\ up # "serving" /\ UNCHANGED <<crashes, minted, acked, closing, notified, omitted, saved>>
  /\ \A w \in Workers : pc'[w] = "idle" /\ arg'[w] = arg[w] /\ ~Saving(w)' /\ Returned(w)'
  /\ UNCHANGED <<File!Stored, StoredIds>> /\ Minted' = Minted /\ Kept' = Kept
  /\ SavesInv'

LEMMA BootViewFacts ==
  ASSUME TypeOK, LimitInv, SavesInv, Booting
  PROVE  /\ BootView
         /\ UNCHANGED saveVars => (Saving(Boot)' <=> Saving(Boot)) /\ want' = want
         /\ Persist(Boot, metas') => Saving(Boot)' /\ want'[Boot] = metas'
         /\ pc[Boot] # "reset" => ~Saving(Boot)
<1>1. up # "serving"
  BY DEF LimitInv, Booted, Booting, BootLoad, BootResume, BootRecreate, BootReset, BootResetDone, BootServe, Step, At
<1>g. /\ Boot \in Goroutines /\ Boot \notin Workers /\ \A w \in Workers : pc[w] = "idle" /\ w \in Goroutines
      /\ \A g \in Goroutines : g = Boot \/ g \in Workers
  BY <1>1, IdleFacts DEF Goroutines
<1>2. UNCHANGED <<crashes, minted, acked, closing, notified, omitted>> /\ \A w \in Workers : pc'[w] = pc[w] /\ arg'[w] = arg[w]
  BY <1>g DEF TypeOK, TypeCalls, Booting, BootLoad, BootResume, BootRecreate, BootReset, BootResetDone,
     BootServe, Step, GoTo,
              boundVars, histVars, callVars
<1>3. /\ UNCHANGED saveVars \/ (Persist(Boot, metas') /\ pc[Boot] = "reset" /\ pc' = pc)
      /\ pc[Boot] = "reset" => Returned(Boot)
  BY DEF Booting, BootLoad, BootResume, BootRecreate, BootReset, BootResetDone, BootServe, MutateAndPersist,
     Step, At, LimitInv, Booted
<1>4. \A w \in Workers : Returned(w) /\ ~Saving(w)
  BY <1>g DEF SavesInv, Savers, Returned, Saving
<1>5. Returned(Boot) /\ ~Saving(Boot)
  BY <1>3 DEF SavesInv, Returned, Saving
<1>6. Minted' = Minted /\ Kept' = Kept
  BY <1>2 DEF Minted, Kept
<1>t. spc \in [Goroutines -> {"idle", "open", "write", "rename", "clean"}] /\ want \in [Goroutines -> MetaLists \cup {None}]
  BY DEF TypeOK, File!FileTypeOK
<1>7. CASE UNCHANGED saveVars
  <2>1. UNCHANGED <<spc, want, saved, tmp, fd, final, content>>
    BY <1>7 DEF saveVars
  <2>2. UNCHANGED <<File!Stored, StoredIds>>
    BY <2>1, StoredFacts
  <2>3. \A g \in Goroutines : Returned(g)' /\ ~Saving(g)' /\ spc'[g] = "idle"
    BY <2>1, <1>4, <1>5, <1>g DEF Returned, Saving
  <2>4. SavesInv'
    BY <1>g, <2>1, <2>2, <2>3 DEF SavesInv
  <2>5. ~Persist(Boot, metas')
    BY <1>g, <1>t, <2>1, <1>5 DEF Persist, File!Save, File!At, File!GoTo, Returned
  <2> QED BY <1>1, <1>g, <1>2, <1>5, <1>6, <2>1, <2>2, <2>3, <2>4, <2>5 DEF BootView
<1>8. CASE Persist(Boot, metas') /\ pc[Boot] = "reset" /\ pc' = pc
  <2>1. /\ UNCHANGED <<saved, tmp, fd, final, content>>
        /\ spc' = [spc EXCEPT ![Boot] = "open"] /\ want' = [want EXCEPT ![Boot] = metas']
    BY <1>8 DEF Persist, File!Save, File!GoTo, File!diskVars
  <2>2. UNCHANGED <<File!Stored, StoredIds>>
    BY <2>1, StoredFacts
  <2>3. \A w \in Workers : Returned(w)' /\ ~Saving(w)' /\ spc'[w] = "idle"
    BY <2>1, <1>4, <1>g, <1>t DEF Returned, Saving
  <2>4. spc'[Boot] = "open" /\ want'[Boot] = metas' /\ Saving(Boot)'
    BY <2>1, <1>g, <1>t DEF Saving
  <2>5. SavesInv'
    BY <1>8, <1>g, <2>1, <2>2, <2>3, <2>4 DEF SavesInv, Returned
  <2>6. spc' # spc
    BY <2>4, <1>5 DEF Returned
  <2> QED BY <1>1, <1>8, <1>g, <1>2, <1>5, <1>6, <2>1, <2>2, <2>3, <2>4, <2>5, <2>6 DEF BootView, saveVars
<1> QED BY <1>3, <1>7, <1>8

LEMMA BootSerial == ASSUME TypeOK, TypeOK', LimitInv, SerialInv, Booting PROVE SerialInv'
<1>v. /\ BootView
      /\ UNCHANGED saveVars => (Saving(Boot)' <=> Saving(Boot)) /\ want' = want
      /\ Persist(Boot, metas') => Saving(Boot)' /\ want'[Boot] = metas'
      /\ pc[Boot] # "reset" => ~Saving(Boot)
  BY BootViewFacts DEF SerialInv
<1>g. /\ Boot \in Goroutines /\ Boot \notin Workers /\ \A g \in Goroutines : g = Boot \/ g \in Workers
      /\ \A s, P : Doing(s, P)' <=> "idle" \in P /\ \E w \in Workers : arg[w] = s
      /\ \A s, P : Doing(s, P) <=> "idle" \in P /\ \E w \in Workers : arg[w] = s
  BY <1>v, IdleFacts DEF BootView, Goroutines, Doing
<1>t. /\ Known \subseteq Sessions /\ tmux \subseteq Sessions /\ shells \subseteq Sessions /\ todo \subseteq DOMAIN loaded
      /\ Known' \subseteq Sessions
  BY MetaFacts DEF TypeOK, TypeMemory, TypeWorld, TypeBoot, MetaLists, Known
<1>s. SavesInv'
  BY <1>v DEF BootView
<1> USE DEF Reserving, Unshelled, Closed, Unsaved, Fallible
<1>1. CASE BootLoad
  <2>1. /\ up = "down" /\ up' = "boot" /\ Known = {} /\ Known' = {} /\ UNCHANGED <<metas, shells, tmux, dirs>>
        /\ todo' = DOMAIN loaded' /\ live' = tmux /\ ~Saving(Boot)'
    BY <1>1, <1>v DEF BootLoad, memVars, worldVars, LimitInv, Booted, GoTo, Known
  <2>2. DOMAIN loaded' = StoredIds /\ (StoredIds # {} => loaded' = File!Stored)
    BY <1>1, ManagerAssumption DEF BootLoad, StoredIds
  <2>3. MintInv'
    BY <1>v, <1>g, <2>1, <2>2 DEF BootView, SerialInv, MintInv
  <2>4. AckInv'
    <3>1. Lost' = omitted /\ StoredIds \cap omitted = {} /\ Kept \subseteq StoredIds \cup omitted
      BY <1>v, <2>2 DEF BootView, SerialInv, AckInv, Lost
    <3>2. \A g \in Goroutines : ~Saving(g)'
      BY <1>v, <1>g, <2>1 DEF BootView
    <3> QED BY <1>v, <1>g, <2>1, <2>2, <3>1, <3>2 DEF BootView, SerialInv, AckInv
  <2>5. ~TmuxFails => ClosedInv'
    BY <1>v, <1>g, <2>1, <2>2 DEF BootView, SerialInv, ClosedInv
  <2>6. ~Fallible => AliveInv'
    BY <1>v, <1>g, <2>1, <2>2 DEF BootView, SerialInv, AliveInv
  <2>7. ~(Fallible \/ IOFails) => StoredInv'
    BY <1>v, <1>g, <2>1, <2>2 DEF BootView, SerialInv, StoredInv
  <2> QED BY <1>s, <2>3, <2>4, <2>5, <2>6, <2>7 DEF SerialInv
<1>2. ASSUME NEW s \in Sessions, BootResume(s) \/ BootRecreate(s) PROVE SerialInv'
  <2>1. /\ up = "boot" /\ up' = "boot" /\ s \in todo /\ todo' = todo \ {s} /\ UNCHANGED <<loaded, live>>
        /\ metas' = With(s, loaded[s]) /\ UNCHANGED saveVars /\ dirs' = dirs \cup {s} /\ pc[Boot] = "next"
        /\ \/ TmuxFails
           \/ /\ shells' = shells \cup {s}
              /\ \/ s \in live /\ tmux' = tmux
                 \/ s \notin live /\ tmux' = tmux \cup {s}
    BY <1>2 DEF BootResume, BootRecreate, IsNext, Step, At, LimitInv, Booted
  <2>2. Known' = Known \cup {s} /\ metas'[s] = loaded[s] /\ \A t \in Known \ {s} : metas'[t] = metas[t]
    BY <2>1, Added
  <2>0. ~Saving(Boot) /\ ~Saving(Boot)' /\ s \in DOMAIN loaded
    BY <1>v, <1>t, <2>1
  <2>3. MintInv'
    BY <1>v, <1>g, <2>0, <2>1, <2>2 DEF BootView, SerialInv, MintInv
  <2>4. AckInv'
    <3>1. Lost' = Lost /\ s \notin Lost
      BY <1>v, <2>0, <2>1 DEF BootView, Lost
    <3> QED BY <1>v, <1>g, <2>0, <2>1, <2>2, <3>1 DEF BootView, SerialInv, AckInv
  <2>5. ~TmuxFails => ClosedInv'
    BY <1>v, <1>g, <2>0, <2>1, <2>2 DEF BootView, SerialInv, ClosedInv
  <2>6. ~Fallible => AliveInv'
    BY <1>v, <1>g, <2>0, <2>1, <2>2 DEF BootView, SerialInv, AliveInv
  <2>7. ~(Fallible \/ IOFails) => StoredInv'
    BY <1>v, <1>g, <2>0, <2>1, <2>2 DEF BootView, SerialInv, StoredInv
  <2> QED BY <1>s, <2>3, <2>4, <2>5, <2>6, <2>7 DEF SerialInv
<1>3. CASE BootReset
  <2>1. /\ up = "boot" /\ up' = "boot" /\ UNCHANGED <<shells, tmux, dirs, loaded, live, todo>>
    BY <1>3 DEF BootReset, At, LimitInv, Booted, worldVars
  <2>2. /\ Known' = Known
        /\ \/ Saving(Boot)' /\ want'[Boot] = metas'
           \/ metas' = metas /\ want' = want /\ (Saving(Boot)' <=> Saving(Boot))
    <3>1. CASE UNCHANGED <<metas, saveVars>>
      BY <1>v, <3>1 DEF Known
    <3>2. ASSUME NEW m, MutateAndPersist(Boot, arg[Boot], m) PROVE Known' = Known /\ Saving(Boot)' /\ want'[Boot] = metas'
      BY <1>v, <3>2, Added DEF MutateAndPersist
    <3> QED BY <1>3, <3>1, <3>2 DEF BootReset
  <2>0. Saving(Boot)' => DOMAIN want'[Boot] \subseteq Known' \/ (want' = want /\ Saving(Boot))
    BY <2>2 DEF Known
  <2>3. MintInv'
    BY <1>v, <1>g, <2>0, <2>1, <2>2 DEF BootView, SerialInv, MintInv
  <2>4. AckInv'
    <3>1. Lost' = Lost
      BY <1>v, <2>1 DEF BootView, Lost
    <3>2. CASE Saving(Boot)' /\ want'[Boot] = metas'
      <4>1. DOMAIN want'[Boot] = Known
        BY <2>2, <3>2 DEF Known
      <4> QED BY <1>v, <1>g, <2>1, <2>2, <3>1, <3>2, <4>1 DEF BootView, SerialInv, AckInv
    <3>3. CASE metas' = metas /\ want' = want /\ (Saving(Boot)' <=> Saving(Boot))
      BY <1>v, <1>g, <2>1, <2>2, <3>1, <3>3 DEF BootView, SerialInv, AckInv
    <3> QED BY <2>2, <3>2, <3>3
  <2>5. ~TmuxFails => ClosedInv'
    BY <1>v, <1>g, <2>0, <2>1, <2>2 DEF BootView, SerialInv, ClosedInv
  <2>6. ~Fallible => AliveInv'
    BY <1>v, <1>g, <2>0, <2>1, <2>2 DEF BootView, SerialInv, AliveInv
  <2>7. ~(Fallible \/ IOFails) => StoredInv'
    BY <1>v, <1>g, <2>0, <2>1, <2>2 DEF BootView, SerialInv, StoredInv
  <2> QED BY <1>s, <2>3, <2>4, <2>5, <2>6, <2>7 DEF SerialInv
<1>4. CASE BootResetDone
  <2>1. /\ up = "boot" /\ up' = "boot" /\ UNCHANGED <<metas, shells, tmux, dirs, loaded, live, todo>>
        /\ UNCHANGED saveVars /\ Known' = Known
    BY <1>4 DEF BootResetDone, Step, At, LimitInv, Booted, memVars, worldVars, bootVars, Known
  <2>3. MintInv'
    BY <1>v, <1>g, <2>1 DEF BootView, SerialInv, MintInv
  <2>4. AckInv'
    <3>1. Lost' = Lost
      BY <1>v, <2>1 DEF BootView, Lost
    <3> QED BY <1>v, <1>g, <2>1, <3>1 DEF BootView, SerialInv, AckInv
  <2>5. ~TmuxFails => ClosedInv'
    BY <1>v, <1>g, <2>1 DEF BootView, SerialInv, ClosedInv
  <2>6. ~Fallible => AliveInv'
    BY <1>v, <1>g, <2>1 DEF BootView, SerialInv, AliveInv
  <2>7. ~(Fallible \/ IOFails) => StoredInv'
    BY <1>v, <1>g, <2>1 DEF BootView, SerialInv, StoredInv
  <2> QED BY <1>s, <2>3, <2>4, <2>5, <2>6, <2>7 DEF SerialInv
<1>5. CASE BootServe
  <2>1. /\ up = "boot" /\ up' = "serving" /\ UNCHANGED <<metas, shells, dirs, loaded, live, todo>>
        /\ UNCHANGED saveVars /\ Known' = Known
        /\ todo = {} /\ tmux' = tmux \ (live \ DOMAIN loaded) /\ pc[Boot] = "next"
    BY <1>5 DEF BootServe, Step, At, LimitInv, Booted, memVars, bootVars, Known
  <2>0. ~Saving(Boot) /\ ~Saving(Boot)'
    BY <1>v, <2>1
  <2>3. MintInv'
    BY <1>v, <1>g, <2>0, <2>1 DEF BootView, SerialInv, MintInv
  <2>4. AckInv'
    <3>1. Lost' = Lost
      BY <1>v, <2>1 DEF BootView, Lost
    <3> QED BY <1>v, <1>g, <2>0, <2>1, <3>1 DEF BootView, SerialInv, AckInv
  <2>5. ~TmuxFails => ClosedInv'
    BY <1>v, <1>g, <2>0, <2>1 DEF BootView, SerialInv, ClosedInv
  <2>6. ~Fallible => AliveInv'
    <3>1. ~Fallible => shells = Known /\ tmux' = Known /\ Known \subseteq dirs
      BY <2>1 DEF SerialInv, AliveInv
    <3> QED BY <1>v, <1>g, <2>1, <3>1 DEF BootView, AliveInv
  <2>7. ~(Fallible \/ IOFails) => StoredInv'
    BY <1>v, <1>g, <2>0, <2>1 DEF BootView, SerialInv, StoredInv
  <2> QED BY <1>s, <2>3, <2>4, <2>5, <2>6, <2>7 DEF SerialInv
<1> QED BY <1>1, <1>2, <1>3, <1>4, <1>5 DEF Booting

-----------------------------------------------------------------------------
\* Everything at once, for requests that come one at a time.
SerialLife == Serial => SerialInv

LEMMA SerialStep ==
  TypeOK /\ TypeOK' /\ LimitInv /\ SerialLife /\ [Next]_vars => SerialLife'
<1> SUFFICES ASSUME TypeOK, TypeOK', LimitInv, SerialInv, Serial, [Next]_vars
             PROVE SerialInv'
  BY DEF SerialLife, Serial
<1>1. CASE UNCHANGED vars
  <2>1. UNCHANGED <<metas, shells, tmux, dirs, pc, arg, up, loaded, todo, live, minted, crashes, acked, closing,
                    notified, omitted, spc, want, fd, saved, tmp, final, content>>
    BY <1>1 DEF vars, memVars, worldVars, callVars, bootVars, boundVars, histVars, saveVars
  <2>2. UNCHANGED <<File!Stored, StoredIds>> /\ Known' = Known /\ Minted' = Minted /\ Kept' = Kept /\ Lost' = Lost
    BY <2>1, StoredFacts DEF Known, Minted, Kept, Lost
  <2>3. \A g, s, P : (Saving(g)' <=> Saving(g)) /\ (Returned(g)' <=> Returned(g)) /\ (Doing(s, P)' <=> Doing(s, P))
    BY <2>1 DEF Saving, Returned, Doing
  <2>4. SavesInv' /\ MintInv' /\ AckInv'
    BY <2>1, <2>2, <2>3 DEF SerialInv, SavesInv, MintInv, AckInv
  <2>5. ~TmuxFails => ClosedInv'
    BY <2>1, <2>2, <2>3 DEF SerialInv, ClosedInv
  <2>6. ~Fallible => AliveInv'
    BY <2>1, <2>2, <2>3 DEF SerialInv, AliveInv
  <2>7. ~(Fallible \/ IOFails) => StoredInv'
    BY <2>1, <2>2, <2>3 DEF SerialInv, StoredInv
  <2> QED BY <2>4, <2>5, <2>6, <2>7 DEF SerialInv, Fallible
<1>2. CASE Next
  BY <1>2, WorkerSerial, SaveSerial, ExitSerial, GoneSerial, BootSerial DEF Next
<1> QED BY <1>1, <1>2

LEMMA SerialLives == Spec => []SerialLife
<1>1. Init => TypeOK /\ LimitInv /\ SerialLife
  BY TypeInit, LimitInit, SerialInit DEF SerialLife
<1>2. TypeOK /\ LimitInv /\ SerialLife /\ [Next]_vars => (TypeOK /\ LimitInv /\ SerialLife)'
  BY TypeStep, LimitStep, SerialStep
<1> QED BY <1>1, <1>2, PTL DEF Spec

\* With requests one at a time, a session whose creation was reported, and that
\* nobody closed, is there whenever the server serves, whatever fails in tmux and on
\* disk and however often the process dies; unless a boot that started a session anew
\* saved the list without it and died before another save.
THEOREM AckedCorrect == Spec => [](Serial => AckedSurvives)
<1>1. SerialLife => (Serial => AckedSurvives)
  BY DEF SerialLife, SerialInv, AckInv, Kept, AckedSurvives
<1> QED BY <1>1, SerialLives, PTL

\* With requests one at a time and tmux starting every session, nothing brings a
\* session back whose close listeners were called, however often the process dies.
THEOREM ClosedCorrect == Spec => [](Serial /\ ~TmuxFails => ClosedIsGone)
<1>1. SerialLife => (Serial /\ ~TmuxFails => ClosedIsGone)
  BY DEF SerialLife, SerialInv, ClosedInv, ClosedIsGone
<1> QED BY <1>1, SerialLives, PTL

\* With requests one at a time, and as long as tmux, the disk and bash keep working,
\* memory, tmux and the directories agree whenever no request is in progress, however
\* often the process or the pod goes away; and so does sessions.json, but for the
\* sessions that the boot's saves left out of it.
THEOREM SettledCorrect ==
  Spec => [](Serial /\ ~TmuxFails /\ ~IOFails /\ ~MayExit => SettledSound)
<1>1. TypeOK /\ LimitInv /\ SerialLife => (Serial /\ ~TmuxFails /\ ~IOFails /\ ~MayExit => SettledSound)
  <2> SUFFICES ASSUME TypeOK, LimitInv, SerialInv, ~TmuxFails, ~IOFails, ~MayExit, Settled
               PROVE  SettledSound
    BY DEF SerialLife, SettledSound, SettledAlive, SettledStored
  <2>1. AliveInv /\ StoredInv /\ SavesInv
    BY DEF SerialInv, Fallible
  <2>2. /\ up = "serving"
        /\ \A w \in Workers : /\ pc[w] = "idle" /\ ~Saving(w)
                              /\ pc[w] \notin Unshelled \cup Unsaved
        /\ \A s : /\ ~Doing(s, Unshelled) /\ ~Doing(s, {"startDirs", "startTmux"})
                  /\ ~Doing(s, {"rollback", "closeShell"}) /\ ~Doing(s, {"startDirs"})
    BY <2>1 DEF Settled, At, SavesInv, Savers, Returned, Saving, Unshelled, Unsaved, Doing
  <2>3. Known \subseteq Sessions /\ shells \subseteq Sessions /\ tmux \subseteq Sessions
    BY MetaFacts DEF TypeOK, TypeMemory, TypeWorld
  <2>4. SettledAlive
    BY <2>1, <2>2, <2>3 DEF AliveInv, SettledAlive
  <2>5. SettledStored
    BY <2>1, <2>2 DEF StoredInv, SettledStored
  <2> QED BY <2>4, <2>5 DEF SettledSound
<1> QED BY <1>1, ManagerInvariant, SerialLives, PTL

=============================================================================
