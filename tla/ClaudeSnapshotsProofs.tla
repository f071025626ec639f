------------------------ MODULE ClaudeSnapshotsProofs ------------------------
(* No goroutine or lock outlives its session, Shutdown's last write is the    *)
(* state of the session, and after a restart nothing waits for a claude that  *)
(* is gone: for any callers, objects, prompts, events and server processes,   *)
(* wherever a process dies and however deletion, loading and shutdown meet.   *)
(* The last rests on what Load makes of any snapshot and any transcript.      *)
EXTENDS ClaudeSnapshots, Integers, FiniteSetTheorems, WellFoundedInduction, TLAPS

-----------------------------------------------------------------------------
(* Numbers, and what a fold returns *)

\* A set of numbers has a least element.
LEMMA Least == ASSUME NEW T \in SUBSET Nat, T # {} PROVE \E x \in T : \A y \in T : x <= y
<1>1. PICK m \in T : TRUE
  OBVIOUS
<1> DEFINE S == 1..m
           U == {s \in SUBSET S : \E k \in T : s = 1..k}
<1>2. IsFiniteSet(S) /\ FiniteSubsetsOf(S) = SUBSET S
  <2>1. IsFiniteSet(S)
    BY <1>1, FS_Interval
  <2> QED BY <2>1, FS_FiniteSubsetsOfFinite
<1>3. IsWellFoundedOn(StrictSubsetOrdering(S), SUBSET S)
  BY <1>2, FS_StrictSubsetOrderingWellFounded
<1>4. U \subseteq SUBSET S /\ 1..m \in U
  BY <1>1
<1>5. PICK s \in U : \A t \in U : <<t, s>> \notin StrictSubsetOrdering(S)
  <2> HIDE DEF U, S
  <2> QED BY <1>3, <1>4, WFMin
<1>6. PICK x \in T : s = 1..x /\ s \subseteq S
  OBVIOUS
<1>7. ASSUME NEW y \in T, y < x PROVE FALSE
  <2>1. 1..y \subseteq s /\ 1..y # s
    BY <1>6, <1>7
  <2>2. 1..y \in U
    BY <1>6, <1>7, <2>1
  <2> QED BY <1>5, <1>6, <2>1, <2>2 DEF StrictSubsetOrdering
<1> QED BY <1>7

\* And a set of positions its first and its last one.
LEMMA FirstIs ==
  ASSUME NEW S \in SUBSET Nat, S # {}
  PROVE  FirstOf(S) \in S /\ \A j \in S : FirstOf(S) <= j
BY Least DEF FirstOf

LEMMA LastIs ==
  ASSUME NEW n \in Nat, NEW S \in SUBSET (1..n), S # {}
  PROVE  \E x \in S : \A y \in S : y <= x
<1> DEFINE T == {n - y : y \in S}
<1>1. T \in SUBSET Nat /\ T # {}
  OBVIOUS
<1>2. PICK m \in T : \A t \in T : m <= t
  <2> HIDE DEF T
  <2> QED BY <1>1, Least
<1>3. PICK x \in S : m = n - x
  OBVIOUS
<1>4. ASSUME NEW y \in S PROVE y <= x
  <2>1. n - y \in T
    OBVIOUS
  <2> QED BY <1>2, <1>3, <2>1
<1> QED BY <1>4

LEMMA MaxIs ==
  ASSUME NEW n \in Nat, NEW S \in SUBSET (1..n), S # {}
  PROVE  Max(S) \in S /\ \A y \in S : y <= Max(S)
BY LastIs DEF Max

\* g folds the steps F of n positions, from base on.
Folds(g, F, base, n) ==
  g = [s \in SUBSET (1..n) |-> IF s = {} THEN base ELSE F[Max(s)][g[s \ {Max(s)}]]]

\* There is such a g.
LEMMA FoldExists ==
  ASSUME NEW A, NEW base \in A, NEW n \in Nat, NEW F \in [1..n -> [A -> A]]
  PROVE  \E g \in [SUBSET (1..n) -> A] : Folds(g, F, base, n)
<1> DEFINE Sol(g, k) == Folds(g, F, base, k)
           Solved(k) == \E g \in [SUBSET (1..k) -> A] : Sol(g, k)
           Bad == {k \in 0..n : ~Solved(k)}
<1>1. SUFFICES ASSUME ~Solved(n) PROVE FALSE
  OBVIOUS
<1>2. PICK k \in Bad : \A j \in Bad : k <= j
  <2> HIDE DEF Solved
  <2>1. Bad \in SUBSET Nat /\ n \in Bad
    BY <1>1
  <2> HIDE DEF Bad
  <2> QED BY <2>1, Least
<1>3. k # 0
  <2>1. ASSUME k = 0 PROVE FALSE
    <3> DEFINE g == [s \in SUBSET (1..0) |-> base]
    <3>1. \A s \in SUBSET (1..0) : s = {}
      OBVIOUS
    <3>2. g \in [SUBSET (1..0) -> A] /\ Sol(g, 0)
      BY <3>1 DEF Folds
    <3> HIDE DEF Sol, g
    <3> QED BY <2>1, <3>2
  <2> QED BY <2>1
<1>4. k \in 1..n /\ Solved(k - 1) /\ ~Solved(k)
  <2> HIDE DEF Solved
  <2>1. k - 1 \in 0..n /\ k - 1 \notin Bad
    BY <1>2, <1>3
  <2> QED BY <1>3, <2>1
<1>5. PICK g \in [SUBSET (1..(k - 1)) -> A] : Sol(g, k - 1)
  BY <1>4
<1> DEFINE h == [s \in SUBSET (1..k) |-> IF s = {} THEN base ELSE F[Max(s)][g[s \ {Max(s)}]]]
<1>6. ASSUME NEW s \in SUBSET (1..k), s # {}
      PROVE  /\ Max(s) \in 1..n /\ s \ {Max(s)} \in SUBSET (1..(k - 1))
             /\ h[s \ {Max(s)}] = g[s \ {Max(s)}]
  <2> HIDE DEF Bad, Sol, Solved
  <2>1. k \in Nat /\ s \in SUBSET (1..n)
    BY <1>4
  <2>2. Max(s) \in s /\ \A y \in s : y <= Max(s)
    BY <1>6, <2>1, MaxIs
  <2>3. s \ {Max(s)} \in SUBSET (1..(k - 1))
    <3> HIDE DEF h
    <3>1. ASSUME NEW y \in s, y # Max(s) PROVE y \in 1..(k - 1)
      <4>1. y \in 1..k /\ Max(s) \in 1..k /\ y <= Max(s)
        BY <2>2
      <4> QED BY <1>4, <3>1, <4>1
    <3> QED BY <3>1
  <2>4. ASSUME NEW t \in SUBSET (1..(k - 1)) PROVE h[t] = g[t]
    <3>1. t \in SUBSET (1..k)
      BY <1>4
    <3>2. g[t] = IF t = {} THEN base ELSE F[Max(t)][g[t \ {Max(t)}]]
      BY <1>5 DEF Sol, Folds
    <3> QED BY <3>1, <3>2
  <2>5. Max(s) \in 1..n
    BY <2>1, <2>2
  <2>6. h[s \ {Max(s)}] = g[s \ {Max(s)}]
    <3> HIDE DEF h
    <3> QED BY <2>3, <2>4
  <2> QED BY <2>3, <2>5, <2>6
<1>7. h \in [SUBSET (1..k) -> A]
  <2> HIDE DEF Bad, Sol, Solved
  <2>1. ASSUME NEW s \in SUBSET (1..k), s # {} PROVE F[Max(s)][g[s \ {Max(s)}]] \in A
    <3>1. Max(s) \in 1..n /\ s \ {Max(s)} \in SUBSET (1..(k - 1))
      <4> HIDE DEF h
      <4> QED BY <1>6, <2>1
    <3>2. g[s \ {Max(s)}] \in A
      BY <3>1
    <3>3. F[Max(s)] \in [A -> A]
      BY <3>1
    <3> QED BY <3>2, <3>3
  <2> QED BY <2>1
<1>8. Sol(h, k)
  <2> HIDE DEF Bad, Solved
  <2>1. ASSUME NEW s \in SUBSET (1..k)
        PROVE  h[s] = IF s = {} THEN base ELSE F[Max(s)][h[s \ {Max(s)}]]
    <3>1. h[s] = IF s = {} THEN base ELSE F[Max(s)][g[s \ {Max(s)}]]
      OBVIOUS
    <3> HIDE DEF h
    <3> QED BY <1>6, <3>1
  <2> HIDE DEF h
  <2>2. h = [s \in SUBSET (1..k) |-> h[s]]
    BY <1>7
  <2> QED BY <2>1, <2>2 DEF Folds
<1> HIDE DEF Sol, h
<1> QED BY <1>4, <1>7, <1>8

\* What each step of a fold keeps, the fold keeps.
LEMMA FoldKeeps ==
  ASSUME NEW A, NEW n \in Nat, NEW g, g[{}] \in A,
         \A s \in SUBSET (1..n) : s # {} /\ g[s \ {Max(s)}] \in A => g[s] \in A
  PROVE  g[1..n] \in A
<1> DEFINE Bad == {k \in 0..n : \E s \in SUBSET (1..k) : s \in SUBSET (1..n) /\ g[s] \notin A}
<1>1. SUFFICES ASSUME Bad # {} PROVE FALSE
  OBVIOUS
<1>2. PICK k \in Bad : \A j \in Bad : k <= j
  <2>1. Bad \in SUBSET Nat
    OBVIOUS
  <2> HIDE DEF Bad
  <2> QED BY <1>1, <2>1, Least
<1>3. PICK s \in SUBSET (1..k) : s \in SUBSET (1..n) /\ g[s] \notin A
  OBVIOUS
<1>4. s # {}
  BY <1>3
<1>5. Max(s) \in s /\ \A y \in s : y <= Max(s)
  BY <1>3, <1>4, MaxIs
<1>6. Max(s) \in 1..k /\ k - 1 \in 0..n /\ s \ {Max(s)} \in SUBSET (1..(k - 1)) /\ s \ {Max(s)} \in SUBSET (1..n)
  <2>1. k \in 0..n /\ Max(s) \in 1..k
    BY <1>3, <1>5
  <2> HIDE DEF Bad
  <2>2. k - 1 \in 0..n
    BY <2>1
  <2>3. ASSUME NEW y \in s, y # Max(s) PROVE y \in 1..(k - 1)
    BY <1>5, <2>1, <2>3
  <2> QED BY <1>3, <2>1, <2>2, <2>3
<1>7. g[s \ {Max(s)}] \notin A
  BY <1>3, <1>4
<1>8. k - 1 \in Bad
  BY <1>6, <1>7
<1> QED BY <1>2, <1>6, <1>8

-----------------------------------------------------------------------------
(* Load: the transcript *)

\* Whatever a name or a text may be.
Texts == Words \cup {"prompt", "tool", "in", "out", "exit", "server_restart", "interrupted", "killed"}

Settled == {"completed", "errored", "aborted"}

\* Blocks and turns as the files and the loader have them.
ATool == [kind : {"tool"}, id : Texts, decision : {"pending", "allow", "deny"},
          outcome : {"open"} \cup Settled, input : Texts, result : Texts, task : Texts]
ABlock == [kind : {"text"}, text : Seq(Texts)] \cup ATool
Turns(outcomes) == [id : Nat, blocks : Seq(ABlock), thinking : Seq(Seq(Texts)), usage : Texts,
                    outcome : outcomes, reason : Texts]
Read   == Turns({Sealed})                             \* from a transcript
Saved  == Turns({"open"} \cup Settled)                \* in a snapshot, or in memory
Merges == Turns({"open", Sealed, "sealed_error"} \cup Settled)

\* Lines of a transcript.
AResult == [id : Texts, content : Texts]
AnItem == [type : {"text", "thinking"}, text : Texts] \cup [type : {"tool_use"}, id : Texts, input : Texts]
ALine ==
  [type : {"user"}, content : {"prompt"}, uuid : Nat] \cup
  [type : {"user"}, content : {"results"}, results : Seq(AResult)] \cup
  [type : {"assistant"}, items : Seq(AnItem)] \cup
  [type : {"system"}, subtype : {"task_started"}, task : Texts, tool : Texts] \cup
  [type : {"system"}, subtype : {"task_notification", "task_updated"}, task : Texts, status : Texts] \cup
  [type : {"system"}, subtype : {"hook_started", "hook_response"}] \cup
  [type : {"unknown"}]

LEMMA PatchKeeps ==
  ASSUME NEW blocks \in Seq(ABlock), NEW item \in AResult
  PROVE  PatchResult(blocks, item) \in Seq(ABlock)
<1> DEFINE at == ToolsAt([blocks |-> blocks], item.id)
<1>1. CASE at = {}
  BY <1>1 DEF PatchResult
<1>2. CASE at # {}
  <2>1. PICK i \in DOMAIN blocks : i = FirstOf(at) /\ blocks[i].kind = "tool"
    <3>1. at \in SUBSET Nat
      BY DEF ToolsAt
    <3>2. FirstOf(at) \in at
      BY <1>2, <3>1, FirstIs
    <3> QED BY <3>2 DEF ToolsAt
  <2>2. [blocks[i] EXCEPT !.result = item.content] \in ABlock
    <3>1. blocks[i] \in ABlock /\ item.content \in Texts
      BY DEF AResult
    <3>2. blocks[i] \in ATool
      BY <2>1, <3>1 DEF ABlock
    <3>3. [blocks[i] EXCEPT !.result = item.content] \in ATool
      BY <3>1, <3>2 DEF ATool
    <3> QED BY <3>3 DEF ABlock
  <2>3. PatchResult(blocks, item) = [blocks EXCEPT ![i] = [blocks[i] EXCEPT !.result = item.content]]
    BY <1>2, <2>1 DEF PatchResult
  <2> QED BY <2>1, <2>2, <2>3
<1> QED BY <1>1, <1>2

\* The results of a user line.
LEMMA PatchesKeep ==
  ASSUME NEW blocks \in Seq(ABlock), NEW results \in Seq(AResult)
  PROVE  FoldLeft(PatchResult, blocks, results) \in Seq(ABlock)
<1> DEFINE n == Len(results)
           F == [i \in 1..n |-> [a \in Seq(ABlock) |-> PatchResult(a, results[i])]]
           Eq(g) == g = [s \in SUBSET (DOMAIN results) |->
                           IF s = {} THEN blocks ELSE PatchResult(g[s \ {Max(s)}], results[Max(s)])]
           iter == CHOOSE g : Eq(g)
<1>1. n \in Nat /\ DOMAIN results = 1..n
  OBVIOUS
<1>2. ASSUME NEW i \in 1..n, NEW a \in Seq(ABlock) PROVE PatchResult(a, results[i]) \in Seq(ABlock)
  <2>1. results[i] \in AResult
    BY <1>1
  <2> QED BY <2>1, PatchKeeps
<1>3. F \in [1..n -> [Seq(ABlock) -> Seq(ABlock)]]
  BY <1>2
<1>4. PICK g \in [SUBSET (1..n) -> Seq(ABlock)] : Folds(g, F, blocks, n)
  <2> HIDE DEF F, n
  <2> QED BY <1>1, <1>3, FoldExists
<1>5. ASSUME NEW s \in SUBSET (1..n)
      PROVE  g[s] = IF s = {} THEN blocks ELSE PatchResult(g[s \ {Max(s)}], results[Max(s)])
  <2>1. g[s] = IF s = {} THEN blocks ELSE F[Max(s)][g[s \ {Max(s)}]]
    BY <1>4 DEF Folds
  <2>2. ASSUME s # {} PROVE Max(s) \in 1..n /\ g[s \ {Max(s)}] \in Seq(ABlock)
    BY <1>1, <1>4, <2>2, MaxIs
  <2> QED BY <2>1, <2>2
<1>6. Eq(iter)
  <2>1. Eq([s \in SUBSET (1..n) |-> g[s]])
    <3>1. \A s \in SUBSET (1..n) : s \ {Max(s)} \in SUBSET (1..n)
      OBVIOUS
    <3> QED BY <1>1, <1>5, <3>1
  <2> HIDE DEF Eq
  <2> QED BY <2>1
<1>7. FoldLeft(PatchResult, blocks, results) = iter[DOMAIN results]
  BY DEF FoldLeft, MapThenFoldSet
<1>8. iter[{}] \in Seq(ABlock)
  <2> HIDE DEF iter
  <2> QED BY <1>6
<1>9. ASSUME NEW s \in SUBSET (1..n), s # {}, iter[s \ {Max(s)}] \in Seq(ABlock) PROVE iter[s] \in Seq(ABlock)
  <2> HIDE DEF iter
  <2>1. Max(s) \in 1..n
    BY <1>1, <1>9, MaxIs
  <2>2. iter[s] = PatchResult(iter[s \ {Max(s)}], results[Max(s)])
    BY <1>1, <1>6, <1>9
  <2> QED BY <1>2, <1>9, <2>1, <2>2
<1>10. iter[1..n] \in Seq(ABlock)
  <2> HIDE DEF iter, n
  <2> QED BY <1>1, <1>8, <1>9, FoldKeeps
<1> QED BY <1>1, <1>7, <1>10

LEMMA TextsHave ==
  {"", "none", "prompt", "tool", "in", "out", "exit", "server_restart", "interrupted", "killed"} \subseteq Texts
BY WordsAssumption DEF Texts

\* What a change of one field leaves of a turn.
LEMMA TurnFields ==
  ASSUME NEW outcomes, NEW turn \in Turns(outcomes)
  PROVE  /\ turn.blocks \in Seq(ABlock) /\ turn.thinking \in Seq(Seq(Texts)) /\ turn.outcome \in outcomes
         /\ \A blocks \in Seq(ABlock) : [turn EXCEPT !.blocks = blocks] \in Turns(outcomes)
         /\ \A thinking \in Seq(Seq(Texts)) : [turn EXCEPT !.thinking = thinking] \in Turns(outcomes)
BY DEF Turns

LEMMA Appended == ASSUME NEW S, NEW seq \in Seq(S), NEW e \in S PROVE Append(seq, e) \in Seq(S)
OBVIOUS

LEMMA AddKeeps == ASSUME NEW turn \in Read, NEW item \in AnItem PROVE AddItem(turn, item) \in Read
<1>1. turn \in Turns({Sealed}) /\ turn.blocks \in Seq(ABlock) /\ turn.thinking \in Seq(Seq(Texts))
  BY TurnFields DEF Read
<1>2. CASE item.type = "text" /\ item.text # ""
  <2>1. item.text \in Texts
    BY <1>2 DEF AnItem
  <2>2. TextBlock(<<item.text>>) \in ABlock
    BY <2>1 DEF TextBlock, ABlock
  <2> DEFINE new == Append(turn.blocks, TextBlock(<<item.text>>))
  <2>3. new \in Seq(ABlock)
    BY <1>1, <2>2, Appended
  <2>4. AddItem(turn, item) = [turn EXCEPT !.blocks = new]
    BY <1>2 DEF AddItem
  <2> HIDE DEF new
  <2> QED BY <1>1, <2>3, <2>4, TurnFields DEF Read
<1>3. CASE item.type = "thinking" /\ item.text # ""
  <2>1. item.text \in Texts
    BY <1>3 DEF AnItem
  <2>2. <<item.text>> \in Seq(Texts)
    BY <2>1
  <2> DEFINE new == Append(turn.thinking, <<item.text>>)
  <2>3. new \in Seq(Seq(Texts))
    BY <1>1, <2>2, Appended
  <2>4. AddItem(turn, item) = [turn EXCEPT !.thinking = new]
    BY <1>3 DEF AddItem
  <2> HIDE DEF new
  <2> QED BY <1>1, <2>3, <2>4, TurnFields DEF Read
<1>4. CASE item.type = "tool_use"
  <2>1. item.id \in Texts /\ item.input \in Texts
    BY <1>4 DEF AnItem
  <2>2. HistoryTool(item) \in ABlock
    BY <2>1, TextsHave DEF HistoryTool, ToolBlock, ABlock, ATool
  <2> DEFINE new == Append(turn.blocks, HistoryTool(item))
  <2>3. new \in Seq(ABlock)
    BY <1>1, <2>2, Appended
  <2>4. AddItem(turn, item) = [turn EXCEPT !.blocks = new]
    BY <1>4 DEF AddItem
  <2> HIDE DEF new
  <2> QED BY <1>1, <2>3, <2>4, TurnFields DEF Read
<1>5. CASE ~(item.type = "text" /\ item.text # "") /\ ~(item.type = "thinking" /\ item.text # "")
           /\ item.type # "tool_use"
  BY <1>5 DEF AddItem
<1> QED BY <1>2, <1>3, <1>4, <1>5

\* The items of an assistant line.
LEMMA AddsKeep ==
  ASSUME NEW turn \in Read, NEW items \in Seq(AnItem)
  PROVE  FoldLeft(AddItem, turn, items) \in Read
<1> DEFINE n == Len(items)
           F == [i \in 1..n |-> [a \in Read |-> AddItem(a, items[i])]]
           Eq(g) == g = [s \in SUBSET (DOMAIN items) |->
                           IF s = {} THEN turn ELSE AddItem(g[s \ {Max(s)}], items[Max(s)])]
           iter == CHOOSE g : Eq(g)
<1>1. n \in Nat /\ DOMAIN items = 1..n
  OBVIOUS
<1>2. ASSUME NEW i \in 1..n, NEW a \in Read PROVE AddItem(a, items[i]) \in Read
  <2>1. items[i] \in AnItem
    BY <1>1
  <2> QED BY <2>1, AddKeeps
<1>3. F \in [1..n -> [Read -> Read]]
  BY <1>2
<1>4. PICK g \in [SUBSET (1..n) -> Read] : Folds(g, F, turn, n)
  <2> HIDE DEF F, n
  <2> QED BY <1>1, <1>3, FoldExists
<1>5. ASSUME NEW s \in SUBSET (1..n)
      PROVE  g[s] = IF s = {} THEN turn ELSE AddItem(g[s \ {Max(s)}], items[Max(s)])
  <2>1. g[s] = IF s = {} THEN turn ELSE F[Max(s)][g[s \ {Max(s)}]]
    BY <1>4 DEF Folds
  <2>2. ASSUME s # {} PROVE Max(s) \in 1..n /\ g[s \ {Max(s)}] \in Read
    BY <1>1, <1>4, <2>2, MaxIs
  <2> QED BY <2>1, <2>2
<1>6. Eq(iter)
  <2>1. Eq([s \in SUBSET (1..n) |-> g[s]])
    <3>1. \A s \in SUBSET (1..n) : s \ {Max(s)} \in SUBSET (1..n)
      OBVIOUS
    <3> QED BY <1>1, <1>5, <3>1
  <2> HIDE DEF Eq
  <2> QED BY <2>1
<1>7. FoldLeft(AddItem, turn, items) = iter[DOMAIN items]
  BY DEF FoldLeft, MapThenFoldSet
<1>8. iter[{}] \in Read
  <2> HIDE DEF iter
  <2> QED BY <1>6
<1>9. ASSUME NEW s \in SUBSET (1..n), s # {}, iter[s \ {Max(s)}] \in Read PROVE iter[s] \in Read
  <2> HIDE DEF iter
  <2>1. Max(s) \in 1..n
    BY <1>1, <1>9, MaxIs
  <2>2. iter[s] = AddItem(iter[s \ {Max(s)}], items[Max(s)])
    BY <1>1, <1>6, <1>9
  <2> QED BY <1>2, <1>9, <2>1, <2>2
<1>10. iter[1..n] \in Read
  <2> HIDE DEF iter, n
  <2> QED BY <1>1, <1>8, <1>9, FoldKeeps
<1> QED BY <1>1, <1>7, <1>10

LEMMA ReadKeeps == ASSUME NEW turns \in Seq(Read), NEW line \in ALine PROVE ReadLine(turns, line) \in Seq(Read)
<1>1. CASE line.type = "user"
  <2>1. ReadLine(turns, line) = HandleUser(turns, line)
    BY <1>1 DEF ReadLine
  <2>2. CASE line.content = "prompt"
    <3>1. line.uuid \in Nat
      BY <1>1, <2>2 DEF ALine
    <3>2. HistoryTurn(line.uuid) \in Read
      <4>1. <<>> \in Seq(ABlock) /\ <<>> \in Seq(Seq(Texts)) /\ "none" \in Texts
        <5>1. \A S : <<>> \in Seq(S)
          OBVIOUS
        <5> QED BY <5>1, TextsHave
      <4>2. HistoryTurn(line.uuid) = [id |-> line.uuid, blocks |-> <<>>, thinking |-> <<>>, usage |-> "none",
                                      outcome |-> Sealed, reason |-> "none"]
        BY DEF HistoryTurn, NewTurn
      <4> QED BY <3>1, <4>1, <4>2 DEF Read, Turns
    <3>3. HandleUser(turns, line) = Append(turns, HistoryTurn(line.uuid))
      BY <2>2 DEF HandleUser
    <3> QED BY <2>1, <3>2, <3>3
  <2>3. CASE line.content # "prompt" /\ turns = <<>>
    BY <2>1, <2>3 DEF HandleUser
  <2>4. CASE line.content # "prompt" /\ turns # <<>>
    <3>1. line.results \in Seq(AResult)
      BY <1>1, <2>4 DEF ALine
    <3> DEFINE n == Len(turns)
               blocks == FoldLeft(PatchResult, turns[n].blocks, line.results)
    <3>2. n \in DOMAIN turns /\ turns[n] \in Read
      BY <2>4
    <3>3. blocks \in Seq(ABlock)
      <4>1. turns[n].blocks \in Seq(ABlock)
        BY <3>2 DEF Read, Turns
      <4> QED BY <3>1, <4>1, PatchesKeep
    <3>4. HandleUser(turns, line) = [turns EXCEPT ![n] = [turns[n] EXCEPT !.blocks = blocks]]
      BY <2>4 DEF HandleUser
    <3>5. [turns[n] EXCEPT !.blocks = blocks] \in Read
      <4> HIDE DEF blocks
      <4> QED BY <3>2, <3>3 DEF Read, Turns
    <3> HIDE DEF blocks, n
    <3> QED BY <2>1, <3>2, <3>4, <3>5
  <2> QED BY <2>2, <2>3, <2>4
<1>2. CASE line.type = "assistant"
  <2>1. ReadLine(turns, line) = HandleAssistant(turns, line)
    BY <1>2 DEF ReadLine
  <2>2. CASE turns = <<>>
    BY <2>1, <2>2 DEF HandleAssistant
  <2>3. CASE turns # <<>>
    <3> DEFINE n == Len(turns)
               turn == FoldLeft(AddItem, turns[n], line.items)
    <3>1. line.items \in Seq(AnItem)
      BY <1>2 DEF ALine
    <3>2. n \in DOMAIN turns /\ turns[n] \in Read
      BY <2>3
    <3>3. turn \in Read
      BY <3>1, <3>2, AddsKeep
    <3>4. HandleAssistant(turns, line) = [turns EXCEPT ![n] = turn]
      BY <2>3 DEF HandleAssistant
    <3> HIDE DEF turn, n
    <3> QED BY <2>1, <3>2, <3>3, <3>4
  <2> QED BY <2>2, <2>3
<1>3. CASE line.type \notin {"user", "assistant"}
  BY <1>3 DEF ReadLine
<1> QED BY <1>1, <1>2, <1>3

\* A whole transcript.
LEMMA ReadsKeep ==
  ASSUME NEW turns \in Seq(Read), NEW lines \in Seq(ALine)
  PROVE  FoldLeft(ReadLine, turns, lines) \in Seq(Read)
<1> DEFINE n == Len(lines)
           F == [i \in 1..n |-> [a \in Seq(Read) |-> ReadLine(a, lines[i])]]
           Eq(g) == g = [s \in SUBSET (DOMAIN lines) |->
                           IF s = {} THEN turns ELSE ReadLine(g[s \ {Max(s)}], lines[Max(s)])]
           iter == CHOOSE g : Eq(g)
<1>1. n \in Nat /\ DOMAIN lines = 1..n
  OBVIOUS
<1>2. ASSUME NEW i \in 1..n, NEW a \in Seq(Read) PROVE ReadLine(a, lines[i]) \in Seq(Read)
  <2>1. lines[i] \in ALine
    BY <1>1
  <2> QED BY <2>1, ReadKeeps
<1>3. F \in [1..n -> [Seq(Read) -> Seq(Read)]]
  BY <1>2
<1>4. PICK g \in [SUBSET (1..n) -> Seq(Read)] : Folds(g, F, turns, n)
  <2> HIDE DEF F, n
  <2> QED BY <1>1, <1>3, FoldExists
<1>5. ASSUME NEW s \in SUBSET (1..n)
      PROVE  g[s] = IF s = {} THEN turns ELSE ReadLine(g[s \ {Max(s)}], lines[Max(s)])
  <2>1. g[s] = IF s = {} THEN turns ELSE F[Max(s)][g[s \ {Max(s)}]]
    BY <1>4 DEF Folds
  <2>2. ASSUME s # {} PROVE Max(s) \in 1..n /\ g[s \ {Max(s)}] \in Seq(Read)
    BY <1>1, <1>4, <2>2, MaxIs
  <2> QED BY <2>1, <2>2
<1>6. Eq(iter)
  <2>1. Eq([s \in SUBSET (1..n) |-> g[s]])
    <3>1. \A s \in SUBSET (1..n) : s \ {Max(s)} \in SUBSET (1..n)
      OBVIOUS
    <3> QED BY <1>1, <1>5, <3>1
  <2> HIDE DEF Eq
  <2> QED BY <2>1
<1>7. FoldLeft(ReadLine, turns, lines) = iter[DOMAIN lines]
  BY DEF FoldLeft, MapThenFoldSet
<1>8. iter[{}] \in Seq(Read)
  <2> HIDE DEF iter
  <2> QED BY <1>6
<1>9. ASSUME NEW s \in SUBSET (1..n), s # {}, iter[s \ {Max(s)}] \in Seq(Read) PROVE iter[s] \in Seq(Read)
  <2> HIDE DEF iter
  <2>1. Max(s) \in 1..n
    BY <1>1, <1>9, MaxIs
  <2>2. iter[s] = ReadLine(iter[s \ {Max(s)}], lines[Max(s)])
    BY <1>1, <1>6, <1>9
  <2> QED BY <1>2, <1>9, <2>1, <2>2
<1>10. iter[1..n] \in Seq(Read)
  <2> HIDE DEF iter, n
  <2> QED BY <1>1, <1>8, <1>9, FoldKeeps
<1> QED BY <1>1, <1>7, <1>10

LEMMA HistoryTyped ==
  ASSUME NEW lines \in Seq(ALine) \cup {NoFile}
  PROVE  LoadJsonl(lines) \in Seq(Read) \cup {NoFile}
<1>1. CASE lines = NoFile
  BY <1>1 DEF LoadJsonl
<1>2. CASE lines # NoFile
  <2>1. <<>> \in Seq(Read) /\ lines \in Seq(ALine)
    BY <1>2
  <2> DEFINE turns == FoldLeft(ReadLine, <<>>, lines)
  <2>2. turns \in Seq(Read)
    BY <2>1, ReadsKeep
  <2>3. Parse(lines, 0, "") = turns
    BY DEF Parse, Paginate
  <2> HIDE DEF turns
  <2> QED BY <2>2, <2>3 DEF LoadJsonl
<1> QED BY <1>1, <1>2

-----------------------------------------------------------------------------
(* Load: the merge *)

Ids(turns) == [i \in DOMAIN turns |-> turns[i].id]

Closed == Turns({Sealed, "sealed_error"})

\* The last position with a property, as the merge picks it.
LEMMA LastOf ==
  ASSUME NEW n \in Nat, NEW S \in SUBSET (1..n), S # {}
  PROVE  (CHOOSE j \in S : \A k \in S : k <= j) \in S
BY LastIs

LEMMA MergeBlocksTyped ==
  ASSUME NEW history \in Seq(ABlock), NEW file \in Seq(ABlock)
  PROVE  MergeBlocks(history, file) \in Seq(ABlock)
<1> DEFINE n == Len(history)
           same(i) == {j \in DOMAIN file : file[j].kind = "tool" /\ file[j].id = history[i].id}
           last(i) == CHOOSE j \in same(i) : \A k \in same(i) : k <= j
           e(i) == IF history[i].kind = "text" \/ same(i) = {} THEN history[i]
                   ELSE [history[i] EXCEPT !.decision = file[last(i)].decision, !.task = file[last(i)].task,
                                           !.outcome = file[last(i)].outcome]
<1>1. n \in Nat /\ DOMAIN history = 1..n /\ Len(file) \in Nat /\ DOMAIN file = 1..Len(file)
  OBVIOUS
<1>2. MergeBlocks(history, file) = [i \in 1..n |-> e(i)]
  BY <1>1 DEF MergeBlocks
<1>3. ASSUME NEW i \in 1..n PROVE e(i) \in ABlock
  <2>1. history[i] \in ABlock
    BY <1>1
  <2>2. CASE history[i].kind = "text" \/ same(i) = {}
    BY <2>1, <2>2
  <2>3. CASE ~(history[i].kind = "text" \/ same(i) = {})
    <3>1. last(i) \in same(i)
      <4>1. same(i) \in SUBSET (1..Len(file))
        BY <1>1
      <4> HIDE DEF same
      <4> QED BY <1>1, <2>3, <4>1, LastOf
    <3>2. last(i) \in 1..Len(file) /\ file[last(i)].kind = "tool"
      <4> HIDE DEF last
      <4> QED BY <1>1, <3>1
    <3>3. PICK b \in ABlock : b = file[last(i)] /\ b.kind = "tool"
      <4> HIDE DEF last
      <4> QED BY <1>1, <3>2
    <3>4. b \in ATool
      BY <3>3 DEF ABlock
    <3>5. history[i] \in ATool
      BY <2>1, <2>3 DEF ABlock
    <3>6. e(i) = [history[i] EXCEPT !.decision = b.decision, !.task = b.task, !.outcome = b.outcome]
      <4> HIDE DEF last, same
      <4> QED BY <2>3, <3>3
    <3>7. e(i) \in ATool
      <4> HIDE DEF e
      <4> QED BY <3>4, <3>5, <3>6 DEF ATool
    <3> QED BY <3>7 DEF ABlock
  <2> QED BY <2>2, <2>3
<1> HIDE DEF e, n
<1> QED BY <1>1, <1>2, <1>3

LEMMA MergeOneTyped ==
  ASSUME NEW turn \in Read, NEW file \in Saved
  PROVE  MergeOneTurn(turn, file) \in Closed /\ MergeOneTurn(turn, file).id = turn.id
<1> DEFINE blocks == MergeBlocks(turn.blocks, file.blocks)
           outcome == IF file.outcome \in {"errored", "aborted"} THEN "sealed_error" ELSE Sealed
           usage == IF file.usage = "none" THEN turn.usage ELSE file.usage
<1>1. turn.blocks \in Seq(ABlock) /\ file.blocks \in Seq(ABlock) /\ usage \in Texts
  BY DEF Read, Saved, Turns
<1>2. blocks \in Seq(ABlock)
  BY <1>1, MergeBlocksTyped
<1>3. MergeOneTurn(turn, file) = [turn EXCEPT !.outcome = outcome, !.usage = usage, !.blocks = blocks]
  BY DEF MergeOneTurn
<1>4. outcome \in {Sealed, "sealed_error"}
  OBVIOUS
<1> HIDE DEF blocks, outcome, usage
<1> QED BY <1>1, <1>2, <1>3, <1>4 DEF Read, Closed, Turns

LEMMA MergeTyped ==
  ASSUME NEW history \in Seq(Read), NEW file \in Seq(Saved)
  PROVE  MergeTurns(history, file) \in Seq(Closed) /\ Ids(MergeTurns(history, file)) = Ids(history)
<1> DEFINE n == Len(history)
           same(i) == {j \in DOMAIN file : file[j].id = history[i].id}
           last(i) == CHOOSE j \in same(i) : \A k \in same(i) : k <= j
           e(i) == IF same(i) = {} THEN history[i] ELSE MergeOneTurn(history[i], file[last(i)])
<1>1. n \in Nat /\ DOMAIN history = 1..n /\ Len(file) \in Nat /\ DOMAIN file = 1..Len(file)
  OBVIOUS
<1>2. MergeTurns(history, file) = [i \in 1..n |-> e(i)]
  BY <1>1 DEF MergeTurns
<1>3. ASSUME NEW i \in 1..n PROVE e(i) \in Closed /\ e(i).id = history[i].id
  <2>1. history[i] \in Read
    BY <1>1
  <2>2. CASE same(i) = {}
    BY <2>1, <2>2 DEF Read, Closed, Turns
  <2>3. CASE same(i) # {}
    <3>1. last(i) \in same(i)
      <4>1. same(i) \in SUBSET (1..Len(file))
        BY <1>1
      <4> HIDE DEF same
      <4> QED BY <1>1, <2>3, <4>1, LastOf
    <3>2. last(i) \in 1..Len(file)
      <4> HIDE DEF last
      <4> QED BY <1>1, <3>1
    <3>3. file[last(i)] \in Saved
      <4> HIDE DEF last
      <4> QED BY <1>1, <3>2
    <3> HIDE DEF last, same
    <3> QED BY <2>1, <2>3, <3>3, MergeOneTyped
  <2> QED BY <2>2, <2>3
<1> HIDE DEF e, n
<1>4. [i \in 1..n |-> e(i)] \in Seq(Closed)
  BY <1>1, <1>3
<1>5. Ids([i \in 1..n |-> e(i)]) = Ids(history)
  BY <1>1, <1>3 DEF Ids
<1> QED BY <1>2, <1>4, <1>5

\* The turns that are there: the transcript's, if it has any.
Told(file, history) == IF history # NoFile THEN history ELSE IF file # NoFile THEN file ELSE <<>>

\* What the merge gives the repairs: a last turn that is open only if the snapshot's was.
LEMMA MergedTyped ==
  ASSUME NEW file \in Seq(Saved) \cup {NoFile}, NEW history \in Seq(Read) \cup {NoFile}
  PROVE  /\ Merged(file, history) \in Seq(Merges) /\ Ids(Merged(file, history)) = Ids(Told(file, history))
         /\ ~Stale(file) /\ Merged(file, history) # <<>> =>
              Merged(file, history)[Len(Merged(file, history))].outcome # "open"
<1>0. Read \subseteq Closed /\ Closed \subseteq Merges /\ Saved \subseteq Merges
  BY DEF Read, Closed, Saved, Merges, Turns
<1>1. ASSUME NEW turns \in Seq(Closed)
      PROVE  turns \in Seq(Merges) /\ (turns # <<>> => turns[Len(turns)].outcome # "open")
  <2>1. turns \in Seq(Merges)
    BY <1>0
  <2>2. ASSUME turns # <<>> PROVE turns[Len(turns)] \in Closed
    BY <2>2
  <2> QED BY <2>1, <2>2 DEF Closed, Turns, Sealed
<1>2. CASE file # NoFile /\ history # NoFile
  <2>1. Merged(file, history) = MergeTurns(history, file)
    BY <1>2 DEF Merged
  <2>2. MergeTurns(history, file) \in Seq(Closed)
    BY <1>2, MergeTyped
  <2>3. Ids(MergeTurns(history, file)) = Ids(Told(file, history))
    BY <1>2, MergeTyped DEF Told
  <2> QED BY <1>1, <2>1, <2>2, <2>3
<1>3. CASE file # NoFile /\ history = NoFile
  <2>1. Merged(file, history) = file /\ file \in Seq(Merges)
    BY <1>0, <1>3 DEF Merged
  <2> QED BY <1>3, <2>1 DEF Stale, ComputeInFlight, Told
<1>4. CASE file = NoFile /\ history # NoFile
  <2>1. Merged(file, history) = history /\ history \in Seq(Closed)
    BY <1>0, <1>4 DEF Merged
  <2> QED BY <1>1, <1>4, <2>1 DEF Told
<1>5. CASE file = NoFile /\ history = NoFile
  BY <1>5 DEF Merged, Told
<1> QED BY <1>2, <1>3, <1>4, <1>5

-----------------------------------------------------------------------------
(* Load: the repairs *)

NoOpenTool(turn) == \A i \in DOMAIN turn.blocks : turn.blocks[i].kind = "tool" => turn.blocks[i].outcome # "open"

LEMMA Trailing ==
  ASSUME NEW turns \in Seq(Merges)
  PROVE  /\ FinalizeStaleTrailingTurn(turns) \in Seq(Merges)
         /\ Len(FinalizeStaleTrailingTurn(turns)) = Len(turns)
         /\ \A i \in 1..Len(turns) : FinalizeStaleTrailingTurn(turns)[i].id = turns[i].id
         /\ turns # <<>> => FinalizeStaleTrailingTurn(turns)[Len(turns)].outcome # "open"
<1>1. CASE turns = <<>>
  BY <1>1 DEF FinalizeStaleTrailingTurn
<1>2. CASE turns # <<>>
  <2> DEFINE n == Len(turns)
             turn == turns[n]
             aborted == IF HasOutcome(turn) THEN turn
                        ELSE [turn EXCEPT !.outcome = "aborted", !.reason = "server_restart"]
             note == TextBlock(<<"server_restart">>)
             blocks == Append(aborted.blocks, note)
             done == [aborted EXCEPT !.blocks = blocks]
  <2>1. n \in Nat /\ n \in DOMAIN turns /\ turn \in Merges
    BY <1>2
  <2>2. FinalizeStaleTrailingTurn(turns) = [turns EXCEPT ![n] = done]
    BY <1>2 DEF FinalizeStaleTrailingTurn
  <2>3. aborted \in Merges /\ aborted.outcome # "open" /\ aborted.id = turn.id
    <3>1. CASE HasOutcome(turn)
      BY <2>1, <3>1 DEF HasOutcome
    <3>2. CASE ~HasOutcome(turn)
      BY <2>1, <3>2, TextsHave DEF Merges, Turns, Settled
    <3> QED BY <3>1, <3>2
  <2>4. note \in ABlock
    <3>1. "server_restart" \in Texts
      BY TextsHave
    <3>2. <<"server_restart">> \in Seq(Texts)
      BY <3>1
    <3> QED BY <3>2 DEF ABlock, TextBlock
  <2>5. blocks \in Seq(ABlock)
    <3>1. aborted.blocks \in Seq(ABlock)
      <4> HIDE DEF aborted
      <4> QED BY <2>3 DEF Merges, Turns
    <3> HIDE DEF note, aborted
    <3> QED BY <2>4, <3>1
  <2>6. done \in Merges /\ done.outcome # "open" /\ done.id = turn.id
    <3> HIDE DEF aborted, blocks
    <3> QED BY <2>3, <2>5 DEF Merges, Turns
  <2> HIDE DEF done
  <2> QED BY <2>1, <2>2, <2>6
<1> QED BY <1>1, <1>2

LEMMA CloseTyped ==
  ASSUME NEW b \in ABlock
  PROVE  CloseTool(b) \in ABlock /\ (CloseTool(b).kind = "tool" => CloseTool(b).outcome # "open")
<1>1. CASE ~(b.kind = "tool" /\ b.outcome = "open")
  <2>1. CloseTool(b) = b
    BY <1>1 DEF CloseTool
  <2> QED BY <1>1, <2>1
<1>2. CASE b.kind = "tool" /\ b.outcome = "open"
  <2>1. b \in ATool
    BY <1>2 DEF ABlock
  <2> DEFINE decision == IF b.decision = "pending" THEN "deny" ELSE b.decision
             result == IF b.result = "none" THEN "interrupted" ELSE b.result
             a == [b EXCEPT !.outcome = "aborted"]
  <2>2. decision \in {"pending", "allow", "deny"} /\ result \in Texts
    BY <2>1, TextsHave DEF ATool
  <2>3. a \in ATool /\ a.outcome = "aborted" /\ a.decision = b.decision /\ a.result = b.result
    BY <2>1 DEF ATool, Settled
  <2>4. CloseTool(b) = [a EXCEPT !.decision = decision, !.result = result]
    BY <1>2, <2>3 DEF CloseTool, SetToolOutcome
  <2> HIDE DEF a, decision, result
  <2>5. CloseTool(b) \in ATool /\ CloseTool(b).outcome = "aborted"
    BY <2>2, <2>3, <2>4 DEF ATool
  <2> QED BY <2>5 DEF ABlock
<1> QED BY <1>1, <1>2

LEMMA Hanging ==
  ASSUME NEW turns \in Seq(Merges)
  PROVE  /\ FinalizeHangingToolBlocks(turns) \in Seq(Merges)
         /\ Len(FinalizeHangingToolBlocks(turns)) = Len(turns)
         /\ \A i \in 1..Len(turns) : /\ FinalizeHangingToolBlocks(turns)[i].outcome = turns[i].outcome
                                     /\ FinalizeHangingToolBlocks(turns)[i].id = turns[i].id
                                     /\ NoOpenTool(FinalizeHangingToolBlocks(turns)[i])
<1> DEFINE n == Len(turns)
           blocks(i) == [j \in DOMAIN turns[i].blocks |-> CloseTool(turns[i].blocks[j])]
           e(i) == [turns[i] EXCEPT !.blocks = blocks(i)]
<1>1. n \in Nat /\ DOMAIN turns = 1..n
  OBVIOUS
<1>2. FinalizeHangingToolBlocks(turns) = [i \in 1..n |-> e(i)]
  BY <1>1 DEF FinalizeHangingToolBlocks
<1>3. ASSUME NEW i \in 1..n
      PROVE  e(i) \in Merges /\ e(i).outcome = turns[i].outcome /\ e(i).id = turns[i].id /\ NoOpenTool(e(i))
  <2>1. turns[i] \in Merges
    BY <1>1
  <2>2. PICK old \in Seq(ABlock) : old = turns[i].blocks
    BY <2>1 DEF Merges, Turns
  <2>3. blocks(i) = [j \in 1..Len(old) |-> CloseTool(old[j])] /\ Len(old) \in Nat
    BY <2>2
  <2>4. \A j \in 1..Len(old) : old[j] \in ABlock
    OBVIOUS
  <2>5. \A j \in 1..Len(old) :
          CloseTool(old[j]) \in ABlock /\ (CloseTool(old[j]).kind = "tool" => CloseTool(old[j]).outcome # "open")
    BY <2>4, CloseTyped
  <2> HIDE DEF blocks
  <2>6. blocks(i) \in Seq(ABlock)
    BY <2>3, <2>5
  <2>7. \A j \in DOMAIN blocks(i) : blocks(i)[j].kind = "tool" => blocks(i)[j].outcome # "open"
    BY <2>3, <2>5
  <2>8. e(i) \in Merges /\ e(i).outcome = turns[i].outcome /\ e(i).id = turns[i].id /\ e(i).blocks = blocks(i)
    BY <2>1, <2>6 DEF Merges, Turns
  <2> HIDE DEF e
  <2> QED BY <2>7, <2>8 DEF NoOpenTool
<1> HIDE DEF e, n
<1>4. [i \in 1..n |-> e(i)] \in Seq(Merges) /\ Len([i \in 1..n |-> e(i)]) = n
  BY <1>1, <1>3
<1> QED BY <1>1, <1>2, <1>3, <1>4 DEF n

LEMMA Backfill ==
  ASSUME NEW turn \in Merges
  PROVE  /\ BackfillOutcome(turn) \in Saved
         /\ BackfillOutcome(turn).blocks = turn.blocks /\ BackfillOutcome(turn).id = turn.id
         /\ turn.outcome # "open" => BackfillOutcome(turn).outcome # "open"
<1> DEFINE outcome == CASE turn.outcome = Sealed -> "completed"
                        [] turn.outcome = "sealed_error" -> "errored"
                        [] OTHER -> turn.outcome
<1>1. BackfillOutcome(turn) = [turn EXCEPT !.outcome = outcome]
  BY DEF BackfillOutcome
<1>2. outcome \in {"open"} \cup Settled /\ (turn.outcome # "open" => outcome # "open")
  BY DEF Merges, Turns, Settled, Sealed
<1> HIDE DEF outcome
<1> QED BY <1>1, <1>2 DEF Merges, Saved, Turns

\* Turns in which nothing waits for a claude any more.
Rested(turns) ==
  /\ turns \in Seq(Saved)
  /\ turns # <<>> => turns[Len(turns)].outcome # "open"
  /\ \A i \in 1..Len(turns) : NoOpenTool(turns[i])

LEMMA RepairedRests ==
  ASSUME NEW file \in Seq(Saved) \cup {NoFile}, NEW turns \in Seq(Merges),
         ~Stale(file) /\ turns # <<>> => turns[Len(turns)].outcome # "open"
  PROVE  Rested(Repaired(file, turns)) /\ Ids(Repaired(file, turns)) = Ids(turns)
<1> DEFINE stale == IF Stale(file) THEN FinalizeStaleTrailingTurn(turns) ELSE turns
           shut == FinalizeHangingToolBlocks(stale)
<1>1. /\ stale \in Seq(Merges) /\ Len(stale) = Len(turns)
      /\ stale # <<>> => stale[Len(stale)].outcome # "open"
      /\ \A i \in 1..Len(turns) : stale[i].id = turns[i].id
  <2>1. CASE Stale(file)
    BY <2>1, Trailing
  <2>2. CASE ~Stale(file)
    BY <2>2
  <2> QED BY <2>1, <2>2
<1> DEFINE n == Len(turns)
<1>2. Repaired(file, turns) = [i \in DOMAIN shut |-> BackfillOutcome(shut[i])]
  BY DEF Repaired
<1> HIDE DEF stale
<1>3. /\ shut \in Seq(Merges) /\ Len(shut) = n
      /\ \A i \in 1..n : shut[i].outcome = stale[i].outcome /\ shut[i].id = turns[i].id /\ NoOpenTool(shut[i])
  BY <1>1, Hanging
<1> HIDE DEF shut
<1>4. n \in Nat /\ DOMAIN turns = 1..n /\ DOMAIN shut = 1..n /\ (n # 0 => stale[n].outcome # "open")
  BY <1>1, <1>3
<1> HIDE DEF n
<1> DEFINE e(i) == BackfillOutcome(shut[i])
<1>5. ASSUME NEW i \in 1..n
      PROVE  e(i) \in Saved /\ e(i).id = turns[i].id /\ NoOpenTool(e(i)) /\ (i = n => e(i).outcome # "open")
  <2>1. shut[i] \in Merges
    BY <1>3, <1>4
  <2>2. /\ e(i) \in Saved /\ e(i).id = shut[i].id /\ e(i).blocks = shut[i].blocks
        /\ (shut[i].outcome # "open" => e(i).outcome # "open")
    BY <2>1, Backfill
  <2> HIDE DEF e
  <2> QED BY <1>3, <1>4, <2>2 DEF NoOpenTool
<1>6. Repaired(file, turns) = [i \in 1..n |-> e(i)]
  BY <1>2, <1>4
<1> HIDE DEF e
<1>7. [i \in 1..n |-> e(i)] \in Seq(Saved) /\ Len([i \in 1..n |-> e(i)]) = n
  BY <1>4, <1>5
<1>8. Ids([i \in 1..n |-> e(i)]) = Ids(turns)
  BY <1>4, <1>5 DEF Ids
<1> QED BY <1>4, <1>5, <1>6, <1>7, <1>8 DEF Rested

-----------------------------------------------------------------------------
(* Load: the background tasks *)

\* States as Load leaves them: nothing in flight, and these ids.
ATask == {k \in [status : Texts, finished : BOOLEAN, notes : Nat] : k.finished = (k.status # "in_progress")}
TaskMaps == UNION {[D -> ATask] : D \in SUBSET Texts}
Resting(ids) == [turns : {turns \in Seq(Saved) : Rested(turns) /\ Ids(turns) = ids}, inFlight : {FALSE},
                 lastError : {"none"}, tasks : TaskMaps, subagents : {<<>>}, index : {NoIndex}]

LEMMA MarkRests ==
  ASSUME NEW turns, Rested(turns), NEW id, NEW value \in Texts
  PROVE  /\ Rested([i \in DOMAIN turns |-> MarkTurn(turns[i], id, "task", value)])
         /\ Ids([i \in DOMAIN turns |-> MarkTurn(turns[i], id, "task", value)]) = Ids(turns)
<1> DEFINE n == Len(turns)
           blocks(i) == [j \in DOMAIN turns[i].blocks |-> MarkTool(turns[i].blocks[j], id, "task", value)]
           e(i) == [turns[i] EXCEPT !.blocks = blocks(i)]
<1>1. n \in Nat /\ DOMAIN turns = 1..n /\ turns \in Seq(Saved)
  BY DEF Rested
<1>2. [i \in DOMAIN turns |-> MarkTurn(turns[i], id, "task", value)] = [i \in 1..n |-> e(i)]
  BY <1>1 DEF MarkTurn
<1>3. ASSUME NEW b \in ABlock
      PROVE  /\ MarkTool(b, id, "task", value) \in ABlock
             /\ MarkTool(b, id, "task", value).kind = b.kind
             /\ b.kind = "tool" => MarkTool(b, id, "task", value).outcome = b.outcome
  <2>1. CASE ~(b.kind = "tool" /\ b.id = id)
    BY <2>1 DEF MarkTool
  <2>2. CASE b.kind = "tool" /\ b.id = id
    <3>1. b \in ATool
      BY <2>2 DEF ABlock
    <3>2. MarkTool(b, id, "task", value) = [b EXCEPT !.task = value]
      BY <2>2 DEF MarkTool
    <3>3. [b EXCEPT !.task = value] \in ATool
      BY <3>1 DEF ATool
    <3> QED BY <3>1, <3>2, <3>3 DEF ABlock, ATool
  <2> QED BY <2>1, <2>2
<1>4. ASSUME NEW i \in 1..n
      PROVE  e(i) \in Saved /\ e(i).outcome = turns[i].outcome /\ e(i).id = turns[i].id /\ NoOpenTool(e(i))
  <2>1. turns[i] \in Saved
    BY <1>1
  <2>2. PICK old \in Seq(ABlock) : old = turns[i].blocks
    BY <2>1 DEF Saved, Turns
  <2>3. blocks(i) = [j \in 1..Len(old) |-> MarkTool(old[j], id, "task", value)] /\ Len(old) \in Nat
    BY <2>2
  <2>4. \A j \in 1..Len(old) : old[j] \in ABlock /\ (old[j].kind = "tool" => old[j].outcome # "open")
    BY <2>2 DEF Rested, NoOpenTool
  <2>5. \A j \in 1..Len(old) :
          /\ MarkTool(old[j], id, "task", value) \in ABlock
          /\ MarkTool(old[j], id, "task", value).kind = "tool" =>
               MarkTool(old[j], id, "task", value).outcome # "open"
    BY <1>3, <2>4
  <2> HIDE DEF blocks
  <2>6. blocks(i) \in Seq(ABlock)
    BY <2>3, <2>5
  <2>7. \A j \in DOMAIN blocks(i) : blocks(i)[j].kind = "tool" => blocks(i)[j].outcome # "open"
    BY <2>3, <2>5
  <2>8. e(i) \in Saved /\ e(i).outcome = turns[i].outcome /\ e(i).id = turns[i].id /\ e(i).blocks = blocks(i)
    BY <2>1, <2>6 DEF Saved, Turns
  <2> HIDE DEF e
  <2> QED BY <2>7, <2>8 DEF NoOpenTool
<1> HIDE DEF e
<1>5. [i \in 1..n |-> e(i)] \in Seq(Saved) /\ Len([i \in 1..n |-> e(i)]) = n
  BY <1>1, <1>4
<1>6. turns # <<>> <=> n # 0
  BY <1>1
<1> HIDE DEF n
<1>7. Ids([i \in 1..n |-> e(i)]) = Ids(turns)
  BY <1>1, <1>4 DEF Ids
<1>8. Rested([i \in 1..n |-> e(i)])
  BY <1>1, <1>4, <1>5, <1>6 DEF Rested, n
<1> QED BY <1>2, <1>7, <1>8

LEMMA TaskMapSet ==
  ASSUME NEW tasks \in TaskMaps, NEW k \in Texts, NEW task \in ATask
  PROVE  SetAt(tasks, k, task) \in TaskMaps /\ (k \in DOMAIN tasks => [tasks EXCEPT ![k] = task] \in TaskMaps)
<1>1. PICK D \in SUBSET Texts : tasks \in [D -> ATask]
  BY DEF TaskMaps
<1>2. SetAt(tasks, k, task) \in [D \cup {k} -> ATask]
  BY <1>1 DEF SetAt
<1>3. [tasks EXCEPT ![k] = task] \in [D -> ATask]
  BY <1>1
<1>4. D \cup {k} \in SUBSET Texts
  BY <1>1
<1> QED BY <1>2, <1>3, <1>4 DEF TaskMaps

LEMMA ReplayKeeps ==
  ASSUME NEW ids, NEW s \in Resting(ids), NEW line \in ALine
  PROVE  ReplayLine(s, line) \in Resting(ids)
<1>1. /\ s.turns \in Seq(Saved) /\ Rested(s.turns) /\ Ids(s.turns) = ids /\ s.tasks \in TaskMaps
      /\ \A tasks \in TaskMaps : [s EXCEPT !.tasks = tasks] \in Resting(ids)
  BY DEF Resting
<1>2. CASE ~(line.type = "system" /\ line.subtype \in {"task_started", "task_notification", "task_updated"})
  BY <1>2 DEF ReplayLine
<1>3. CASE line.type = "system" /\ line.subtype = "task_started"
  <2> DEFINE ev == [kind |-> "task_started", task |-> line.task, tool |-> line.tool]
             task == [status |-> "in_progress", finished |-> FALSE, notes |-> 0]
             tasks == SetAt(s.tasks, line.task, task)
             turns == [i \in DOMAIN s.turns |-> MarkTurn(s.turns[i], line.tool, "task", line.task)]
  <2>1. line.task \in Texts /\ line.tool \in Texts
    BY <1>3 DEF ALine
  <2>2. ReplayLine(s, line) = TaskStarted(s, ev)
    <3>1. ParseLine(line)[1] = ev
      BY <1>3 DEF ParseLine, SystemLine
    <3>2. ReplayLine(s, line) = Apply(s, ev)
      BY <1>3, <3>1 DEF ReplayLine
    <3> QED BY <3>2 DEF Apply
  <2>3. "in_progress" \in Texts
    BY WordsAssumption DEF Texts
  <2>4. tasks \in TaskMaps
    <3>1. task \in ATask
      BY <2>3 DEF ATask
    <3> HIDE DEF task
    <3> QED BY <1>1, <2>1, <3>1, TaskMapSet
  <2>5. Rested(turns) /\ Ids(turns) = ids
    BY <1>1, <2>1, MarkRests
  <2>6. CASE line.task = ""
    BY <2>2, <2>6 DEF TaskStarted
  <2>7. CASE line.task # ""
    <3>1. TaskStarted(s, ev) = [[s EXCEPT !.tasks = tasks] EXCEPT !.turns = turns]
      BY <2>7, <1>1 DEF TaskStarted, MarkTools, Resting
    <3>2. turns \in {x \in Seq(Saved) : Rested(x) /\ Ids(x) = ids}
      <4> HIDE DEF turns
      <4> QED BY <2>5 DEF Rested
    <3> HIDE DEF tasks, turns, ev
    <3>3. PICK q \in Resting(ids) : q = [s EXCEPT !.tasks = tasks]
      BY <1>1, <2>4
    <3>4. [q EXCEPT !.turns = turns] \in Resting(ids)
      BY <3>2 DEF Resting
    <3> QED BY <2>2, <3>1, <3>3, <3>4
  <2> QED BY <2>6, <2>7
<1>4. CASE line.type = "system" /\ line.subtype \in {"task_notification", "task_updated"}
  <2> DEFINE ev == [kind |-> line.subtype, task |-> line.task, status |-> line.status]
             old == s.tasks[line.task]
             noted == [old EXCEPT !.notes = @ + 1]
             ended == [noted EXCEPT !.status = "completed", !.finished = TRUE]
             updated == [old EXCEPT !.status = line.status, !.finished = TRUE]
  <2>1. line.task \in Texts /\ line.status \in Texts
    BY <1>4 DEF ALine
  <2>2. ParseLine(line)[1] = ev /\ ReplayLine(s, line) = Apply(s, ev)
    BY <1>4 DEF ParseLine, SystemLine, ReplayLine
  <2>3. CASE line.task \notin DOMAIN s.tasks
    BY <1>4, <2>2, <2>3 DEF Apply, TaskNotification, TaskUpdated
  <2>4. CASE line.task \in DOMAIN s.tasks
    <3>1. old \in ATask
      BY <1>1, <2>4 DEF TaskMaps
    <3>2. noted \in ATask
      <4> HIDE DEF old
      <4> QED BY <3>1 DEF ATask
    <3>3. ended \in ATask
      <4>1. "completed" \in Texts
        BY WordsAssumption DEF Texts
      <4> HIDE DEF noted
      <4> QED BY <3>2, <4>1 DEF ATask
    <3>4. line.status \in {"completed", "failed", "killed", "stopped"} => updated \in ATask
      <4> HIDE DEF old
      <4> QED BY <2>1, <3>1 DEF ATask
    <3>5. \/ ReplayLine(s, line) = s
          \/ ReplayLine(s, line) = [s EXCEPT !.tasks = [s.tasks EXCEPT ![line.task] = noted]]
          \/ ReplayLine(s, line) = [s EXCEPT !.tasks = [s.tasks EXCEPT ![line.task] = ended]]
          \/ /\ line.status \in {"completed", "failed", "killed", "stopped"}
             /\ ReplayLine(s, line) = [s EXCEPT !.tasks = [s.tasks EXCEPT ![line.task] = updated]]
      <4>1. CASE line.subtype = "task_notification"
        <5>1. ReplayLine(s, line) = TaskNotification(s, ev)
          BY <2>2, <4>1 DEF Apply
        <5> QED BY <2>4, <5>1 DEF TaskNotification
      <4>2. CASE line.subtype = "task_updated"
        <5>1. ReplayLine(s, line) = TaskUpdated(s, ev)
          BY <2>2, <4>2 DEF Apply
        <5> QED BY <2>4, <5>1 DEF TaskUpdated
      <4> QED BY <1>4, <4>1, <4>2
    <3> HIDE DEF noted, ended, updated, old
    <3>6. [s.tasks EXCEPT ![line.task] = noted] \in TaskMaps
      BY <1>1, <2>1, <2>4, <3>2, TaskMapSet
    <3>7. [s.tasks EXCEPT ![line.task] = ended] \in TaskMaps
      BY <1>1, <2>1, <2>4, <3>3, TaskMapSet
    <3>8. line.status \in {"completed", "failed", "killed", "stopped"} =>
            [s.tasks EXCEPT ![line.task] = updated] \in TaskMaps
      BY <1>1, <2>1, <2>4, <3>4, TaskMapSet
    <3> QED BY <1>1, <3>5, <3>6, <3>7, <3>8
  <2> QED BY <2>3, <2>4
<1> QED BY <1>2, <1>3, <1>4

\* A whole transcript.
LEMMA ReplaysKeep ==
  ASSUME NEW ids, NEW state \in Resting(ids), NEW lines \in Seq(ALine)
  PROVE  FoldLeft(ReplayLine, state, lines) \in Resting(ids)
<1> DEFINE n == Len(lines)
           F == [i \in 1..n |-> [a \in Resting(ids) |-> ReplayLine(a, lines[i])]]
           Eq(g) == g = [s \in SUBSET (DOMAIN lines) |->
                           IF s = {} THEN state ELSE ReplayLine(g[s \ {Max(s)}], lines[Max(s)])]
           iter == CHOOSE g : Eq(g)
<1>1. n \in Nat /\ DOMAIN lines = 1..n
  OBVIOUS
<1>2. ASSUME NEW i \in 1..n, NEW a \in Resting(ids) PROVE ReplayLine(a, lines[i]) \in Resting(ids)
  <2>1. lines[i] \in ALine
    BY <1>1
  <2> QED BY <2>1, ReplayKeeps
<1>3. F \in [1..n -> [Resting(ids) -> Resting(ids)]]
  BY <1>2
<1>4. PICK g \in [SUBSET (1..n) -> Resting(ids)] : Folds(g, F, state, n)
  <2> HIDE DEF F, n
  <2> QED BY <1>1, <1>3, FoldExists
<1>5. ASSUME NEW s \in SUBSET (1..n)
      PROVE  g[s] = IF s = {} THEN state ELSE ReplayLine(g[s \ {Max(s)}], lines[Max(s)])
  <2>1. g[s] = IF s = {} THEN state ELSE F[Max(s)][g[s \ {Max(s)}]]
    BY <1>4 DEF Folds
  <2>2. ASSUME s # {} PROVE Max(s) \in 1..n /\ g[s \ {Max(s)}] \in Resting(ids)
    BY <1>1, <1>4, <2>2, MaxIs
  <2> QED BY <2>1, <2>2
<1>6. Eq(iter)
  <2>1. Eq([s \in SUBSET (1..n) |-> g[s]])
    <3>1. \A s \in SUBSET (1..n) : s \ {Max(s)} \in SUBSET (1..n)
      OBVIOUS
    <3> QED BY <1>1, <1>5, <3>1
  <2> HIDE DEF Eq
  <2> QED BY <2>1
<1>7. FoldLeft(ReplayLine, state, lines) = iter[DOMAIN lines]
  BY DEF FoldLeft, MapThenFoldSet
<1>8. iter[{}] \in Resting(ids)
  <2> HIDE DEF iter
  <2> QED BY <1>6
<1>9. ASSUME NEW s \in SUBSET (1..n), s # {}, iter[s \ {Max(s)}] \in Resting(ids) PROVE iter[s] \in Resting(ids)
  <2> HIDE DEF iter
  <2>1. Max(s) \in 1..n
    BY <1>1, <1>9, MaxIs
  <2>2. iter[s] = ReplayLine(iter[s \ {Max(s)}], lines[Max(s)])
    BY <1>1, <1>6, <1>9
  <2> QED BY <1>2, <1>9, <2>1, <2>2
<1>10. iter[1..n] \in Resting(ids)
  <2> HIDE DEF iter, n
  <2> QED BY <1>1, <1>8, <1>9, FoldKeeps
<1> QED BY <1>1, <1>7, <1>10

\* After a restart nothing waits for a claude that is gone, whatever the two files
\* hold: no turn runs, no tool and no background task is without an end; and the turns
\* are the transcript's, or the snapshot's when there is none.
THEOREM LoadSettles ==
  ASSUME NEW file \in Seq(Saved) \cup {NoFile}, NEW lines \in Seq(ALine) \cup {NoFile}
  PROVE  /\ Load(file, lines) \in Resting(Ids(Told(file, LoadJsonl(lines))))
         /\ \A k \in DOMAIN Load(file, lines).tasks : Load(file, lines).tasks[k].finished
<1> DEFINE history == LoadJsonl(lines)
           ids == Ids(Told(file, history))
           merged == Merged(file, history)
           turns == Repaired(file, merged)
           s == [EmptyState EXCEPT !.turns = turns, !.inFlight = ComputeInFlight(turns)]
           replayed == ReplayBgTasksFromJsonl(s, lines)
<1>1. history \in Seq(Read) \cup {NoFile} /\ (history # NoFile => lines \in Seq(ALine))
  BY HistoryTyped DEF LoadJsonl
<1>2. Load(file, lines) = IF history = NoFile THEN s ELSE ForceKillInProgressBgTasks(replayed)
  BY DEF Load
<1> HIDE DEF history
<1>3. /\ merged \in Seq(Merges) /\ Ids(merged) = ids
      /\ ~Stale(file) /\ merged # <<>> => merged[Len(merged)].outcome # "open"
  BY <1>1, MergedTyped
<1> HIDE DEF merged, ids
<1>4. Rested(turns) /\ Ids(turns) = ids
  BY <1>3, RepairedRests
<1> HIDE DEF turns
<1> DEFINE Bare(t, b) == [turns : {t}, inFlight : {b}, lastError : {"none"}, tasks : {<<>>}, subagents : {<<>>},
                          index : {NoIndex}]
<1>5. s \in Bare(turns, FALSE)
  <2>1. EmptyState \in Bare(<<>>, FALSE)
    BY DEF EmptyState
  <2>2. ComputeInFlight(turns) = FALSE
    BY <1>4 DEF ComputeInFlight, Rested
  <2>3. \A e, b : e \in Bare(<<>>, FALSE) => [e EXCEPT !.turns = turns, !.inFlight = b] \in Bare(turns, b)
    OBVIOUS
  <2> QED BY <2>1, <2>2, <2>3
<1>6. s \in Resting(ids) /\ s.tasks = <<>>
  <2>1. <<>> \in TaskMaps
    <3>1. {} \in SUBSET Texts
      OBVIOUS
    <3>2. \A S : <<>> \in [{} -> S]
      OBVIOUS
    <3> QED BY <3>1, <3>2, Zenon DEF TaskMaps
  <2> HIDE DEF s
  <2> QED BY <1>4, <1>5, <2>1 DEF Resting, Rested
<1> HIDE DEF s
<1>7. CASE history = NoFile
  BY <1>2, <1>6, <1>7 DEF ids, history
<1>8. CASE history # NoFile
  <2>1. replayed \in Resting(ids)
    BY <1>1, <1>6, <1>8, ReplaysKeep DEF ReplayBgTasksFromJsonl
  <2> HIDE DEF replayed
  <2> DEFINE tasks == replayed.tasks
             e(k) == IF tasks[k].status = "in_progress" THEN [tasks[k] EXCEPT !.status = "killed", !.finished = TRUE]
                     ELSE tasks[k]
  <2>2. PICK D \in SUBSET Texts : tasks \in [D -> ATask]
    BY <2>1 DEF Resting, TaskMaps
  <2>3. ASSUME NEW k \in D PROVE e(k) \in ATask /\ e(k).finished
    <3>1. PICK v \in ATask : v = tasks[k]
      BY <2>2
    <3>2. "killed" \in Texts
      BY DEF Texts
    <3>3. e(k) = IF v.status = "in_progress" THEN [v EXCEPT !.status = "killed", !.finished = TRUE] ELSE v
      BY <3>1
    <3> HIDE DEF e, tasks
    <3> QED BY <3>2, <3>3 DEF ATask
  <2>4. Load(file, lines) = [replayed EXCEPT !.tasks = [k \in D |-> e(k)]]
    BY <1>2, <1>8, <2>2 DEF ForceKillInProgressBgTasks
  <2> HIDE DEF e, tasks
  <2>5. [k \in D |-> e(k)] \in [D -> ATask]
    BY <2>3
  <2> DEFINE ended == [k \in D |-> e(k)]
  <2>6. ended \in TaskMaps /\ \A k \in DOMAIN ended : ended[k].finished
    BY <2>3, <2>5 DEF TaskMaps
  <2> HIDE DEF ended
  <2> QED BY <2>1, <2>4, <2>6 DEF Resting, ids, ended, history
<1> QED BY <1>7, <1>8

-----------------------------------------------------------------------------
(* The inductive invariant *)

\* The fields of the records that actions take apart.
Shape ==
  /\ DOMAIN obj = Objects /\ \A o \in Objects : DOMAIN obj[o] = DOMAIN Fresh
  /\ DOMAIN call = Callers /\ \A c \in Callers : DOMAIN call[c] = DOMAIN NoCall
  /\ flight \in [at : {"none", "check", "load", "lock", "insert"}, uuid : BOOLEAN, obj : Objects \cup {None}]
  /\ {closed, jammed, deleted} \subseteq BOOLEAN
  /\ entry \in Objects \cup {None} /\ leaving \in Objects \cup {None} /\ del.obj \in Objects \cup {None}

\* c has been given an object and is not through with it.
Uses(c) == call[c].at \in {"has", "mark"}

\* Objects that somebody knows are in use, and the one being loaded is known to its
\* flight alone, which finds the map empty.
Known ==
  /\ {entry, leaving, del.obj} \cap {o \in Objects : ~obj[o].used} = {}
  /\ \A c \in Callers : Uses(c) => call[c].obj \in Objects /\ obj[call[c].obj].used
  /\ SoleFlight
  /\ IF flight.at \in {"lock", "insert"}
     THEN /\ flight.obj \in Objects /\ flight.obj \notin {leaving, del.obj} /\ obj[flight.obj].used
          /\ obj[flight.obj].loop = (IF flight.at = "lock" THEN "off" ELSE "run")
          /\ ~obj[flight.obj].dirty /\ ~obj[flight.obj].timer /\ obj[flight.obj].job = "none"
          /\ \A c \in Callers : Uses(c) => call[c].obj # flight.obj
     ELSE flight.obj = None

\* Who stops a Persister, and when.
Stopping ==
  /\ ~deleted => del = NoDelete /\ dir /\ \A o \in Objects : ~obj[o].leaked
  /\ del.at = "stop" <=> del.obj # None
  /\ proc \in {"up", "draining", "down"} => leaving = None
  /\ proc = "finalizing" /\ leaving # None /\ obj[leaving].loop = "run" =>
       leaving \in {entry, del.obj} \/ obj[leaving].leaked
  /\ closed <=> proc = "closing"
  /\ closed => entry = None
  /\ jammed => closed
  /\ closed /\ (jammed \/ flight.at \in {"load", "lock", "insert"}) => leaving = None

\* A Persister that runs has the lock on the directory, as long as that is there,
\* and what it has written is in the temporary file.
Writers ==
  /\ \A o \in Objects : obj[o].wrote => obj[o].job # "none"
  /\ \A o \in Objects : obj[o].job # "none" => obj[o].loop = "run"
  /\ \A o \in Objects : obj[o].job = "close" => o = leaving /\ proc = "closing"
  /\ \A o \in Objects : obj[o].job = "close" /\ ~obj[o].late => obj[o].copy = obj[o].state.turns
  /\ ~deleted => \A o \in Objects : (obj[o].loop = "run" => lock = o) /\ (obj[o].wrote => tmp = {obj[o].copy})
  /\ ~deleted /\ entry # None => obj[entry].loop = "run"

SInv == Shape /\ Known /\ Stopping /\ Writers /\ NoPersisterLeaks /\ ShutdownFlushes

-----------------------------------------------------------------------------
(* The flight: one lemma per step, and in it one step per part of the invariant *)

\* What a flight that lands does to the calls.
LEMMA AnswerCalls ==
  ASSUME Shape, NEW o \in Objects \cup {None}, Answer(o)
  PROVE  /\ flight' = NoFlight
         /\ DOMAIN call' = Callers /\ \A c \in Callers : DOMAIN call'[c] = DOMAIN NoCall
         /\ \A c \in Callers : Uses(c)' => \/ o # None /\ call'[c].obj = o
                                           \/ Uses(c) /\ call'[c] = call[c]
<1> DEFINE lands(c) == CASE call[c].at # "wait" -> call[c]
                         [] call[c].at = "wait" /\ (o = None \/ call[c].do.kind = "get") -> NoCall
                         [] OTHER -> [call[c] EXCEPT !.at = "has", !.obj = o]
<1>1. flight' = NoFlight /\ call' = [c \in Callers |-> lands(c)]
  BY DEF Answer
<1>2. ASSUME NEW c \in Callers
      PROVE  /\ DOMAIN lands(c) = DOMAIN NoCall
             /\ lands(c).at \in {"has", "mark"} => \/ o # None /\ lands(c).obj = o
                                                   \/ Uses(c) /\ lands(c) = call[c]
  <2>1. CASE call[c].at # "wait"
    BY <2>1 DEF Shape, Uses
  <2>2. CASE call[c].at = "wait" /\ (o = None \/ call[c].do.kind = "get")
    BY <2>2 DEF NoCall
  <2>3. CASE call[c].at = "wait" /\ ~(o = None \/ call[c].do.kind = "get")
    BY <2>3 DEF Shape, NoCall
  <2> QED BY <2>1, <2>2, <2>3
<1> HIDE DEF lands
<1> QED BY <1>1, <1>2 DEF Uses

LEMMA FlightCheckInv == ASSUME SInv, FlightCheck PROVE SInv'
<1> USE SnapshotsAssumption DEF SInv, procVars, diskVars, pastVars, NoCall, NoFlight, NoDelete, Fresh
<1>1. /\ flight.at = "check"
      /\ UNCHANGED <<closed, jammed, deleted, entry, leaving, obj, del, proc, dir, snap, tmp, lock>>
  BY DEF FlightCheck
<1>2. \/ Answer(entry) /\ entry # None
      \/ Answer(entry) /\ closed
      \/ entry = None /\ ~closed /\ UNCHANGED call /\ flight' = [flight EXCEPT !.at = "load"]
  BY DEF FlightCheck
<1>3. /\ flight' \in [at : {"none", "load"}, uuid : BOOLEAN, obj : {None}] /\ (flight'.at = "load" => entry = None /\ ~closed)
      /\ DOMAIN call' = Callers /\ \A c \in Callers : DOMAIN call'[c] = DOMAIN NoCall
      /\ \A c \in Callers : Uses(c)' => \/ entry # None /\ call'[c].obj = entry
                                        \/ Uses(c) /\ call'[c] = call[c]
  <2>1. CASE Answer(entry)
    <3>1. entry \in Objects \cup {None}
      BY DEF Shape
    <3>2. Shape
      BY DEF SInv
    <3>3. /\ flight' = NoFlight
          /\ DOMAIN call' = Callers /\ \A c \in Callers : DOMAIN call'[c] = DOMAIN NoCall
          /\ \A c \in Callers : Uses(c)' => \/ entry # None /\ call'[c].obj = entry
                                            \/ Uses(c) /\ call'[c] = call[c]
      BY ONLY <2>1, <3>1, <3>2, AnswerCalls
    <3> QED BY <3>3
  <2>2. CASE entry = None /\ ~closed /\ UNCHANGED call /\ flight' = [flight EXCEPT !.at = "load"]
    BY <1>1, <2>2 DEF Shape, Known, Uses
  <2> QED BY <1>2, <2>1, <2>2
<1>4. Shape'
  BY <1>1, <1>3 DEF Shape
<1>5. Known'
  <2>1. \A c \in Callers : Uses(c)' => call'[c].obj \in Objects /\ obj[call'[c].obj].used
    BY <1>3 DEF Shape, Known
  <2> QED BY <1>1, <1>3, <2>1 DEF Shape, Known, SoleFlight
<1>6. Stopping' /\ Writers' /\ ShutdownFlushes'
  BY <1>1, <1>3 DEF Shape, Stopping, Writers, ShutdownFlushes
<1>7. NoPersisterLeaks'
  BY <1>1, <1>3 DEF Known, NoPersisterLeaks
<1> QED BY <1>4, <1>5, <1>6, <1>7

LEMMA FlightLoadInv == ASSUME SInv, FlightLoad PROVE SInv'
<1> USE SnapshotsAssumption DEF SInv, procVars, diskVars, pastVars, NoCall, NoFlight, NoDelete, Fresh
<1>1. Shape'
  BY DEF FlightLoad, Unused, Shape
<1>2. Known'
  BY DEF FlightLoad, Unused, Shape, Known, Uses, SoleFlight
<1>3. Stopping'
  BY DEF FlightLoad, Unused, Stopping
<1>4. Writers'
  BY DEF FlightLoad, Unused, Known, Writers
<1>5. NoPersisterLeaks'
  BY DEF FlightLoad, Unused, Known, NoPersisterLeaks
<1>6. ShutdownFlushes'
  BY DEF FlightLoad, Unused, ShutdownFlushes
<1> QED BY <1>1, <1>2, <1>3, <1>4, <1>5, <1>6 DEF SInv

LEMMA FlightLockInv == ASSUME SInv, FlightLock PROVE SInv'
<1> USE SnapshotsAssumption DEF SInv, procVars, diskVars, pastVars, NoCall, NoFlight, NoDelete, Fresh
<1> DEFINE o == flight.obj
<1>1. /\ flight.at = "lock" /\ dir' = TRUE /\ o \in Objects /\ obj[o].loop = "off"
      /\ UNCHANGED <<closed, jammed, deleted, entry, leaving, del, proc, snap>>
  BY DEF FlightLock, Known
<1>2. CASE lock = None
  <2>1. /\ lock' = o /\ tmp' = {} /\ UNCHANGED call
        /\ obj' = [obj EXCEPT ![o].loop = "run"] /\ flight' = [flight EXCEPT !.at = "insert"]
    BY <1>2 DEF FlightLock
  <2>2. Shape'
    BY <1>1, <2>1 DEF Shape
  <2>3. Known'
    BY <1>1, <2>1 DEF Shape, Known, Uses, SoleFlight
  <2>4. Stopping'
    BY <1>1, <2>1 DEF Shape, Known, Stopping
  <2>5. Writers'
    BY <1>1, <1>2, <2>1 DEF Shape, Known, Writers
  <2>6. NoPersisterLeaks'
    BY <1>1, <2>1 DEF Shape, NoPersisterLeaks
  <2>7. ShutdownFlushes'
    BY <1>1, <2>1 DEF Shape, Known, ShutdownFlushes
  <2> QED BY <2>2, <2>3, <2>4, <2>5, <2>6, <2>7
<1>3. CASE lock # None
  <2>1. obj' = [obj EXCEPT ![o] = Fresh] /\ Answer(None) /\ UNCHANGED <<lock, tmp>>
    BY <1>3 DEF FlightLock
  <2>2. /\ flight' = [at |-> "none", uuid |-> FALSE, obj |-> None]
        /\ DOMAIN call' = Callers /\ \A c \in Callers : DOMAIN call'[c] = DOMAIN NoCall
        /\ \A c \in Callers : Uses(c)' => Uses(c) /\ call'[c] = call[c]
    <3> HIDE DEF SInv
    <3> QED BY <2>1, AnswerCalls DEF SInv
  <2>3. Shape'
    BY <1>1, <2>1, <2>2 DEF Shape
  <2>4. Known'
    <3>1. \A c \in Callers : Uses(c)' => call'[c].obj \in Objects /\ obj'[call'[c].obj].used
      BY <1>1, <2>1, <2>2 DEF Shape, Known
    <3> QED BY <1>1, <2>1, <2>2, <3>1 DEF Shape, Known, SoleFlight
  <2>5. Stopping'
    BY <1>1, <2>1, <2>2 DEF Shape, Known, Stopping
  <2>6. Writers'
    BY <1>1, <2>1, <2>2 DEF Shape, Known, Writers, Stopping
  <2>7. NoPersisterLeaks'
    BY <1>1, <2>1, <2>2 DEF Shape, NoPersisterLeaks
  <2>8. ShutdownFlushes'
    BY <1>1, <2>1, <2>2 DEF Shape, Known, ShutdownFlushes
  <2> QED BY <2>3, <2>4, <2>5, <2>6, <2>7, <2>8
<1> QED BY <1>2, <1>3

LEMMA FlightInsertInv == ASSUME SInv, FlightInsert PROVE SInv'
<1> USE SnapshotsAssumption DEF SInv, procVars, diskVars, pastVars, NoCall, NoFlight, NoDelete, Fresh
<1>1. Shape'
  BY DEF FlightInsert, Answer, Shape
<1>2. Known'
  <2>1. /\ flight.at = "insert" /\ entry' = flight.obj /\ Answer(flight.obj) /\ flight.obj \in Objects
        /\ UNCHANGED <<obj, leaving, del>>
    BY DEF FlightInsert, Known
  <2>2. /\ flight' = NoFlight
        /\ \A c \in Callers : Uses(c)' => call'[c].obj = flight.obj \/ (Uses(c) /\ call'[c] = call[c])
    <3> HIDE DEF SInv
    <3> QED BY <2>1, AnswerCalls DEF SInv
  <2> QED BY <2>1, <2>2 DEF Shape, Known, SoleFlight
<1>3. Stopping'
  BY DEF FlightInsert, Known, Stopping, SoleFlight
<1>4. Writers'
  BY DEF FlightInsert, Known, Writers
<1>5. NoPersisterLeaks'
  BY DEF FlightInsert, Known, SoleFlight, NoPersisterLeaks
<1>6. ShutdownFlushes'
  BY DEF FlightInsert, ShutdownFlushes
<1> QED BY <1>1, <1>2, <1>3, <1>4, <1>5, <1>6 DEF SInv

LEMMA PanicInv == ASSUME SInv, Panic PROVE SInv'
<1> USE SnapshotsAssumption DEF SInv, procVars, diskVars, pastVars, NoCall, NoFlight, NoDelete, Fresh
<1>1. /\ flight.at = "insert" /\ closed /\ jammed' = TRUE
      /\ UNCHANGED <<proc, closed, deleted, entry, leaving, obj, del, dir, snap, tmp, lock>>
  BY DEF Panic
<1>2. /\ flight' = [at |-> "none", uuid |-> FALSE, obj |-> None]
      /\ DOMAIN call' = Callers /\ \A c \in Callers : DOMAIN call'[c] = DOMAIN NoCall
      /\ \A c \in Callers : Uses(c)' => Uses(c) /\ call'[c] = call[c]
  <2>1. Answer(None)
    BY DEF Panic
  <2> HIDE DEF SInv
  <2> QED BY <2>1, AnswerCalls DEF SInv
<1>3. Shape'
  BY <1>1, <1>2 DEF Shape
<1>4. Known'
  <2>1. \A c \in Callers : Uses(c)' => call'[c].obj \in Objects /\ obj[call'[c].obj].used
    BY <1>2 DEF Known
  <2> QED BY <1>1, <1>2, <2>1 DEF Known, SoleFlight
<1>5. Stopping' /\ Writers' /\ ShutdownFlushes'
  BY <1>1, <1>2 DEF Stopping, Writers, ShutdownFlushes
<1>6. NoPersisterLeaks'
  BY <1>1 DEF Stopping, NoPersisterLeaks
<1> QED BY <1>3, <1>4, <1>5, <1>6

\* Whatever ends the process.
LEMMA DieInv == ASSUME SInv, Die PROVE SInv'
<1> USE SnapshotsAssumption DEF SInv, procVars, diskVars, pastVars, NoCall, NoFlight, NoDelete, Fresh
<1>1. Shape'
  BY DEF Die, Shape
<1>2. Known'
  BY DEF Die, Known, Uses, SoleFlight
<1>3. Stopping'
  BY DEF Die, Stopping
<1>4. Writers'
  BY DEF Die, Writers
<1>5. NoPersisterLeaks'
  BY DEF Die, NoPersisterLeaks
<1>6. ShutdownFlushes'
  BY DEF Die, ShutdownFlushes
<1> QED BY <1>1, <1>2, <1>3, <1>4, <1>5, <1>6 DEF SInv

-----------------------------------------------------------------------------
(* The callers *)

LEMMA ChangeInv == ASSUME SInv, NEW c \in Callers, Change(c) PROVE SInv'
<1> USE SnapshotsAssumption DEF SInv, procVars, diskVars, pastVars, NoCall, NoFlight, NoDelete, Fresh
<1>1. Shape'
  BY DEF Change, Changed, Shape
<1>2. Known'
  BY DEF Change, Changed, Known, Uses, SoleFlight
<1>3. Stopping'
  BY DEF Change, Changed, Stopping
<1>4. Writers'
  BY DEF Change, Changed, Shape, Stopping, Writers
<1>5. NoPersisterLeaks'
  BY DEF Change, Changed, NoPersisterLeaks
<1>6. ShutdownFlushes'
  <2>1. PICK o \in Objects : o = call[c].obj
    BY DEF Change, Known, Uses
  <2>2. obj' = [obj EXCEPT ![o] = Changed(@, call[c].do)] /\ UNCHANGED <<proc, leaving, deleted, snap>>
    BY <2>1 DEF Change
  <2>3. /\ \A p \in Objects : p # o => obj'[p] = obj[p]
        /\ obj'[o].loop = obj[o].loop /\ (obj[o].loop = "stopped" => obj'[o].late)
    BY <2>1, <2>2 DEF Changed, Shape
  <2> QED BY <2>2, <2>3 DEF Shape, ShutdownFlushes
<1> QED BY <1>1, <1>2, <1>3, <1>4, <1>5, <1>6 DEF SInv

LEMMA MarkInv == ASSUME SInv, NEW c \in Callers, Mark(c) PROVE SInv'
<1> USE SnapshotsAssumption DEF SInv, procVars, diskVars, pastVars, NoCall, NoFlight, NoDelete, Fresh
<1>1. Shape'
  BY DEF Mark, Shape
<1>2. Known'
  BY DEF Mark, Known, Uses, SoleFlight
<1>3. Stopping'
  BY DEF Mark, Stopping
<1>4. Writers'
  BY DEF Mark, Writers
<1>5. NoPersisterLeaks'
  BY DEF Mark, NoPersisterLeaks
<1>6. ShutdownFlushes'
  BY DEF Mark, ShutdownFlushes
<1> QED BY <1>1, <1>2, <1>3, <1>4, <1>5, <1>6 DEF SInv

LEMMA GetOrLoadInv == ASSUME SInv, NEW c \in Callers, NEW ev, GetOrLoad(c, ev) PROVE SInv'
<1> USE SnapshotsAssumption DEF SInv, procVars, diskVars, pastVars, NoCall, NoFlight, NoDelete, Fresh
<1>1. /\ call[c] = NoCall /\ ~closed
      /\ UNCHANGED <<closed, jammed, deleted, entry, leaving, obj, del, proc, dir, snap, tmp, lock>>
  BY DEF GetOrLoad
<1>2. \/ entry # None /\ UNCHANGED flight
         /\ call' = [call EXCEPT ![c] = [at |-> "has", do |-> ev, obj |-> entry]]
      \/ call' = [call EXCEPT ![c] = [at |-> "wait", do |-> ev, obj |-> None]] /\ UNCHANGED flight
      \/ /\ call' = [call EXCEPT ![c] = [at |-> "wait", do |-> ev, obj |-> None]] /\ flight = NoFlight
         /\ \E uuid \in BOOLEAN : flight' = [at |-> "check", uuid |-> uuid, obj |-> None]
  BY DEF GetOrLoad
<1>3. /\ DOMAIN call' = Callers /\ \A d \in Callers : DOMAIN call'[d] = DOMAIN NoCall
      /\ \A d \in Callers : Uses(d)' => \/ entry # None /\ call'[d].obj = entry /\ UNCHANGED flight
                                        \/ Uses(d) /\ call'[d] = call[d]
  BY <1>2 DEF Shape, Uses
<1>4. flight' = flight \/ (flight = NoFlight /\ flight' \in [at : {"check"}, uuid : BOOLEAN, obj : {None}])
  BY <1>2
<1>5. Shape'
  BY <1>1, <1>3, <1>4 DEF Shape
<1>6. Known'
  <2>1. \A d \in Callers : Uses(d)' => call'[d].obj \in Objects /\ obj[call'[d].obj].used
    BY <1>3 DEF Shape, Known
  <2>2. flight.at \in {"lock", "insert"} => \A d \in Callers : Uses(d)' => call'[d].obj # flight.obj
    BY <1>3 DEF Shape, Known, SoleFlight
  <2> QED BY <1>1, <1>4, <2>1, <2>2 DEF Shape, Known, SoleFlight
<1>7. Stopping' /\ Writers' /\ ShutdownFlushes'
  BY <1>1, <1>4 DEF Stopping, Writers, ShutdownFlushes
<1>8. NoPersisterLeaks'
  BY <1>1, <1>4 DEF NoPersisterLeaks
<1> QED BY <1>5, <1>6, <1>7, <1>8

-----------------------------------------------------------------------------
(* The Persister *)

LEMMA TakeDirtyInv == ASSUME SInv, NEW o \in Objects, TakeDirty(o) PROVE SInv'
<1> USE SnapshotsAssumption DEF SInv, procVars, diskVars, pastVars, NoCall, NoFlight, NoDelete, Fresh
<1>1. Shape'
  BY DEF TakeDirty, Shape
<1>2. Known'
  BY DEF TakeDirty, Shape, Known, Uses, SoleFlight
<1>3. Stopping'
  BY DEF TakeDirty, Shape, Stopping
<1>4. Writers'
  BY DEF TakeDirty, Shape, Writers
<1>5. NoPersisterLeaks'
  BY DEF TakeDirty, Shape, NoPersisterLeaks
<1>6. ShutdownFlushes'
  BY DEF TakeDirty, Shape, ShutdownFlushes
<1> QED BY <1>1, <1>2, <1>3, <1>4, <1>5, <1>6 DEF SInv

LEMMA FireInv == ASSUME SInv, NEW o \in Objects, Fire(o) PROVE SInv'
<1> USE SnapshotsAssumption DEF SInv, procVars, diskVars, pastVars, NoCall, NoFlight, NoDelete, Fresh
<1>1. Shape'
  BY DEF Fire, Writing, Shape
<1>2. Known'
  BY DEF Fire, Writing, Known, Uses, SoleFlight
<1>3. Stopping'
  BY DEF Fire, Writing, Stopping
<1>4. Writers'
  BY DEF Fire, Writing, Selects, Writers
<1>5. NoPersisterLeaks'
  BY DEF Fire, Writing, NoPersisterLeaks
<1>6. ShutdownFlushes'
  BY DEF Fire, Writing, ShutdownFlushes
<1> QED BY <1>1, <1>2, <1>3, <1>4, <1>5, <1>6 DEF SInv

LEMMA WriteTmpInv == ASSUME SInv, NEW o \in Objects, WriteTmp(o) PROVE SInv'
<1> USE SnapshotsAssumption DEF SInv, procVars, diskVars, pastVars, NoCall, NoFlight, NoDelete, Fresh
<1>1. Shape'
  BY DEF WriteTmp, Shape
<1>2. Known'
  BY DEF WriteTmp, Known, Uses, SoleFlight
<1>3. Stopping'
  BY DEF WriteTmp, Stopping
<1>4. Writers'
  BY DEF WriteTmp, Writers
<1>5. NoPersisterLeaks'
  BY DEF WriteTmp, NoPersisterLeaks
<1>6. ShutdownFlushes'
  BY DEF WriteTmp, ShutdownFlushes
<1> QED BY <1>1, <1>2, <1>3, <1>4, <1>5, <1>6 DEF SInv

\* What the goroutine leaves of its object after a write.
LEMMA DoneFacts ==
  ASSUME Shape, NEW o \in Objects, Done(o)
  PROVE  /\ DOMAIN obj' = Objects /\ \A p \in Objects : DOMAIN obj'[p] = DOMAIN Fresh
         /\ \A p \in Objects : p # o => obj'[p] = obj[p]
         /\ obj'[o].job = "none" /\ obj'[o].wrote = FALSE
         /\ obj'[o].loop = IF obj[o].job = "close" THEN "stopped" ELSE obj[o].loop
         /\ obj'[o].used = obj[o].used /\ obj'[o].state = obj[o].state /\ obj'[o].dirty = obj[o].dirty
         /\ obj'[o].timer = obj[o].timer /\ obj'[o].copy = obj[o].copy
         /\ obj'[o].late = obj[o].late /\ obj'[o].leaked = obj[o].leaked
         /\ lock' = IF obj[o].job = "close" /\ lock = o THEN None ELSE lock
<1>1. /\ obj' = [obj EXCEPT ![o] = Written(obj[o])]
      /\ lock' = IF obj[o].job = "close" /\ lock = o THEN None ELSE lock
  BY DEF Done
<1>2. DOMAIN obj[o] = DOMAIN Fresh
  BY DEF Shape
<1>3. ASSUME NEW x, x = Written(obj[o])
      PROVE  /\ DOMAIN x = DOMAIN Fresh /\ x.job = "none" /\ x.wrote = FALSE
             /\ x.loop = IF obj[o].job = "close" THEN "stopped" ELSE obj[o].loop
             /\ x.used = obj[o].used /\ x.state = obj[o].state /\ x.dirty = obj[o].dirty /\ x.timer = obj[o].timer
             /\ x.copy = obj[o].copy /\ x.late = obj[o].late /\ x.leaked = obj[o].leaked
  BY <1>2, <1>3 DEF Fresh, Written
<1>4. obj'[o] = Written(obj[o]) /\ DOMAIN obj' = Objects /\ \A p \in Objects : p # o => obj'[p] = obj[p]
  BY <1>1 DEF Shape
<1>5. DOMAIN obj'[o] = DOMAIN Fresh
  BY <1>3, <1>4
<1>6. \A p \in Objects : DOMAIN obj'[p] = DOMAIN Fresh
  BY <1>4, <1>5 DEF Shape
<1> QED BY <1>1, <1>3, <1>4, <1>6

LEMMA RenameInv == ASSUME SInv, NEW o \in Objects, Rename(o) PROVE SInv'
<1> USE DEF SInv
<1>1. /\ UNCHANGED <<proc, boots, closed, jammed, leaving, entry, flight, call, del, dir, deleted>>
      /\ obj[o].job # "none"
      /\ snap' \in tmp /\ tmp' = {} /\ obj[o].wrote
  BY DEF Rename, Writers, procVars, diskVars, pastVars
<1>2. /\ DOMAIN obj' = Objects /\ \A p \in Objects : DOMAIN obj'[p] = DOMAIN Fresh
      /\ \A p \in Objects : p # o => obj'[p] = obj[p]
      /\ obj'[o].job = "none" /\ obj'[o].wrote = FALSE
      /\ obj'[o].loop = IF obj[o].job = "close" THEN "stopped" ELSE obj[o].loop
      /\ obj'[o].used = obj[o].used /\ obj'[o].state = obj[o].state /\ obj'[o].dirty = obj[o].dirty
      /\ obj'[o].timer = obj[o].timer /\ obj'[o].copy = obj[o].copy
      /\ obj'[o].late = obj[o].late /\ obj'[o].leaked = obj[o].leaked
      /\ lock' = IF obj[o].job = "close" /\ lock = o THEN None ELSE lock
  BY DoneFacts DEF Rename
<1>3. Shape'
  BY <1>1, <1>2 DEF Shape
<1>4. Known'
  BY <1>1, <1>2 DEF Shape, Known, Uses, SoleFlight, Writers
<1>5. Stopping'
  BY <1>1, <1>2 DEF Shape, Stopping, Writers
<1>6. Writers'
  BY <1>1, <1>2, SnapshotsAssumption DEF Shape, Known, Writers, Stopping
<1>7. NoPersisterLeaks'
  BY <1>1, <1>2 DEF NoPersisterLeaks
<1>8. ShutdownFlushes'
  <2>1. CASE leaving # o
    <3>1. SUFFICES ASSUME proc = "closing", leaving # None, ~deleted PROVE FALSE
      BY <1>1 DEF ShutdownFlushes
    <3>2. obj[o].loop = "run" /\ o \in {entry, flight.obj, del.obj, leaving}
      BY <1>1, <3>1 DEF Writers, NoPersisterLeaks, Stopping, Shape
    <3>3. o # entry /\ o # del.obj
      BY <3>1, SnapshotsAssumption DEF Stopping, NoDelete
    <3>4. o # flight.obj
      BY <1>1, SnapshotsAssumption DEF Known
    <3> QED BY <2>1, <3>2, <3>3, <3>4
  <2>2. CASE leaving = o
    <3>1. ~deleted => snap' = obj[o].copy
      BY <1>1 DEF Writers
    <3> QED BY <1>1, <1>2, <2>2, <3>1 DEF Writers, ShutdownFlushes
  <2> QED BY <2>1, <2>2
<1> QED BY <1>3, <1>4, <1>5, <1>6, <1>7, <1>8

LEMMA WriteFailsInv == ASSUME SInv, NEW o \in Objects, WriteFails(o) PROVE SInv'
<1> USE DEF SInv
<1>1. /\ UNCHANGED <<proc, boots, closed, jammed, leaving, entry, flight, call, del, dir, deleted>>
      /\ obj[o].job # "none"
      /\ UNCHANGED <<snap, tmp>> /\ (IF obj[o].wrote THEN tmp = {} ELSE ~dir)
  BY DEF WriteFails, Writers, procVars, diskVars, pastVars
<1>2. /\ DOMAIN obj' = Objects /\ \A p \in Objects : DOMAIN obj'[p] = DOMAIN Fresh
      /\ \A p \in Objects : p # o => obj'[p] = obj[p]
      /\ obj'[o].job = "none" /\ obj'[o].wrote = FALSE
      /\ obj'[o].loop = IF obj[o].job = "close" THEN "stopped" ELSE obj[o].loop
      /\ obj'[o].used = obj[o].used /\ obj'[o].state = obj[o].state /\ obj'[o].dirty = obj[o].dirty
      /\ obj'[o].timer = obj[o].timer /\ obj'[o].copy = obj[o].copy
      /\ obj'[o].late = obj[o].late /\ obj'[o].leaked = obj[o].leaked
      /\ lock' = IF obj[o].job = "close" /\ lock = o THEN None ELSE lock
  BY DoneFacts DEF WriteFails
<1>3. Shape'
  BY <1>1, <1>2 DEF Shape
<1>4. Known'
  BY <1>1, <1>2 DEF Shape, Known, Uses, SoleFlight, Writers
<1>5. Stopping'
  BY <1>1, <1>2 DEF Shape, Stopping, Writers
<1>6. Writers'
  BY <1>1, <1>2, SnapshotsAssumption DEF Shape, Known, Writers, Stopping
<1>7. NoPersisterLeaks'
  BY <1>1, <1>2 DEF NoPersisterLeaks
<1>8. ShutdownFlushes'
  BY <1>1, <1>2 DEF Shape, Writers, Stopping, ShutdownFlushes
<1> QED BY <1>3, <1>4, <1>5, <1>6, <1>7, <1>8

-----------------------------------------------------------------------------
(* Deletion, and the process *)

LEMMA RemoveDirInv == ASSUME SInv, RemoveDir PROVE SInv'
<1> USE SnapshotsAssumption DEF SInv, procVars, diskVars, pastVars, NoCall, NoFlight, NoDelete, Fresh
<1>1. Shape'
  BY DEF RemoveDir, Shape
<1>2. Known'
  BY DEF RemoveDir, Known, Uses, SoleFlight
<1>3. Stopping'
  BY DEF RemoveDir, Stopping
<1>4. Writers'
  BY DEF RemoveDir, Writers
<1>5. NoPersisterLeaks'
  BY DEF RemoveDir, Stopping, NoPersisterLeaks
<1>6. ShutdownFlushes'
  BY DEF RemoveDir, ShutdownFlushes
<1> QED BY <1>1, <1>2, <1>3, <1>4, <1>5, <1>6 DEF SInv

LEMMA DeleteSessionInv == ASSUME SInv, DeleteSession PROVE SInv'
<1> USE SnapshotsAssumption DEF SInv, procVars, diskVars, pastVars, NoCall, NoFlight, NoDelete, Fresh
<1>1. Shape'
  BY DEF DeleteSession, Shape
<1>2. Known'
  BY DEF DeleteSession, Known, Uses, SoleFlight
<1>3. Stopping'
  BY DEF DeleteSession, Stopping
<1>4. Writers'
  BY DEF DeleteSession, Writers
<1>5. NoPersisterLeaks'
  BY DEF DeleteSession, Stopping, NoPersisterLeaks
<1>6. ShutdownFlushes'
  BY DEF DeleteSession, ShutdownFlushes
<1> QED BY <1>1, <1>2, <1>3, <1>4, <1>5, <1>6 DEF SInv

LEMMA CloseNoFlushInv == ASSUME SInv, CloseNoFlush PROVE SInv'
<1> USE SnapshotsAssumption DEF SInv, procVars, diskVars, pastVars, NoCall, NoFlight, NoDelete, Fresh
<1>1. Shape'
  BY DEF CloseNoFlush, Shape
<1>2. Known'
  <2>1. PICK o \in Objects : o = del.obj
    BY DEF CloseNoFlush, Selects, Shape, Stopping
  <2>2. /\ obj' = [obj EXCEPT ![o] = [@ EXCEPT !.loop = "stopped", !.timer = FALSE]] /\ obj[o].loop = "run"
        /\ UNCHANGED <<entry, leaving, call, flight>>
    BY <2>1 DEF CloseNoFlush, Selects
  <2>3. /\ \A p \in Objects : p # o => obj'[p] = obj[p]
        /\ obj'[o].used = obj[o].used /\ obj'[o].dirty = obj[o].dirty /\ ~obj'[o].timer /\ obj'[o].job = obj[o].job
    BY <2>2 DEF Shape
  <2>4. flight.at \in {"lock", "insert"} => flight.obj # o
    BY <2>1 DEF Known
  <2>5. del' = NoDelete
    BY DEF CloseNoFlush
  <2> QED BY <2>2, <2>3, <2>4, <2>5 DEF Shape, Known, Uses, SoleFlight
<1>3. Stopping'
  <2>1. /\ UNCHANGED <<proc, closed, jammed, leaving, entry, deleted, dir, flight>> /\ del' = NoDelete /\ del.at = "stop"
        /\ obj' = [obj EXCEPT ![del.obj] = [@ EXCEPT !.loop = "stopped", !.timer = FALSE]]
    BY DEF CloseNoFlush
  <2>2. \A p \in Objects : obj'[p].leaked = obj[p].leaked /\ (obj'[p].loop = "run" => obj[p].loop = "run" /\ p # del.obj)
    BY <2>1 DEF Shape
  <2> QED BY <2>1, <2>2 DEF Shape, Stopping
<1>4. Writers'
  BY DEF CloseNoFlush, Selects, Shape, Stopping, Writers
<1>5. NoPersisterLeaks'
  BY DEF CloseNoFlush, Shape, NoPersisterLeaks
<1>6. ShutdownFlushes'
  BY DEF CloseNoFlush, Stopping, ShutdownFlushes
<1> QED BY <1>1, <1>2, <1>3, <1>4, <1>5, <1>6 DEF SInv

LEMMA CloseTimesOutInv == ASSUME SInv, CloseTimesOut PROVE SInv'
<1> USE SnapshotsAssumption DEF SInv, procVars, diskVars, pastVars, NoCall, NoFlight, NoDelete, Fresh
<1>1. Shape'
  BY DEF CloseTimesOut, Shape
<1>2. Known'
  BY DEF CloseTimesOut, Known, Uses, SoleFlight
<1>3. Stopping'
  BY DEF CloseTimesOut, Shape, Stopping
<1>4. Writers'
  BY DEF CloseTimesOut, Writers
<1>5. NoPersisterLeaks'
  <2>1. /\ obj' = [obj EXCEPT ![del.obj].leaked = TRUE] /\ del.at = "stop" /\ del' = NoDelete
        /\ UNCHANGED <<proc, jammed, entry, flight, leaving, deleted>>
    BY DEF CloseTimesOut
  <2>2. \A o \in Objects : obj'[o].loop = obj[o].loop /\ (obj[o].leaked \/ o = del.obj => obj'[o].leaked)
    BY <2>1 DEF Shape
  <2>3. deleted /\ del.obj \in Objects
    BY <2>1 DEF Shape, Stopping
  <2> QED BY <2>1, <2>2, <2>3 DEF NoPersisterLeaks
<1>6. ShutdownFlushes'
  BY DEF CloseTimesOut, ShutdownFlushes
<1> QED BY <1>1, <1>2, <1>3, <1>4, <1>5, <1>6 DEF SInv

LEMMA SignalInv == ASSUME SInv, Signal PROVE SInv'
<1> USE SnapshotsAssumption DEF SInv, procVars, diskVars, pastVars, NoCall, NoFlight, NoDelete, Fresh
<1>1. Shape'
  BY DEF Signal, Shape
<1>2. Known'
  BY DEF Signal, Known, Uses, SoleFlight
<1>3. Stopping'
  BY DEF Signal, Stopping
<1>4. Writers'
  BY DEF Signal, Writers
<1>5. NoPersisterLeaks'
  BY DEF Signal, Stopping, NoPersisterLeaks
<1>6. ShutdownFlushes'
  BY DEF Signal, ShutdownFlushes
<1> QED BY <1>1, <1>2, <1>3, <1>4, <1>5, <1>6 DEF SInv

LEMMA FinalizeAllInFlightInv == ASSUME SInv, FinalizeAllInFlight PROVE SInv'
<1> USE SnapshotsAssumption DEF SInv, procVars, diskVars, pastVars, NoCall, NoFlight, NoDelete, Fresh
<1> DEFINE x == obj[leaving]
           y == [Changed(x, [kind |-> "claude_error", code |-> "server_shutdown"]) EXCEPT !.dirty = TRUE]
<1>1. /\ proc = "finalizing" /\ proc' = "draining" /\ leaving' = None
      /\ obj' = [obj EXCEPT ![leaving] = y]
      /\ UNCHANGED <<closed, jammed, entry, flight, call, del, dir, snap, tmp, lock, deleted>>
  BY DEF FinalizeAllInFlight
<1>2. leaving \in Objects => /\ DOMAIN y = DOMAIN x /\ y.used = x.used /\ y.loop = x.loop /\ y.job = x.job
                             /\ y.wrote = x.wrote /\ y.copy = x.copy /\ y.leaked = x.leaked /\ y.timer = x.timer
  BY DEF Changed, Shape
<1> HIDE DEF x, y
<1>3. \A p \in Objects : /\ p # leaving => obj'[p] = obj[p]
                         /\ p = leaving => obj'[p] = y /\ x = obj[p]
  BY <1>1 DEF Shape, x
<1>4. Shape'
  BY <1>1, <1>2, <1>3 DEF Shape
<1>5. Known'
  BY <1>1, <1>2, <1>3 DEF Known, Uses, SoleFlight
<1>6. Stopping'
  <2>1. ~closed /\ ~jammed
    BY <1>1 DEF Stopping, Shape
  <2>2. \A p \in Objects : obj'[p].leaked = obj[p].leaked
    BY <1>2, <1>3
  <2> QED BY <1>1, <2>1, <2>2 DEF Stopping
<1>7. Writers'
  BY <1>1, <1>2, <1>3 DEF Shape, Writers
<1>8. NoPersisterLeaks'
  BY <1>1, <1>2, <1>3 DEF Stopping, NoPersisterLeaks
<1>9. ShutdownFlushes'
  BY <1>1, <1>2, <1>3 DEF ShutdownFlushes
<1> QED BY <1>4, <1>5, <1>6, <1>7, <1>8, <1>9 DEF SInv

LEMMA ShutdownInv == ASSUME SInv, Shutdown PROVE SInv'
<1> USE SnapshotsAssumption DEF SInv, procVars, diskVars, pastVars, NoCall, NoFlight, NoDelete, Fresh
<1>1. Shape'
  BY DEF Shutdown, Shape
<1>2. Known'
  BY DEF Shutdown, Known, Uses, SoleFlight
<1>3. Stopping'
  <2>1. ~jammed
    BY DEF Shutdown, Shape, Stopping
  <2> QED BY <2>1 DEF Shutdown, Known, SoleFlight, Stopping
<1>4. Writers'
  BY DEF Shutdown, Writers
<1>5. NoPersisterLeaks'
  BY DEF Shutdown, Stopping, NoPersisterLeaks
<1>6. ShutdownFlushes'
  BY DEF Shutdown, Writers, ShutdownFlushes
<1> QED BY <1>1, <1>2, <1>3, <1>4, <1>5, <1>6 DEF SInv

LEMMA CloseInv == ASSUME SInv, Close PROVE SInv'
<1> USE SnapshotsAssumption DEF SInv, procVars, diskVars, pastVars, NoCall, NoFlight, NoDelete, Fresh
<1>1. Shape'
  BY DEF Close, Writing, Shape
<1>2. Known'
  BY DEF Close, Writing, Known, Uses, SoleFlight
<1>3. Stopping'
  BY DEF Close, Writing, Stopping
<1>4. Writers'
  BY DEF Close, Writing, Selects, Writers
<1>5. NoPersisterLeaks'
  BY DEF Close, Writing, NoPersisterLeaks
<1>6. ShutdownFlushes'
  BY DEF Close, Writing, ShutdownFlushes
<1> QED BY <1>1, <1>2, <1>3, <1>4, <1>5, <1>6 DEF SInv

LEMMA BootInv == ASSUME SInv, Boot PROVE SInv'
<1> USE SnapshotsAssumption DEF SInv, procVars, diskVars, pastVars, NoCall, NoFlight, NoDelete, Fresh
<1>1. Shape'
  BY DEF Boot, Shape
<1>2. Known'
  BY DEF Boot, Known, Uses, SoleFlight
<1>3. Stopping'
  BY DEF Boot, Stopping
<1>4. Writers'
  BY DEF Boot, Writers
<1>5. NoPersisterLeaks'
  BY DEF Boot, NoPersisterLeaks
<1>6. ShutdownFlushes'
  BY DEF Boot, ShutdownFlushes
<1> QED BY <1>1, <1>2, <1>3, <1>4, <1>5, <1>6 DEF SInv

-----------------------------------------------------------------------------
(* The specification *)

LEMMA SInit == Init => SInv
<1> SUFFICES ASSUME Init PROVE SInv
  OBVIOUS
<1> USE DEF Init, NoCall, NoFlight, NoDelete, Fresh
<1>1. Shape
  BY DEF Shape
<1>2. Known
  BY SnapshotsAssumption DEF Known, Uses, SoleFlight
<1>3. Stopping
  BY DEF Stopping
<1>4. Writers
  BY DEF Writers
<1>5. NoPersisterLeaks /\ ShutdownFlushes
  BY DEF NoPersisterLeaks, ShutdownFlushes
<1> QED BY <1>1, <1>2, <1>3, <1>4, <1>5 DEF SInv

LEMMA SStep == SInv /\ [Next]_vars => SInv'
<1> SUFFICES ASSUME SInv, [Next]_vars PROVE SInv'
  OBVIOUS
<1>1. CASE PersisterStep
  BY <1>1, TakeDirtyInv, FireInv, WriteTmpInv, RenameInv, WriteFailsInv DEF PersisterStep
<1>2. CASE FlightStep
  BY <1>2, FlightCheckInv, FlightLoadInv, FlightLockInv, FlightInsertInv, PanicInv DEF FlightStep
<1>3. CASE CallerStep
  BY <1>3, ChangeInv, MarkInv, GetOrLoadInv DEF CallerStep
<1>4. CASE DeleteStep
  BY <1>4, RemoveDirInv, DeleteSessionInv, CloseNoFlushInv, CloseTimesOutInv DEF DeleteStep
<1>5. CASE ProcessStep
  BY <1>5, SignalInv, FinalizeAllInFlightInv, ShutdownInv, CloseInv, DieInv, BootInv DEF ProcessStep, Exit, Crash
<1>6. CASE UNCHANGED vars
  BY <1>6 DEF vars, procVars, diskVars, pastVars, SInv, Shape, Known, Stopping, Writers, NoPersisterLeaks,
              ShutdownFlushes, SoleFlight, Uses
<1> QED BY <1>1, <1>2, <1>3, <1>4, <1>5, <1>6 DEF Next

LEMMA SHolds == Spec => []SInv
BY SInit, SStep, PTL DEF Spec

\* A Persister that runs belongs to the map, to the flight that loads it or to
\* somebody who is stopping it, and so does the lock it holds; but for one that the
\* deletion of its session waited for in vain, or that a load started when the
\* server had emptied its map to shut down, and panicked.
THEOREM LeaksCorrect == Spec => []NoPersisterLeaks
<1>1. SInv => NoPersisterLeaks
  BY DEF SInv
<1> QED BY <1>1, SHolds, PTL

\* What Shutdown leaves in claude.json is the state of the session, but for changes
\* made after the last write began.
THEOREM FlushCorrect == Spec => []ShutdownFlushes
<1>1. SInv => ShutdownFlushes
  BY DEF SInv
<1> QED BY <1>1, SHolds, PTL

-----------------------------------------------------------------------------
(* What may be open *)

\* A state in which only what a prompt of this process began is still open.
Calm(s, known) ==
  /\ DOMAIN s = DOMAIN EmptyState /\ s.turns \in Seq(Saved) /\ s.inFlight \in BOOLEAN
  /\ s.inFlight => s.turns # <<>>
  /\ s.turns # <<>> /\ (s.inFlight \/ LastTurn(s).outcome = "open") => LastTurn(s).id \in known
  /\ \A i \in 1..Len(s.turns) : s.turns[i].id \in known \/ NoOpenTool(s.turns[i])

\* What callers bring.
Deeds == [kind : {"begin"}, id : Nat] \cup {Event("get"), Stream[1], Stream[2], RunEnd}

\* Every content of a file, every state and every call is one that the loader and the
\* reducers can take, and only this process' prompts are open.
Files   == snap \in Seq(Saved) \cup {NoFile} /\ tmp \subseteq Seq(Saved) /\ jsonl \in Seq(ALine)
Doings  == made \in Nat /\ \A c \in Callers : call[c].do \in Deeds
States  == \A o \in Objects : Calm(obj[o].state, begun) /\ obj[o].copy \in Seq(Saved)
HangInv == Files /\ Doings /\ States

-----------------------------------------------------------------------------
(* What the reducers leave *)

\* A change of the last turn that opens nothing.
LEMMA LastCalm ==
  ASSUME NEW known, NEW s, Calm(s, known), s.turns # <<>>, NEW turn \in Saved, turn.id = LastTurn(s).id,
         turn.outcome = "open" => LastTurn(s).outcome = "open", turn.id \in known \/ NoOpenTool(turn),
         NEW t, DOMAIN t = DOMAIN EmptyState, t.inFlight \in BOOLEAN, t.inFlight => s.inFlight,
         t.turns = [s.turns EXCEPT ![Len(s.turns)] = turn]
  PROVE  Calm(t, known)
<1> DEFINE n == Len(s.turns)
<1>1. n \in 1..n /\ s.turns \in Seq(Saved) /\ DOMAIN s.turns = 1..n
  BY DEF Calm
<1>2. t.turns \in Seq(Saved) /\ Len(t.turns) = n /\ t.turns # <<>>
  BY <1>1
<1>3. t.turns[n] = turn /\ \A i \in 1..n : i # n => t.turns[i] = s.turns[i]
  BY <1>1
<1>4. LastTurn(t) = turn
  BY <1>2, <1>3 DEF LastTurn
<1> HIDE DEF n
<1>5. \A i \in 1..n : t.turns[i].id \in known \/ NoOpenTool(t.turns[i])
  BY <1>3 DEF Calm, n
<1> QED BY <1>2, <1>4, <1>5 DEF Calm

LEMMA BeginCalm ==
  ASSUME NEW known, NEW s, Calm(s, known), NEW id \in Nat
  PROVE  Calm(BeginTurn(s, id), known \cup {id})
<1> DEFINE t == BeginTurn(s, id)
           n == Len(s.turns)
           turn == NewTurn(id)
<1>1. turn \in Saved /\ turn.id = id
  <2>1. <<>> \in Seq(ABlock) /\ <<>> \in Seq(Seq(Texts)) /\ "none" \in Texts
    <3>1. \A S : <<>> \in Seq(S)
      OBVIOUS
    <3> QED BY <3>1, TextsHave
  <2> QED BY <2>1 DEF NewTurn, Saved, Turns
<1> HIDE DEF turn
<1>2. /\ DOMAIN t = DOMAIN EmptyState /\ t.inFlight = TRUE /\ t.turns = Append(s.turns, turn)
  BY DEF BeginTurn, Calm, EmptyState, turn
<1>3. s.turns \in Seq(Saved) /\ n \in Nat
  BY DEF Calm
<1> HIDE DEF t
<1>4. t.turns \in Seq(Saved) /\ Len(t.turns) = n + 1 /\ t.turns # <<>> /\ t.turns[n + 1] = turn
  BY <1>1, <1>2, <1>3
<1>5. \A i \in 1..n : t.turns[i] = s.turns[i]
  BY <1>2, <1>3
<1>6. LastTurn(t).id \in known \cup {id}
  BY <1>1, <1>4 DEF LastTurn
<1>7. \A i \in 1..(n + 1) : t.turns[i].id \in known \cup {id} \/ NoOpenTool(t.turns[i])
  <2>1. ASSUME NEW i \in 1..n PROVE s.turns[i].id \in known \/ NoOpenTool(s.turns[i])
    BY DEF Calm
  <2> QED BY <1>1, <1>3, <1>4, <1>5, <2>1
<1>8. Calm(t, known \cup {id})
  BY <1>2, <1>4, <1>6, <1>7 DEF Calm
<1> QED BY <1>8 DEF t

LEMMA ToolStartCalm ==
  ASSUME NEW known, NEW s, Calm(s, known)
  PROVE  Calm(ToolUseStart(s, Stream[1]), known)
<1>1. CASE ~Open(s)
  BY <1>1 DEF ToolUseStart, Stream
<1>2. CASE Open(s)
  <2> DEFINE n == Len(s.turns)
             turn == s.turns[n]
             tool == ToolBlock("tool")
             blocks == Append(turn.blocks, tool)
             new == [turn EXCEPT !.blocks = blocks]
             t == ToolUseStart(s, Stream[1])
  <2>1. s.turns # <<>> /\ turn.outcome = "open" /\ turn.id \in known /\ turn = LastTurn(s)
    BY <1>2 DEF Open, LastTurn, Calm
  <2>2. turn \in Saved
    BY <2>1 DEF Calm
  <2>3. tool \in ABlock
    BY TextsHave DEF ToolBlock, ABlock, ATool
  <2>4. blocks \in Seq(ABlock)
    <3>1. turn.blocks \in Seq(ABlock)
      BY <2>2 DEF Saved, Turns
    <3> HIDE DEF tool
    <3> QED BY <2>3, <3>1
  <2>5. new \in Saved /\ new.id = turn.id /\ new.outcome = turn.outcome
    <3> HIDE DEF blocks, turn
    <3> QED BY <2>2, <2>4 DEF Saved, Turns
  <2>6. /\ DOMAIN t = DOMAIN EmptyState /\ t.inFlight = s.inFlight
        /\ t.turns = [s.turns EXCEPT ![n] = new]
    <3> DEFINE index == [IndexFor(s) EXCEPT !.blocks = SetAt(IndexFor(s).blocks, 0, Len(turn.blocks) + 1)]
    <3>1. t = [WithLast(s, new) EXCEPT !.index = index]
      BY <1>2, <2>1 DEF ToolUseStart, Stream
    <3>2. WithLast(s, new) = [s EXCEPT !.turns = [s.turns EXCEPT ![n] = new]]
      BY DEF WithLast
    <3> HIDE DEF t, new, index
    <3> QED BY <3>1, <3>2 DEF Calm, EmptyState
  <2>7. s.inFlight \in BOOLEAN
    BY DEF Calm
  <2> HIDE DEF t, new, turn, n
  <2>8. t.turns = [s.turns EXCEPT ![Len(s.turns)] = new]
    BY <2>6 DEF n
  <2>9. Calm(t, known)
    BY <2>1, <2>5, <2>6, <2>7, <2>8, LastCalm
  <2> QED BY <2>9 DEF t
<1> QED BY <1>1, <1>2

LEMMA ToolResultCalm ==
  ASSUME NEW known, NEW s, Calm(s, known)
  PROVE  Calm(ToolResult(s, Stream[2]), known)
<1> DEFINE n == Len(s.turns)
           turn == s.turns[n]
           tools == ToolsAt(turn, "tool")
           at == FirstOf(tools)
           t == ToolResult(s, Stream[2])
<1>1. CASE s.turns = <<>>
  BY <1>1 DEF ToolResult
<1>2. CASE s.turns # <<>> /\ tools = {}
  <2>1. t = [s EXCEPT !.lastError = "tool_result_unmatched"]
    BY <1>2 DEF ToolResult, LastTurn, Stream
  <2> HIDE DEF t
  <2>2. DOMAIN t = DOMAIN EmptyState /\ t.turns = s.turns /\ t.inFlight = s.inFlight
    BY <2>1 DEF Calm, EmptyState
  <2>3. Calm(t, known)
    BY <2>2 DEF Calm, LastTurn
  <2> QED BY <2>3 DEF t
<1>3. CASE s.turns # <<>> /\ tools # {}
  <2>1. turn = LastTurn(s) /\ turn \in Saved
    BY <1>3 DEF LastTurn, Calm
  <2>2. PICK old \in Seq(ABlock) : old = turn.blocks
    BY <2>1 DEF Saved, Turns
  <2>3. at \in 1..Len(old) /\ old[at].kind = "tool"
    <3>1. tools = {i \in 1..Len(old) : old[i].kind = "tool" /\ old[i].id = "tool"}
      BY <2>2 DEF ToolsAt
    <3> HIDE DEF tools
    <3>2. tools \in SUBSET Nat /\ tools # {}
      BY <1>3, <3>1
    <3>3. at \in tools
      BY <3>2, FirstIs
    <3> QED BY <3>1, <3>3
  <2>4. PICK b \in ATool : b = old[at]
    <3> HIDE DEF at
    <3>1. old[at] \in ABlock
      BY <2>3
    <3> QED BY <2>3, <3>1 DEF ABlock
  <2> DEFINE ended == [SetToolOutcome(b, "completed") EXCEPT !.result = "out"]
             blocks == [old EXCEPT ![at] = ended]
             new == [turn EXCEPT !.blocks = blocks]
  <2>5. ended \in ATool /\ ended.outcome # "open"
    BY <2>4, TextsHave DEF SetToolOutcome, ATool, Settled
  <2> HIDE DEF at, ended
  <2>6. blocks \in Seq(ABlock) /\ DOMAIN blocks = DOMAIN old
    BY <2>3, <2>5 DEF ABlock
  <2>7. new \in Saved /\ new.id = turn.id /\ new.outcome = turn.outcome /\ new.blocks = blocks
    <3> HIDE DEF blocks, turn
    <3> QED BY <2>1, <2>6 DEF Saved, Turns
  <2>8. turn.id \in known \/ NoOpenTool(new)
    <3>1. turn.id \in known \/ NoOpenTool(turn)
      <4>1. n \in 1..Len(s.turns)
        BY <1>3 DEF Calm
      <4> QED BY <4>1 DEF Calm
    <3>2. ASSUME NoOpenTool(turn), NEW i \in DOMAIN blocks, blocks[i].kind = "tool" PROVE blocks[i].outcome # "open"
      <4> HIDE DEF turn
      <4>1. CASE i = at
        BY <2>3, <2>5, <4>1
      <4>2. CASE i # at
        BY <2>2, <2>3, <2>6, <3>2, <4>2 DEF NoOpenTool
      <4> QED BY <4>1, <4>2
    <3> HIDE DEF blocks, new, turn
    <3> QED BY <2>7, <3>1, <3>2 DEF NoOpenTool
  <2>9. DOMAIN t = DOMAIN EmptyState /\ t.inFlight = s.inFlight /\ t.turns = [s.turns EXCEPT ![n] = new]
    <3>1. t = [s EXCEPT !.turns = [s.turns EXCEPT ![n] = [turn EXCEPT !.blocks = [turn.blocks EXCEPT ![at] =
                [SetToolOutcome(turn.blocks[at], "completed") EXCEPT !.result = "out"]]]]]
      BY <1>3 DEF ToolResult, LastTurn, Stream, OutcomeForError, at
    <3>2. t = [s EXCEPT !.turns = [s.turns EXCEPT ![n] = new]]
      BY <2>2, <2>4, <3>1 DEF ended
    <3> HIDE DEF t, new
    <3> QED BY <3>2 DEF Calm, EmptyState
  <2> HIDE DEF t, new, turn
  <2>10. Calm(t, known)
    <3>1. s.inFlight \in BOOLEAN
      BY DEF Calm
    <3> QED BY <1>3, <2>1, <2>7, <2>8, <2>9, <3>1, LastCalm
  <2> QED BY <2>10 DEF t
<1> QED BY <1>1, <1>2, <1>3

LEMMA CloseCalm ==
  ASSUME NEW known, NEW s, Calm(s, known), NEW reason \in Texts, NEW text \in Texts
  PROVE  Calm(CloseLast(s, "aborted", reason, text), known)
<1> DEFINE n == Len(s.turns)
           turn == s.turns[n]
           free == [s EXCEPT !.inFlight = FALSE]
           t == CloseLast(s, "aborted", reason, text)
<1>0. DOMAIN free = DOMAIN EmptyState /\ free.turns = s.turns /\ free.inFlight = FALSE
  BY DEF Calm, EmptyState
<1>1. CASE s.turns = <<>> \/ turn.outcome # "open"
  <2>1. t = free
    BY <1>1 DEF CloseLast, LastTurn
  <2> HIDE DEF t, free
  <2>2. Calm(t, known)
    BY <1>0, <2>1 DEF Calm, LastTurn
  <2> QED BY <2>2 DEF t
<1>2. CASE s.turns # <<>> /\ turn.outcome = "open"
  <2> DEFINE ended == [turn EXCEPT !.outcome = "aborted", !.reason = reason]
             blocks == OrText(turn.blocks, text)
             new == [ended EXCEPT !.blocks = blocks]
  <2>1. turn = LastTurn(s) /\ turn \in Saved /\ turn.id \in known
    BY <1>2 DEF LastTurn, Calm
  <2>2. blocks \in Seq(ABlock)
    <3>1. turn.blocks \in Seq(ABlock)
      BY <2>1 DEF Saved, Turns
    <3>2. <<text>> \in Seq(Texts)
      OBVIOUS
    <3>3. TextBlock(<<text>>) \in ABlock
      BY <3>2 DEF TextBlock, ABlock
    <3>4. <<TextBlock(<<text>>)>> \in Seq(ABlock)
      <4> DEFINE b == TextBlock(<<text>>)
      <4>1. b \in ABlock
        BY <3>3
      <4> HIDE DEF b
      <4>2. <<b>> \in Seq(ABlock)
        BY <4>1
      <4> QED BY <4>2 DEF b
    <3> QED BY <3>1, <3>4, Zenon DEF OrText
  <2>3. ended \in Saved /\ ended.outcome = "aborted" /\ ended.id = turn.id /\ ended.blocks = turn.blocks
    <3> HIDE DEF turn
    <3> QED BY <2>1 DEF Saved, Turns, Settled
  <2>4. SetTurnOutcome(turn, "aborted", reason) = ended
    BY <1>2 DEF SetTurnOutcome
  <2>5. t = WithLast(free, [SetTurnOutcome(turn, "aborted", reason) EXCEPT
                              !.blocks = OrText(SetTurnOutcome(turn, "aborted", reason).blocks, text)])
    BY <1>2 DEF CloseLast, LastTurn
  <2>6. t = [free EXCEPT !.turns = [s.turns EXCEPT ![n] = new]]
    <3> HIDE DEF t, free, ended, turn
    <3> QED BY <1>0, <2>3, <2>4, <2>5 DEF WithLast
  <2>7. new \in Saved /\ new.outcome = "aborted" /\ new.id = turn.id
    <3> HIDE DEF blocks, ended
    <3> QED BY <2>2, <2>3 DEF Saved, Turns
  <2>8. DOMAIN t = DOMAIN EmptyState /\ t.inFlight = FALSE /\ t.turns = [s.turns EXCEPT ![n] = new]
    <3> HIDE DEF t, free, new
    <3> QED BY <1>0, <2>6 DEF EmptyState
  <2> HIDE DEF t, new, turn, free
  <2>9. Calm(t, known)
    BY <1>2, <2>1, <2>7, <2>8, LastCalm
  <2> QED BY <2>9 DEF t
<1> QED BY <1>1, <1>2

\* main's end of a turn.
Shutdowned == [kind |-> "claude_error", code |-> "server_shutdown"]

LEMMA DeedCalm ==
  ASSUME NEW known, NEW s, Calm(s, known), NEW ev \in Deeds \cup {Shutdowned}, ev.kind # "begin"
  PROVE  Calm(Apply(s, ev), known)
<1>1. CASE ev = Event("get")
  BY <1>1 DEF Apply, Event
<1>2. CASE ev = Stream[1]
  <2>1. Apply(s, ev) = ToolUseStart(s, Stream[1])
    BY <1>2 DEF Apply, Stream
  <2> QED BY <2>1, ToolStartCalm
<1>3. CASE ev = Stream[2]
  <2>1. Apply(s, ev) = ToolResult(s, Stream[2])
    BY <1>3 DEF Apply, Stream
  <2> QED BY <2>1, ToolResultCalm
<1>4. CASE ev = RunEnd
  <2>1. "runner_killed" \in Texts /\ "exit" \in Texts
    BY WordsAssumption DEF Texts
  <2>2. Apply(s, ev) = CloseLast(s, "aborted", "runner_killed", "exit")
    BY <1>4 DEF Apply, RunEnd, RunEnded, FinalizeInFlight
  <2> QED BY <2>1, <2>2, CloseCalm
<1>5. CASE ev = Shutdowned
  <2> DEFINE noted == [s EXCEPT !.lastError = "server_shutdown"]
  <2>1. "server_shutdown" \in Texts
    BY WordsAssumption DEF Texts
  <2>2. Apply(s, ev) = CloseLast(noted, "aborted", "server_shutdown", "server_shutdown")
    BY <1>5 DEF Apply, Shutdowned, ClaudeError, ClassifyClaudeError, FinalizeInFlight
  <2>3. DOMAIN noted = DOMAIN EmptyState /\ noted.turns = s.turns /\ noted.inFlight = s.inFlight
    BY DEF Calm, EmptyState
  <2> HIDE DEF noted
  <2>4. Calm(noted, known)
    BY <2>3 DEF Calm, LastTurn
  <2> QED BY <2>1, <2>2, <2>4, CloseCalm
<1> QED BY <1>1, <1>2, <1>3, <1>4, <1>5 DEF Deeds

-----------------------------------------------------------------------------
(* The steps *)

\* Steps that change no state.
LEMMA StatesKept ==
  ASSUME HangInv, UNCHANGED begun,
         \A o \in Objects : obj'[o].state = obj[o].state /\ obj'[o].copy \in {obj[o].copy, obj[o].state.turns}
  PROVE  States'
<1>1. ASSUME NEW o \in Objects PROVE Calm(obj'[o].state, begun') /\ obj'[o].copy \in Seq(Saved)
  <2>1. Calm(obj[o].state, begun) /\ obj[o].copy \in Seq(Saved)
    BY DEF HangInv, States
  <2>2. obj[o].state.turns \in Seq(Saved)
    BY <2>1 DEF Calm
  <2> QED BY <2>1, <2>2
<1> QED BY <1>1 DEF States

LEMMA AnswerDoings ==
  ASSUME Shape, HangInv, NEW o, Answer(o), UNCHANGED made
  PROVE  Doings'
<1> DEFINE lands(c) == CASE call[c].at # "wait" -> call[c]
                         [] call[c].at = "wait" /\ (o = None \/ call[c].do.kind = "get") -> NoCall
                         [] OTHER -> [call[c] EXCEPT !.at = "has", !.obj = o]
<1>1. call' = [c \in Callers |-> lands(c)]
  BY DEF Answer
<1>2. ASSUME NEW c \in Callers PROVE lands(c).do \in Deeds
  <2>1. call[c].do \in Deeds /\ Event("get") \in Deeds
    BY DEF HangInv, Doings, Deeds
  <2>2. CASE call[c].at # "wait"
    BY <2>1, <2>2
  <2>3. CASE call[c].at = "wait" /\ (o = None \/ call[c].do.kind = "get")
    BY <2>1, <2>3 DEF NoCall
  <2>4. CASE call[c].at = "wait" /\ ~(o = None \/ call[c].do.kind = "get")
    <3>1. lands(c) = [call[c] EXCEPT !.at = "has", !.obj = o]
      BY <2>4
    <3> HIDE DEF lands
    <3> QED BY <2>1, <3>1 DEF Shape, NoCall
  <2> QED BY <2>2, <2>3, <2>4
<1> HIDE DEF lands
<1> QED BY <1>1, <1>2 DEF HangInv, Doings

LEMMA GetOrLoadHang ==
  ASSUME SInv, HangInv, NEW c \in Callers, NEW ev \in Wishes(c), GetOrLoad(c, ev)
  PROVE  HangInv'
<1>1. ev \in Deeds /\ made' \in Nat
  <2>1. ev \in Deeds
    BY SnapshotsAssumption DEF Wishes, Deeds, HangInv, Doings, Stream
  <2>2. made' = made \/ made' = made + 1
    <3>1. made' = made + (IF ev.kind = "begin" THEN 1 ELSE 0) /\ made \in Nat
      BY DEF GetOrLoad, HangInv, Doings
    <3> QED BY <3>1
  <2> QED BY <2>1, <2>2 DEF HangInv, Doings
<1>2. UNCHANGED <<obj, begun, snap, tmp>> /\ jsonl' = jsonl \o Transcribed(ev)
  BY DEF GetOrLoad, diskVars
<1>3. Transcribed(ev) \in Seq(ALine)
  <2>0. <<>> \in Seq(ALine)
    OBVIOUS
  <2>1. CASE ev.kind = "begin"
    <3> DEFINE line == [type |-> "user", content |-> "prompt", uuid |-> MaxTurns + ev.id]
    <3>1. ev.id \in Nat /\ MaxTurns \in Nat
      BY <1>1, <2>1, SnapshotsAssumption DEF Deeds, Event, Stream, RunEnd
    <3>2. line \in ALine
      BY <3>1 DEF ALine
    <3>3. Transcribed(ev) = <<line>>
      BY <2>1 DEF Transcribed
    <3> HIDE DEF line
    <3> QED BY <3>2, <3>3
  <2>2. CASE ev = Stream[1]
    <3> DEFINE item == [type |-> "tool_use", id |-> "tool", input |-> "in"]
               line == [type |-> "assistant", items |-> <<item>>]
    <3>1. item \in AnItem
      BY TextsHave DEF AnItem
    <3>2. Transcribed(ev) = <<line>>
      BY <2>2 DEF Transcribed, Stream
    <3> HIDE DEF item
    <3>3. <<item>> \in Seq(AnItem)
      BY <3>1
    <3>4. line \in ALine
      BY <3>3 DEF ALine
    <3> HIDE DEF line
    <3> QED BY <3>2, <3>4
  <2>3. CASE ev = Stream[2]
    <3> DEFINE item == [id |-> "tool", content |-> "out"]
               line == [type |-> "user", content |-> "results", results |-> <<item>>]
    <3>1. item \in AResult
      BY TextsHave DEF AResult
    <3>2. Transcribed(ev) = <<line>>
      BY <2>3 DEF Transcribed, Stream
    <3> HIDE DEF item
    <3>3. <<item>> \in Seq(AResult)
      BY <3>1
    <3>4. line \in ALine
      BY <3>3 DEF ALine
    <3> HIDE DEF line
    <3> QED BY <3>2, <3>4
  <2>4. CASE ev \in {RunEnd, Event("get")}
    <3>1. ev.kind \in {"claude_run_ended", "get"}
      BY <2>4 DEF RunEnd, Event
    <3>2. Transcribed(ev) = <<>>
      BY <3>1 DEF Transcribed
    <3> QED BY <2>0, <3>2
  <2> QED BY <1>1, <2>1, <2>2, <2>3, <2>4 DEF Deeds
<1>4. Files'
  BY <1>2, <1>3 DEF HangInv, Files
<1>5. Doings'
  <2>1. \E at, o : call' = [call EXCEPT ![c] = [at |-> at, do |-> ev, obj |-> o]]
    BY DEF GetOrLoad
  <2> QED BY <1>1, <2>1 DEF SInv, Shape, HangInv, Doings
<1>6. States'
  BY <1>2 DEF HangInv, States
<1> QED BY <1>4, <1>5, <1>6 DEF HangInv

LEMMA FlightCheckHang == ASSUME SInv, HangInv, FlightCheck PROVE HangInv'
<1>1. UNCHANGED <<obj, begun, snap, tmp, jsonl, made>> /\ (Answer(entry) \/ UNCHANGED call)
  BY DEF FlightCheck, diskVars, pastVars
<1>2. Doings'
  BY <1>1, AnswerDoings DEF SInv, HangInv, Doings
<1> QED BY <1>1, <1>2 DEF HangInv, Files, States

LEMMA FlightLoadHang == ASSUME SInv, HangInv, FlightLoad PROVE HangInv'
<1> DEFINE o == CHOOSE o \in Unused : TRUE
           lines == IF flight.uuid /\ jsonl # <<>> THEN jsonl ELSE NoFile
           s == Load(snap, lines)
           new == [Fresh EXCEPT !.used = TRUE, !.state = s]
<1>1. /\ o \in Objects /\ obj' = [obj EXCEPT ![o] = new] /\ UNCHANGED <<call, begun, snap, tmp, jsonl, made>>
  BY DEF FlightLoad, Unused, diskVars, pastVars
<1>2. snap \in Seq(Saved) \cup {NoFile} /\ lines \in Seq(ALine) \cup {NoFile}
  BY DEF HangInv, Files
<1> HIDE DEF lines, o
<1>3. s \in Resting(Ids(Told(snap, LoadJsonl(lines))))
  BY <1>2, LoadSettles
<1> HIDE DEF s
<1>4. Rested(s.turns) /\ s.inFlight = FALSE /\ DOMAIN s = DOMAIN EmptyState
  BY <1>3 DEF Resting, EmptyState
<1>5. Calm(s, begun)
  <2>1. s.turns \in Seq(Saved) /\ (s.turns # <<>> => LastTurn(s).outcome # "open")
    BY <1>4 DEF Rested, LastTurn
  <2>2. \A i \in 1..Len(s.turns) : NoOpenTool(s.turns[i])
    BY <1>4 DEF Rested
  <2> QED BY <1>4, <2>1, <2>2 DEF Calm
<1>6. new.state = s /\ new.copy = <<>>
  BY DEF Fresh
<1> HIDE DEF new
<1>7. <<>> \in Seq(Saved)
  OBVIOUS
<1>8. States'
  BY <1>1, <1>5, <1>6, <1>7 DEF SInv, Shape, HangInv, States
<1> QED BY <1>1, <1>8 DEF HangInv, Files, Doings

\* An object that is not, or no longer, loaded.
LEMMA FreshCalm == \A known : Calm(Fresh.state, known) /\ Fresh.copy \in Seq(Saved)
<1>1. Fresh.state = EmptyState /\ Fresh.copy = <<>> /\ EmptyState.turns = <<>> /\ EmptyState.inFlight = FALSE
  BY DEF Fresh, EmptyState
<1>2. <<>> \in Seq(Saved) /\ Len(<<>>) = 0
  OBVIOUS
<1>3. ASSUME NEW known PROVE Calm(EmptyState, known)
  <2>1. 1..Len(EmptyState.turns) = {}
    BY <1>1, <1>2
  <2> QED BY <1>1, <1>2, <2>1 DEF Calm
<1> QED BY <1>1, <1>2, <1>3

LEMMA FlightLockHang == ASSUME SInv, HangInv, FlightLock PROVE HangInv'
<1>1. /\ flight.obj \in Objects /\ UNCHANGED <<begun, snap, jsonl, made>>
      /\ \/ tmp' = {} /\ obj' = [obj EXCEPT ![flight.obj] = [@ EXCEPT !.loop = "run"]] /\ UNCHANGED call
         \/ UNCHANGED tmp /\ obj' = [obj EXCEPT ![flight.obj] = Fresh] /\ Answer(None)
  BY DEF FlightLock, SInv, Known, pastVars
<1>2. Files'
  BY <1>1 DEF HangInv, Files
<1>3. Doings'
  BY <1>1, AnswerDoings DEF SInv, HangInv, Doings
<1>4. States'
  <2>1. CASE obj' = [obj EXCEPT ![flight.obj] = [@ EXCEPT !.loop = "run"]]
    <3>1. \A o \in Objects : obj'[o].state = obj[o].state /\ obj'[o].copy = obj[o].copy
      BY <1>1, <2>1 DEF SInv, Shape, Fresh
    <3> QED BY <1>1, <3>1, StatesKept
  <2>2. CASE obj' = [obj EXCEPT ![flight.obj] = Fresh]
    BY <1>1, <2>2, FreshCalm DEF SInv, Shape, HangInv, States
  <2> QED BY <1>1, <2>1, <2>2
<1> QED BY <1>2, <1>3, <1>4 DEF HangInv

LEMMA FlightInsertHang == ASSUME SInv, HangInv, FlightInsert PROVE HangInv'
<1>1. UNCHANGED <<obj, begun, snap, tmp, jsonl, made>> /\ Answer(flight.obj)
  BY DEF FlightInsert, diskVars, pastVars
<1>2. Doings'
  BY <1>1, AnswerDoings DEF SInv
<1> QED BY <1>1, <1>2 DEF HangInv, Files, States

LEMMA PanicHang == ASSUME SInv, HangInv, Panic PROVE HangInv'
<1>1. UNCHANGED <<obj, begun, snap, tmp, jsonl, made>> /\ Answer(None)
  BY DEF Panic, diskVars, pastVars
<1>2. Doings'
  BY <1>1, AnswerDoings DEF SInv
<1> QED BY <1>1, <1>2 DEF HangInv, Files, States

LEMMA DieHang == ASSUME SInv, HangInv, Die PROVE HangInv'
<1>1. /\ UNCHANGED <<snap, tmp, jsonl, made>> /\ obj' = [o \in Objects |-> Fresh]
      /\ call' = [c \in Callers |-> NoCall]
  BY DEF Die, diskVars
<1>2. Doings'
  BY <1>1 DEF HangInv, Doings, Deeds, NoCall
<1>3. States'
  BY <1>1, FreshCalm DEF States
<1> QED BY <1>1, <1>2, <1>3 DEF HangInv, Files

LEMMA ChangeHang == ASSUME SInv, HangInv, NEW c \in Callers, Change(c) PROVE HangInv'
<1> DEFINE o == call[c].obj
           ev == call[c].do
           new == Changed(obj[o], ev)
<1>1. /\ o \in Objects /\ obj' = [obj EXCEPT ![o] = new] /\ call' = [call EXCEPT ![c].at = "mark"]
      /\ begun' = IF ev.kind = "begin" THEN begun \cup {ev.id} ELSE begun
      /\ UNCHANGED <<snap, tmp, jsonl, made>>
  BY DEF Change, SInv, Known, Uses, diskVars
<1>2. ev \in Deeds /\ Calm(obj[o].state, begun) /\ DOMAIN obj[o] = DOMAIN Fresh /\ obj[o].copy \in Seq(Saved)
  BY <1>1 DEF SInv, Shape, HangInv, Doings, States
<1>3. /\ new.state = IF ev.kind = "begin" THEN BeginTurn(obj[o].state, ev.id) ELSE Apply(obj[o].state, ev)
      /\ new.copy = obj[o].copy
  BY <1>2 DEF Changed, Fresh
<1> HIDE DEF new
<1>4. Calm(new.state, begun')
  <2>1. CASE ev.kind = "begin"
    <3>1. ev.id \in Nat
      BY <1>2, <2>1 DEF Deeds, Event, Stream, RunEnd
    <3> HIDE DEF ev, o
    <3> QED BY <1>1, <1>2, <1>3, <2>1, <3>1, BeginCalm
  <2>2. CASE ev.kind # "begin"
    <3> HIDE DEF ev, o
    <3> QED BY <1>1, <1>2, <1>3, <2>2, DeedCalm
  <2> QED BY <2>1, <2>2
<1>5. \A p \in Objects : Calm(obj[p].state, begun')
  BY <1>1 DEF HangInv, States, Calm
<1>6. States'
  <2> HIDE DEF o
  <2> QED BY <1>1, <1>2, <1>3, <1>4, <1>5 DEF SInv, Shape, HangInv, States
<1>7. Doings'
  BY <1>1 DEF SInv, Shape, NoCall, HangInv, Doings
<1> QED BY <1>1, <1>6, <1>7 DEF HangInv, Files

LEMMA MarkHang == ASSUME SInv, HangInv, NEW c \in Callers, Mark(c) PROVE HangInv'
<1>1. /\ UNCHANGED <<begun, snap, tmp, jsonl, made>> /\ call' = [call EXCEPT ![c] = NoCall]
      /\ obj' = [obj EXCEPT ![call[c].obj] = [@ EXCEPT !.dirty = TRUE]] /\ call[c].obj \in Objects
  BY DEF Mark, SInv, Known, Uses, diskVars, pastVars
<1>2. States'
  <2>1. \A o \in Objects : obj'[o].state = obj[o].state /\ obj'[o].copy = obj[o].copy
    BY <1>1 DEF SInv, Shape, Fresh
  <2> QED BY <1>1, <2>1, StatesKept
<1>3. Doings'
  <2>1. NoCall.do \in Deeds
    BY DEF NoCall, Deeds
  <2> QED BY <1>1, <2>1 DEF SInv, Shape, HangInv, Doings
<1> QED BY <1>1, <1>2, <1>3 DEF HangInv, Files

-----------------------------------------------------------------------------

LEMMA TakeDirtyHang == ASSUME SInv, HangInv, NEW o \in Objects, TakeDirty(o) PROVE HangInv'
<1>1. UNCHANGED <<call, begun, snap, tmp, jsonl, made>>
  BY DEF TakeDirty, diskVars, pastVars
<1>2. \A p \in Objects : obj'[p].state = obj[p].state /\ obj'[p].copy = obj[p].copy
  BY DEF TakeDirty, SInv, Shape, Fresh
<1>3. States'
  BY <1>1, <1>2, StatesKept
<1> QED BY <1>1, <1>3 DEF HangInv, Files, Doings

LEMMA FireHang == ASSUME SInv, HangInv, NEW o \in Objects, Fire(o) PROVE HangInv'
<1>1. UNCHANGED <<call, begun, snap, tmp, jsonl, made>>
  BY DEF Fire, diskVars, pastVars
<1>2. \A p \in Objects : obj'[p].state = obj[p].state /\ obj'[p].copy \in {obj[p].copy, obj[p].state.turns}
  BY DEF Fire, Writing, SInv, Shape, Fresh
<1>3. States'
  BY <1>1, <1>2, StatesKept
<1> QED BY <1>1, <1>3 DEF HangInv, Files, Doings

LEMMA WriteTmpHang == ASSUME SInv, HangInv, NEW o \in Objects, WriteTmp(o) PROVE HangInv'
<1>1. UNCHANGED <<call, begun, snap, jsonl, made>> /\ tmp' = {obj[o].copy}
  BY DEF WriteTmp, pastVars
<1>2. \A p \in Objects : obj'[p].state = obj[p].state /\ obj'[p].copy = obj[p].copy
  BY DEF WriteTmp, SInv, Shape, Fresh
<1>3. States'
  BY <1>1, <1>2, StatesKept
<1>4. Files'
  BY <1>1 DEF HangInv, Files, States
<1> QED BY <1>1, <1>3, <1>4 DEF HangInv, Doings

LEMMA RenameHang == ASSUME SInv, HangInv, NEW o \in Objects, Rename(o) PROVE HangInv'
<1>1. UNCHANGED <<call, begun, jsonl, made>> /\ snap' \in tmp /\ tmp' = {}
  BY DEF Rename, pastVars
<1>2. \A p \in Objects : obj'[p].state = obj[p].state /\ obj'[p].copy = obj[p].copy
  BY DoneFacts DEF Rename, SInv
<1>3. States'
  BY <1>1, <1>2, StatesKept
<1>4. Files'
  BY <1>1 DEF HangInv, Files
<1> QED BY <1>1, <1>3, <1>4 DEF HangInv, Doings

LEMMA WriteFailsHang == ASSUME SInv, HangInv, NEW o \in Objects, WriteFails(o) PROVE HangInv'
<1>1. UNCHANGED <<call, begun, snap, tmp, jsonl, made>>
  BY DEF WriteFails, diskVars, pastVars
<1>2. \A p \in Objects : obj'[p].state = obj[p].state /\ obj'[p].copy = obj[p].copy
  BY DoneFacts DEF WriteFails, SInv
<1>3. States'
  BY <1>1, <1>2, StatesKept
<1> QED BY <1>1, <1>3 DEF HangInv, Files, Doings

LEMMA DeleteHang == ASSUME SInv, HangInv, DeleteStep PROVE HangInv'
<1>1. UNCHANGED <<call, begun, jsonl, made>> /\ (UNCHANGED <<snap, tmp>> \/ (snap' = NoFile /\ tmp' = {}))
  BY DEF DeleteStep, RemoveDir, DeleteSession, CloseNoFlush, CloseTimesOut, diskVars, pastVars
<1>2. \A p \in Objects : obj'[p].state = obj[p].state /\ obj'[p].copy = obj[p].copy
  <2>1. CASE RemoveDir \/ DeleteSession
    BY <2>1 DEF RemoveDir, DeleteSession
  <2>2. CASE CloseNoFlush
    BY <2>2 DEF CloseNoFlush, SInv, Shape, Fresh
  <2>3. CASE CloseTimesOut
    BY <2>3 DEF CloseTimesOut, SInv, Shape, Fresh
  <2> QED BY <2>1, <2>2, <2>3 DEF DeleteStep
<1>3. States'
  BY <1>1, <1>2, StatesKept
<1> QED BY <1>1, <1>3 DEF HangInv, Files, Doings

LEMMA FinalizeHang == ASSUME SInv, HangInv, FinalizeAllInFlight PROVE HangInv'
<1> DEFINE x == obj[leaving]
           new == [Changed(x, Shutdowned) EXCEPT !.dirty = TRUE]
<1>1. UNCHANGED <<call, begun, snap, tmp, jsonl, made>> /\ obj' = [obj EXCEPT ![leaving] = new]
  BY DEF FinalizeAllInFlight, diskVars, pastVars, Shutdowned
<1>2. leaving \in Objects => new.state = Apply(x.state, Shutdowned) /\ new.copy = x.copy
  BY DEF SInv, Shape, Fresh, Changed, Shutdowned
<1>3. leaving \in Objects => Calm(x.state, begun) /\ x.copy \in Seq(Saved)
  BY DEF HangInv, States
<1> HIDE DEF new, x
<1>4. leaving \in Objects => Calm(new.state, begun)
  BY <1>2, <1>3, DeedCalm DEF Shutdowned
<1>5. States'
  BY <1>1, <1>2, <1>3, <1>4 DEF SInv, Shape, HangInv, States
<1> QED BY <1>1, <1>5 DEF HangInv, Files, Doings

LEMMA ProcessHang ==
  ASSUME SInv, HangInv, Signal \/ Shutdown \/ Close \/ Boot
  PROVE  HangInv'
<1>1. UNCHANGED <<call, begun, snap, tmp, jsonl, made>>
  BY DEF Signal, Shutdown, Close, Boot, diskVars, pastVars
<1>2. \A p \in Objects : obj'[p].state = obj[p].state /\ obj'[p].copy \in {obj[p].copy, obj[p].state.turns}
  <2>1. CASE Signal \/ Shutdown \/ Boot
    BY <2>1 DEF Signal, Shutdown, Boot
  <2>2. CASE Close
    BY <2>2 DEF Close, Writing, SInv, Shape, Fresh
  <2> QED BY <2>1, <2>2
<1>3. States'
  BY <1>1, <1>2, StatesKept
<1> QED BY <1>1, <1>3 DEF HangInv, Files, Doings

-----------------------------------------------------------------------------

LEMMA HangInit == Init => HangInv
<1> SUFFICES ASSUME Init PROVE HangInv
  OBVIOUS
<1>1. <<>> \in Seq(ALine)
  OBVIOUS
<1>2. Files
  BY <1>1 DEF Init, Files
<1>3. Doings
  BY DEF Init, Doings, NoCall, Deeds
<1>4. States
  BY FreshCalm DEF Init, States
<1> QED BY <1>2, <1>3, <1>4 DEF HangInv

LEMMA HangStep == SInv /\ HangInv /\ [Next]_vars => HangInv'
<1> SUFFICES ASSUME SInv, HangInv, [Next]_vars PROVE HangInv'
  OBVIOUS
<1>1. CASE PersisterStep
  BY <1>1, TakeDirtyHang, FireHang, WriteTmpHang, RenameHang, WriteFailsHang DEF PersisterStep
<1>2. CASE FlightStep
  BY <1>2, FlightCheckHang, FlightLoadHang, FlightLockHang, FlightInsertHang, PanicHang DEF FlightStep
<1>3. CASE CallerStep
  BY <1>3, ChangeHang, MarkHang, GetOrLoadHang DEF CallerStep
<1>4. CASE DeleteStep
  BY <1>4, DeleteHang
<1>5. CASE ProcessStep
  BY <1>5, FinalizeHang, ProcessHang, DieHang DEF ProcessStep, Exit, Crash
<1>6. CASE UNCHANGED vars
  BY <1>6 DEF vars, diskVars, pastVars, HangInv, Files, Doings, States
<1> QED BY <1>1, <1>2, <1>3, <1>4, <1>5, <1>6 DEF Next

\* After a restart nothing waits for a claude that is gone: what is still running, a
\* turn or a tool, belongs to a prompt of this process.
THEOREM HangsCorrect == Spec => []NothingHangs
<1>1. HangInv => NothingHangs
  <2>1. ASSUME HangInv, NEW o \in Objects
        PROVE  LET s == obj[o].state IN
               /\ s.inFlight => LastTurn(s).id \in begun
               /\ \A turn \in Range(s.turns) : turn.id \notin begun =>
                    \A b \in Range(turn.blocks) : b.kind = "tool" => b.outcome # "open"
    <3> DEFINE s == obj[o].state
    <3>1. Calm(s, begun)
      BY <2>1 DEF HangInv, States
    <3> HIDE DEF s
    <3>2. s.inFlight => LastTurn(s).id \in begun
      BY <3>1 DEF Calm
    <3>3. ASSUME NEW turn \in Range(s.turns), turn.id \notin begun, NEW b \in Range(turn.blocks), b.kind = "tool"
          PROVE  b.outcome # "open"
      <4>1. DOMAIN s.turns = 1..Len(s.turns)
        BY <3>1 DEF Calm
      <4>2. PICK i \in 1..Len(s.turns) : turn = s.turns[i]
        BY <4>1 DEF Range
      <4>3. NoOpenTool(turn)
        BY <3>1, <3>3, <4>2 DEF Calm
      <4> QED BY <3>3, <4>3 DEF NoOpenTool, Range
    <3> QED BY <3>2, <3>3 DEF s
  <2> QED BY <2>1 DEF NothingHangs
<1> QED BY <1>1, SHolds, HangInit, HangStep, PTL DEF Spec

=============================================================================
