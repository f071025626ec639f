-------------------------- MODULE ClaudeRunsProofs --------------------------
(* Whatever the processes print and however their lines are interleaved, a    *)
(* held slot is one that will be freed, the composer is locked exactly while  *)
(* a turn is open, and a closed turn stays as it is: for any number of runs   *)
(* and tabs, any scripts and any buffers.                                     *)
(*                                                                            *)
(* And what reaches the last turn is a beginning of what its own process      *)
(* printed.                                                                   *)
(*                                                                            *)
(* The first part is about the reducers alone: Apply maps a good state and an *)
(* event to a good state that keeps every turn.  The last follows an event    *)
(* from its line to the turn.                                                 *)
EXTENDS ClaudeRuns, TLAPS, WellFoundedInduction

\* A set of numbers that is not empty has a first one: induction is a least counterexample.
LEMMA LeastOf ==
  ASSUME NEW S \in SUBSET Nat, S # {} PROVE \E k \in S : \A j \in S : k <= j
<1>1. PICK x \in S : \A y \in S : <<y, x>> \notin OpToRel(<, Nat)
  BY WFMin, NatLessThanWellFounded, Zenon
<1>2. \A y \in S : ~(y < x)
  BY <1>1, Zenon DEF OpToRel
<1> QED BY <1>2, SMT

LEMMA FirstIsIn ==
  ASSUME NEW S, S \subseteq Nat, S # {} PROVE FirstOf(S) \in S
<1>1. PICK x \in S : \A y \in S : x <= y
  BY LeastOf
<1> QED BY <1>1 DEF FirstOf

-----------------------------------------------------------------------------
(* The edits of a block and of a turn *)

Outcomes == {"open", "completed", "errored", "aborted"}

LEMMA EditText ==
  ASSUME NEW b \in Block, b.kind = "text", NEW x \in Words
  PROVE  [b EXCEPT !.text = Append(@, x)] \in Block
BY DEF Block

LEMMA EditTool ==
  ASSUME NEW b \in Block, b.kind = "tool", NEW x \in Words
  PROVE  /\ [b EXCEPT !.input = x] \in Block
         /\ [b EXCEPT !.result = x] \in Block
         /\ [b EXCEPT !.task = x] \in Block
         /\ \A d \in {"allow", "deny"} : [b EXCEPT !.decision = d] \in Block
         /\ \A o \in Outcomes : [b EXCEPT !.outcome = o] \in Block
BY DEF Block, Outcomes

LEMMA NewBlocks ==
  ASSUME NEW x \in Words
  PROVE  TextBlock(<<x>>) \in Block /\ TextBlock(<<>>) \in Block /\ ToolBlock(x) \in Block
<1>0. <<>> \in Seq(Words)
  OBVIOUS
<1>1. <<x>> \in Seq(Words)
  OBVIOUS
<1>2. TextBlock(<<x>>) \in Block
  BY <1>1 DEF TextBlock, Block
<1>3. TextBlock(<<>>) \in Block
  BY <1>1 DEF TextBlock, Block
<1>4. ToolBlock(x) \in Block
  <2>1. "none" \in Words
    BY WordsAssumption
  <2> DEFINE b == ToolBlock(x)
  <2>2. /\ b = [kind |-> "tool", id |-> x, decision |-> "pending", outcome |-> "open",
                input |-> "none", result |-> "none", task |-> "none"]
    BY DEF ToolBlock
  <2> HIDE DEF b
  <2>3. b \in Block
    BY <2>1, <2>2 DEF Block
  <2> QED BY <2>3 DEF b
<1> QED BY <1>2, <1>3, <1>4

LEMMA EditTurn ==
  ASSUME NEW turn \in Turn
  PROVE  /\ turn.id \in Nat /\ turn.blocks \in Seq(Block) /\ turn.thinking \in Seq(Seq(Words))
         /\ turn.outcome \in Outcomes /\ turn.reason \in Words
         /\ \A bs \in Seq(Block) : [turn EXCEPT !.blocks = bs] \in Turn
         /\ \A th \in Seq(Seq(Words)) : [turn EXCEPT !.thinking = th] \in Turn
         /\ \A u \in Words : [turn EXCEPT !.usage = u] \in Turn
         /\ \A o \in Outcomes, r \in Words : [turn EXCEPT !.outcome = o, !.reason = r] \in Turn
BY DEF Turn, Outcomes

LEMMA NewTurnIs ==
  ASSUME NEW id \in Nat PROVE NewTurn(id) \in Turn
<1>0. "none" \in Words
  BY WordsAssumption
<1>1. <<>> \in Seq(Block) /\ <<>> \in Seq(Seq(Words))
  OBVIOUS
<1> QED BY <1>0, <1>1 DEF NewTurn, Turn

-----------------------------------------------------------------------------
(* What an event may do to a state *)

\* What every state is.
Good(s) == IsState(s) /\ IndexFits(s) /\ s.inFlight = Open(s)

\* What a closed turn keeps.
Same(turn, next) ==
  /\ next.outcome = turn.outcome /\ next.reason = turn.reason /\ Spoken(next) = Spoken(turn)

\* A state that follows another one without a new turn.
Keeps(s, u) ==
  /\ Good(u) /\ DOMAIN u.turns = DOMAIN s.turns
  /\ \A i \in DOMAIN s.turns :
       u.turns[i].id = s.turns[i].id /\ (s.turns[i].outcome # "open" => Same(s.turns[i], u.turns[i]))
  /\ u.index.turn = s.index.turn \/ \E i \in DOMAIN s.turns : u.index.turn = s.turns[i].id

Fields(s) == [turns |-> s.turns, inFlight |-> s.inFlight, lastError |-> s.lastError,
              tasks |-> s.tasks, subagents |-> s.subagents, index |-> s.index]

LEMMA LastIs ==
  ASSUME NEW s, IsState(s), s.turns # <<>>
  PROVE  /\ Len(s.turns) \in Nat \ {0} /\ Len(s.turns) \in DOMAIN s.turns
         /\ DOMAIN s.turns = 1..Len(s.turns)
         /\ LastTurn(s) \in Turn
BY DEF IsState, LastTurn

\* The turns are as they were.
LEMMA EditRest ==
  ASSUME NEW s, Good(s), NEW u, u = Fields(u), u.turns = s.turns, u.inFlight = s.inFlight, u.index = s.index,
         u.tasks \in [DOMAIN u.tasks -> Task]
  PROVE  Keeps(s, u)
<1>1. IsState(u)
  BY DEF Good, IsState, Fields
<1>2. LastTurn(u) = LastTurn(s)
  BY DEF LastTurn
<1>3. IndexFits(u) /\ u.inFlight = Open(u)
  BY <1>2 DEF Good, IndexFits, Open
<1> QED BY <1>1, <1>3 DEF Keeps, Good, Same

LEMMA KeepsBoth ==
  ASSUME NEW s, NEW w, NEW u, Keeps(s, w), Keeps(w, u) PROVE Keeps(s, u)
BY DEF Keeps, Same

\* The last turn, and the index, may change in a way that fits.
LEMMA EditLast ==
  ASSUME NEW s, Good(s), s.turns # <<>>, NEW u, u = Fields(u),
         NEW turn \in Turn, NEW idx,
         u.turns = [s.turns EXCEPT ![Len(s.turns)] = turn],
         u.index = idx, u.tasks = s.tasks, u.subagents = s.subagents,
         turn.id = LastTurn(s).id, LastTurn(s).outcome # "open" => Same(LastTurn(s), turn),
         u.inFlight = (turn.outcome = "open"),
         idx = [turn |-> idx.turn, blocks |-> idx.blocks, thinking |-> idx.thinking],
         idx.turn \in {s.index.turn, turn.id},
         idx.blocks \in [DOMAIN idx.blocks -> Nat], idx.thinking \in [DOMAIN idx.thinking -> Nat],
         idx.turn = turn.id =>
           /\ \A i \in DOMAIN idx.blocks : idx.blocks[i] \in DOMAIN turn.blocks
           /\ \A i \in DOMAIN idx.thinking : idx.thinking[i] \in DOMAIN turn.thinking
  PROVE  Keeps(s, u)
<1> DEFINE n == Len(s.turns)
<1>0. IsState(s) BY DEF Good
<1>1. n \in Nat \ {0} /\ n \in DOMAIN s.turns /\ DOMAIN s.turns = 1..n /\ s.turns[n] = LastTurn(s)
  BY <1>0, LastIs DEF LastTurn
<1>2. u.turns \in Seq(Turn) /\ Len(u.turns) = n /\ DOMAIN u.turns = 1..n /\ u.turns[n] = turn
  BY <1>0, <1>1 DEF IsState
<1>3. u.turns # <<>> /\ LastTurn(u) = turn
  BY <1>1, <1>2 DEF LastTurn
<1>4. \A i \in DOMAIN s.turns : i # n => u.turns[i] = s.turns[i]
  BY <1>0, <1>1 DEF IsState
<1>5. IsState(u)
  <2>1. idx.turn \in Nat
    BY <1>0, EditTurn DEF IsState
  <2>2. u.inFlight \in BOOLEAN
    OBVIOUS
  <2> QED BY <1>0, <1>2, <2>1, <2>2 DEF IsState, Fields
<1>6. IndexFits(u)
  BY <1>3 DEF IndexFits
<1>7. u.inFlight = Open(u)
  BY <1>3 DEF Open
<1>8. \A i \in DOMAIN s.turns :
       u.turns[i].id = s.turns[i].id /\ (s.turns[i].outcome # "open" => Same(s.turns[i], u.turns[i]))
  BY <1>1, <1>2, <1>4 DEF Same
<1>9. u.index.turn = s.index.turn \/ \E i \in DOMAIN s.turns : u.index.turn = s.turns[i].id
  BY <1>1
<1> QED BY <1>1, <1>2, <1>5, <1>6, <1>7, <1>8, <1>9 DEF Keeps, Good

LEMMA KeepsItself ==
  ASSUME NEW s, Good(s) PROVE Keeps(s, s)
BY DEF Keeps, Same

-----------------------------------------------------------------------------
(* The index *)

LEMMA SetAtIs ==
  ASSUME NEW f, NEW S, f \in [DOMAIN f -> S], NEW i, NEW v \in S, NEW g, g = SetAt(f, i, v)
  PROVE  /\ g \in [DOMAIN g -> S]
         /\ \A j \in DOMAIN g : g[j] = v \/ (j \in DOMAIN f /\ g[j] = f[j])
<1>1. DOMAIN g = DOMAIN f \cup {i}
  BY DEF SetAt
<1>2. \A j \in DOMAIN g : g[j] = IF j = i THEN v ELSE f[j]
  BY <1>1 DEF SetAt
<1>3. g = [j \in DOMAIN g |-> g[j]]
  BY <1>1, <1>2 DEF SetAt
<1>0. \A j \in DOMAIN f : f[j] \in S
  OBVIOUS
<1>4. ASSUME NEW j \in DOMAIN g PROVE g[j] \in S /\ (g[j] = v \/ (j \in DOMAIN f /\ g[j] = f[j]))
  <2>1. CASE j = i
    BY <2>1, <1>2
  <2>2. CASE j # i
    BY <2>2, <1>0, <1>1, <1>2
  <2> QED BY <2>1, <2>2
<1>5. g \in [DOMAIN g -> S]
  BY <1>3, <1>4
<1> QED BY <1>4, <1>5

LEMMA IndexForIs ==
  ASSUME NEW s, Good(s), s.turns # <<>>
  PROVE  /\ IndexFor(s) = [turn |-> LastTurn(s).id, blocks |-> IndexFor(s).blocks,
                           thinking |-> IndexFor(s).thinking]
         /\ IndexFor(s).blocks \in [DOMAIN IndexFor(s).blocks -> Nat]
         /\ IndexFor(s).thinking \in [DOMAIN IndexFor(s).thinking -> Nat]
         /\ \A i \in DOMAIN IndexFor(s).blocks : IndexFor(s).blocks[i] \in DOMAIN LastTurn(s).blocks
         /\ \A i \in DOMAIN IndexFor(s).thinking : IndexFor(s).thinking[i] \in DOMAIN LastTurn(s).thinking
<1>1. CASE s.index.turn = LastTurn(s).id
  BY <1>1 DEF IndexFor, Good, IsState, IndexFits
<1>2. CASE s.index.turn # LastTurn(s).id
  <2>1. IndexFor(s) = [turn |-> LastTurn(s).id, blocks |-> <<>>, thinking |-> <<>>]
    BY <1>2 DEF IndexFor, NoIndex
  <2> QED BY <2>1
<1> QED BY <1>1, <1>2

LEMMA MessageStartKept ==
  ASSUME NEW s, Good(s) PROVE Keeps(s, MessageStart(s))
<1>1. CASE ~Open(s)
  BY <1>1, KeepsItself DEF MessageStart
<1>2. CASE Open(s)
  <2> DEFINE idx == [turn |-> LastTurn(s).id, blocks |-> <<>>, thinking |-> <<>>]
             u == [s EXCEPT !.index = idx]
             turn == LastTurn(s)
  <2>1. MessageStart(s) = u
    BY <1>2 DEF MessageStart, NoIndex
  <2>2. IsState(s) /\ s.turns # <<>> /\ turn.outcome = "open" /\ s.inFlight = TRUE
    BY <1>2 DEF Open, Good
  <2>3. turn \in Turn /\ turn.id \in Nat
    BY <2>2, LastIs, EditTurn
  <2>4. u = Fields(u) /\ u.index = idx /\ u.inFlight = s.inFlight /\ u.tasks = s.tasks
        /\ u.subagents = s.subagents /\ u.turns = s.turns
    BY <2>2 DEF IsState, Fields
  <2>5. s.turns = [s.turns EXCEPT ![Len(s.turns)] = turn]
    BY <2>2 DEF IsState, LastTurn
  <2>6. /\ idx = [turn |-> idx.turn, blocks |-> idx.blocks, thinking |-> idx.thinking]
        /\ idx.turn = turn.id
        /\ idx.blocks = <<>> /\ idx.blocks \in [DOMAIN idx.blocks -> Nat] /\ DOMAIN idx.blocks = {}
        /\ idx.thinking = <<>> /\ idx.thinking \in [DOMAIN idx.thinking -> Nat] /\ DOMAIN idx.thinking = {}
    OBVIOUS
  <2>7. turn = LastTurn(s)
    OBVIOUS
  <2> HIDE DEF u, turn, idx
  <2> QED BY <2>1, <2>2, <2>3, <2>4, <2>5, <2>6, <2>7, EditLast
<1> QED BY <1>1, <1>2

\* The last turn and the index are replaced.
Updated(s, turn, idx) == [WithLast(s, turn) EXCEPT !.index = idx]

\* The open turn grows, and the index with it.
Grown(s, u, blocks, thinking, bi, ti) ==
  /\ blocks \in Seq(Block) /\ DOMAIN LastTurn(s).blocks \subseteq DOMAIN blocks
  /\ thinking \in Seq(Seq(Words)) /\ DOMAIN LastTurn(s).thinking \subseteq DOMAIN thinking
  /\ bi \in [DOMAIN bi -> DOMAIN blocks] /\ ti \in [DOMAIN ti -> DOMAIN thinking]
  /\ u = Updated(s, [LastTurn(s) EXCEPT !.blocks = blocks, !.thinking = thinking],
                  [turn |-> LastTurn(s).id, blocks |-> bi, thinking |-> ti])

LEMMA FieldsOf ==
  ASSUME NEW s, IsState(s), NEW turn, NEW idx, NEW u, u = Updated(s, turn, idx)
  PROVE  /\ u = Fields(u) /\ u.inFlight = s.inFlight /\ u.tasks = s.tasks /\ u.subagents = s.subagents
         /\ u.turns = [s.turns EXCEPT ![Len(s.turns)] = turn] /\ u.index = idx
<1> DEFINE ts == [s.turns EXCEPT ![Len(s.turns)] = turn]
<1>1. WithLast(s, turn) = [s EXCEPT !.turns = ts]
  BY DEF WithLast
<1>2. s = Fields(s)
  BY DEF IsState, Fields
<1> HIDE DEF ts
<1>3. u = [turns |-> ts, inFlight |-> s.inFlight, lastError |-> s.lastError,
           tasks |-> s.tasks, subagents |-> s.subagents, index |-> idx]
  BY <1>1, <1>2 DEF Fields, Updated
<1>4. /\ u = Fields(u) /\ u.inFlight = s.inFlight /\ u.tasks = s.tasks /\ u.subagents = s.subagents
      /\ u.turns = ts /\ u.index = idx
  BY ONLY <1>3 DEF Fields
<1> QED BY <1>4 DEF ts

LEMMA EditOpen ==
  ASSUME NEW s, NEW u, NEW blocks, NEW thinking, NEW bi, NEW ti,
         Good(s), Open(s), Grown(s, u, blocks, thinking, bi, ti)
  PROVE  Keeps(s, u)
<1> DEFINE turn == [LastTurn(s) EXCEPT !.blocks = blocks, !.thinking = thinking]
           idx == [turn |-> LastTurn(s).id, blocks |-> bi, thinking |-> ti]
<1>1. IsState(s) /\ s.turns # <<>> /\ LastTurn(s).outcome = "open" /\ s.inFlight = TRUE
  BY DEF Open, Good
<1>2. LastTurn(s) \in Turn
  BY <1>1, LastIs
<1> USE DEF Grown
<1>3. /\ turn \in Turn /\ turn.id = LastTurn(s).id /\ turn.blocks = blocks /\ turn.thinking = thinking
      /\ turn.outcome = "open"
  BY <1>1, <1>2 DEF Turn
<1>4. DOMAIN blocks \subseteq Nat /\ DOMAIN thinking \subseteq Nat
  OBVIOUS
<1>5. /\ idx = [turn |-> idx.turn, blocks |-> idx.blocks, thinking |-> idx.thinking]
      /\ idx.turn = turn.id /\ idx.blocks = bi /\ idx.thinking = ti
  BY <1>3
<1>6. bi \in [DOMAIN bi -> Nat] /\ ti \in [DOMAIN ti -> Nat]
  BY <1>4
<1>7. (\A i \in DOMAIN bi : bi[i] \in DOMAIN blocks) /\ (\A i \in DOMAIN ti : ti[i] \in DOMAIN thinking)
  OBVIOUS
<1>9. u = Updated(s, turn, idx)
  OBVIOUS
<1> HIDE DEF turn, idx, Grown
<1>8. /\ u = Fields(u) /\ u.inFlight = s.inFlight /\ u.tasks = s.tasks /\ u.subagents = s.subagents
      /\ u.turns = [s.turns EXCEPT ![Len(s.turns)] = turn] /\ u.index = idx
  BY <1>1, <1>9, FieldsOf
<1> QED BY <1>1, <1>3, <1>5, <1>6, <1>7, <1>8, EditLast

LEMMA TextDeltaKept ==
  ASSUME NEW s, Good(s), NEW ev, ev.text \in Words PROVE Keeps(s, TextDelta(s, ev))
<1>1. CASE ~Open(s)
  BY <1>1, KeepsItself DEF TextDelta
<1>2. CASE Open(s)
  <2> DEFINE turn == LastTurn(s)
             idx  == IndexFor(s)
             known  == ev.index \in DOMAIN idx.blocks /\ turn.blocks[idx.blocks[ev.index]].kind = "text"
             blocks == IF known THEN turn.blocks ELSE Append(turn.blocks, TextBlock(<<>>))
             pos    == IF known THEN idx.blocks[ev.index] ELSE Len(blocks)
             next   == [blocks EXCEPT ![pos].text = Append(@, ev.text)]
             bi     == SetAt(idx.blocks, ev.index, pos)
             u == [WithLast(s, [turn EXCEPT !.blocks = next])
                     EXCEPT !.index = [idx EXCEPT !.blocks = bi]]
  <2>1. TextDelta(s, ev) = u
    BY <1>2 DEF TextDelta
  <2>2. IsState(s) /\ s.turns # <<>> /\ turn \in Turn
    BY <1>2, LastIs DEF Open, Good
  <2>3. turn.blocks \in Seq(Block) /\ turn.thinking \in Seq(Seq(Words))
    BY <2>2, EditTurn
  <2>4. /\ idx = [turn |-> turn.id, blocks |-> idx.blocks, thinking |-> idx.thinking]
        /\ \A i \in DOMAIN idx.blocks : idx.blocks[i] \in DOMAIN turn.blocks
        /\ idx.blocks \in [DOMAIN idx.blocks -> Nat]
        /\ idx.thinking \in [DOMAIN idx.thinking -> DOMAIN turn.thinking]
    BY <2>2, IndexForIs
  <2> HIDE DEF turn, idx
  <2>5. /\ blocks \in Seq(Block) /\ DOMAIN turn.blocks \subseteq DOMAIN blocks
        /\ pos \in DOMAIN blocks /\ blocks[pos].kind = "text"
    <3>1. CASE known
      BY <3>1, <2>3, <2>4
    <3>2. CASE ~known
      <4> DEFINE b == TextBlock(<<>>)
                 new == Append(turn.blocks, b)
      <4>1. b \in Block /\ b.kind = "text"
        BY WordsAssumption, NewBlocks DEF TextBlock
      <4>2. blocks = new /\ pos = Len(new)
        BY <3>2
      <4> HIDE DEF b, blocks, pos
      <4>3. new \in Seq(Block) /\ DOMAIN turn.blocks \subseteq DOMAIN new /\ Len(new) \in DOMAIN new
        BY <2>3, <4>1
      <4>4. new[Len(new)] = b
        BY <2>3, <4>1
      <4> QED BY <4>1, <4>2, <4>3, <4>4
    <3> QED BY <3>1, <3>2
  <2> HIDE DEF blocks, pos
  <2>6. next \in Seq(Block) /\ DOMAIN next = DOMAIN blocks
    <3>1. blocks[pos] \in Block
      BY <2>5
    <3>2. [blocks[pos] EXCEPT !.text = Append(@, ev.text)] \in Block
      BY <3>1, <2>5, EditText
    <3> QED BY <3>2, <2>5
  <2>7. bi \in [DOMAIN bi -> DOMAIN next]
    <3>1. idx.blocks \in [DOMAIN idx.blocks -> DOMAIN next]
      BY <2>4, <2>5, <2>6
    <3> HIDE DEF next
    <3> QED BY <3>1, <2>5, <2>6, SetAtIs
  <2> HIDE DEF next, bi
  <2>8. [turn EXCEPT !.blocks = next] = [turn EXCEPT !.blocks = next, !.thinking = turn.thinking]
    BY <2>2 DEF Turn
  <2>9. [idx EXCEPT !.blocks = bi] = [turn |-> turn.id, blocks |-> bi, thinking |-> idx.thinking]
    BY <2>4
  <2>10. Grown(s, u, next, turn.thinking, bi, idx.thinking)
    <3>1. turn = LastTurn(s)
      BY DEF turn
    <3> QED BY <2>3, <2>4, <2>5, <2>6, <2>7, <2>8, <2>9, <3>1 DEF Grown, Updated
  <2> HIDE DEF u
  <2>16. Keeps(s, u)
    BY <1>2, <2>10, EditOpen
  <2> QED BY <2>1, <2>16
<1> QED BY <1>1, <1>2

LEMMA ThinkingDeltaKept ==
  ASSUME NEW s, Good(s), NEW ev, ev.text \in Words PROVE Keeps(s, ThinkingDelta(s, ev))
<1>1. CASE ~Open(s)
  BY <1>1, KeepsItself DEF ThinkingDelta
<1>2. CASE Open(s)
  <2> DEFINE turn == LastTurn(s)
             idx  == IndexFor(s)
             known == ev.index \in DOMAIN idx.thinking
             thoughts == IF known THEN turn.thinking ELSE Append(turn.thinking, <<>>)
             pos  == IF known THEN idx.thinking[ev.index] ELSE Len(thoughts)
             next == [thoughts EXCEPT ![pos] = Append(@, ev.text)]
             ti   == SetAt(idx.thinking, ev.index, pos)
             u == [WithLast(s, [turn EXCEPT !.thinking = next])
                     EXCEPT !.index = [idx EXCEPT !.thinking = ti]]
  <2>1. ThinkingDelta(s, ev) = u
    BY <1>2 DEF ThinkingDelta
  <2>2. IsState(s) /\ s.turns # <<>> /\ turn \in Turn
    BY <1>2, LastIs DEF Open, Good
  <2>3. turn.blocks \in Seq(Block) /\ turn.thinking \in Seq(Seq(Words))
    BY <2>2, EditTurn
  <2>4. /\ idx = [turn |-> turn.id, blocks |-> idx.blocks, thinking |-> idx.thinking]
        /\ \A i \in DOMAIN idx.thinking : idx.thinking[i] \in DOMAIN turn.thinking
        /\ idx.thinking \in [DOMAIN idx.thinking -> Nat]
        /\ idx.blocks \in [DOMAIN idx.blocks -> DOMAIN turn.blocks]
    BY <2>2, IndexForIs
  <2> HIDE DEF turn, idx
  <2>5. /\ thoughts \in Seq(Seq(Words)) /\ DOMAIN turn.thinking \subseteq DOMAIN thoughts
        /\ pos \in DOMAIN thoughts
    <3>1. CASE known
      BY <3>1, <2>3, <2>4
    <3>2. CASE ~known
      BY <3>2, <2>3
    <3> QED BY <3>1, <3>2
  <2> HIDE DEF thoughts, pos
  <2>6. next \in Seq(Seq(Words)) /\ DOMAIN next = DOMAIN thoughts
    <3>1. Append(thoughts[pos], ev.text) \in Seq(Words)
      BY <2>5
    <3> QED BY <3>1, <2>5
  <2>7. ti \in [DOMAIN ti -> DOMAIN next]
    <3>1. idx.thinking \in [DOMAIN idx.thinking -> DOMAIN next]
      BY <2>4, <2>5, <2>6
    <3> HIDE DEF next
    <3> QED BY <3>1, <2>5, <2>6, SetAtIs
  <2> HIDE DEF next, ti
  <2>8. [turn EXCEPT !.thinking = next] = [turn EXCEPT !.blocks = turn.blocks, !.thinking = next]
    BY <2>2 DEF Turn
  <2>9. [idx EXCEPT !.thinking = ti] = [turn |-> turn.id, blocks |-> idx.blocks, thinking |-> ti]
    BY <2>4
  <2>10. Grown(s, u, turn.blocks, next, idx.blocks, ti)
    <3>1. turn = LastTurn(s)
      BY DEF turn
    <3> QED BY <2>3, <2>4, <2>5, <2>6, <2>7, <2>8, <2>9, <3>1 DEF Grown, Updated
  <2> HIDE DEF u
  <2>11. Keeps(s, u)
    BY <1>2, <2>10, EditOpen
  <2> QED BY <2>1, <2>11
<1> QED BY <1>1, <1>2

LEMMA ToolUseStartKept ==
  ASSUME NEW s, Good(s), NEW ev, ev.id \in Words PROVE Keeps(s, ToolUseStart(s, ev))
<1>1. CASE ~Open(s) \/ ev.id = ""
  BY <1>1, KeepsItself DEF ToolUseStart
<1>2. CASE Open(s) /\ ev.id # ""
  <2> DEFINE turn == LastTurn(s)
             idx  == IndexFor(s)
             pos  == Len(turn.blocks) + 1
             next == Append(turn.blocks, ToolBlock(ev.id))
             bi   == SetAt(idx.blocks, ev.index, pos)
             u == [WithLast(s, [turn EXCEPT !.blocks = next])
                     EXCEPT !.index = [idx EXCEPT !.blocks = bi]]
  <2>1. ToolUseStart(s, ev) = u
    BY <1>2 DEF ToolUseStart
  <2>2. IsState(s) /\ s.turns # <<>> /\ turn \in Turn
    BY <1>2, LastIs DEF Open, Good
  <2>3. turn.blocks \in Seq(Block) /\ turn.thinking \in Seq(Seq(Words))
    BY <2>2, EditTurn
  <2>4. /\ idx = [turn |-> turn.id, blocks |-> idx.blocks, thinking |-> idx.thinking]
        /\ idx.blocks \in [DOMAIN idx.blocks -> DOMAIN turn.blocks]
        /\ idx.thinking \in [DOMAIN idx.thinking -> DOMAIN turn.thinking]
    BY <2>2, IndexForIs
  <2> HIDE DEF turn, idx
  <2>5. ToolBlock(ev.id) \in Block
    BY NewBlocks
  <2>6. next \in Seq(Block) /\ DOMAIN turn.blocks \subseteq DOMAIN next /\ pos \in DOMAIN next
    BY <2>3, <2>5
  <2> HIDE DEF next, pos
  <2>7. bi \in [DOMAIN bi -> DOMAIN next]
    <3>1. idx.blocks \in [DOMAIN idx.blocks -> DOMAIN next]
      BY <2>4, <2>6
    <3> QED BY <3>1, <2>6, SetAtIs
  <2> HIDE DEF bi
  <2>8. [turn EXCEPT !.blocks = next] = [turn EXCEPT !.blocks = next, !.thinking = turn.thinking]
    BY <2>2 DEF Turn
  <2>9. [idx EXCEPT !.blocks = bi] = [turn |-> turn.id, blocks |-> bi, thinking |-> idx.thinking]
    BY <2>4
  <2>10. Grown(s, u, next, turn.thinking, bi, idx.thinking)
    <3>1. turn = LastTurn(s)
      BY DEF turn
    <3> QED BY <2>3, <2>4, <2>6, <2>7, <2>8, <2>9, <3>1 DEF Grown, Updated
  <2> HIDE DEF u
  <2>11. Keeps(s, u)
    BY <1>2, <2>10, EditOpen
  <2> QED BY <2>1, <2>11
<1> QED BY <1>1, <1>2

-----------------------------------------------------------------------------
(* Tool blocks may change in any turn, closed or not *)

\* Text stays text, and stays what it says.
Marked(turn, bs) ==
  /\ bs \in Seq(Block) /\ DOMAIN bs = DOMAIN turn.blocks
  /\ \A i \in DOMAIN bs : bs[i] = turn.blocks[i] \/ (bs[i].kind = "tool" /\ turn.blocks[i].kind = "tool")

LEMMA MarkedTurn ==
  ASSUME NEW turn \in Turn, NEW bs, Marked(turn, bs), NEW next, next = [turn EXCEPT !.blocks = bs]
  PROVE  /\ next \in Turn /\ next.id = turn.id /\ Same(turn, next)
         /\ next.blocks = bs /\ DOMAIN next.blocks = DOMAIN turn.blocks /\ next.thinking = turn.thinking
<1>1. /\ next \in Turn /\ next.id = turn.id /\ next.outcome = turn.outcome /\ next.reason = turn.reason
      /\ next.blocks = bs /\ next.thinking = turn.thinking
  BY DEF Turn, Marked
<1>2. \A i \in DOMAIN turn.blocks :
        (IF bs[i].kind = "text" THEN bs[i].text ELSE <<>>) =
        (IF turn.blocks[i].kind = "text" THEN turn.blocks[i].text ELSE <<>>)
  BY DEF Marked
<1>3. [i \in DOMAIN bs |-> IF bs[i].kind = "text" THEN bs[i].text ELSE <<>>] =
      [i \in DOMAIN turn.blocks |-> IF turn.blocks[i].kind = "text" THEN turn.blocks[i].text ELSE <<>>]
  BY <1>2 DEF Marked
<1>4. Spoken(next) = Spoken(turn)
  BY <1>1, <1>3 DEF Spoken
<1> QED BY <1>1, <1>4 DEF Same, Marked

\* What happens to the last turn without its stream.
LEMMA EditLate ==
  ASSUME NEW s, Good(s), s.turns # <<>>, NEW turn \in Turn, turn.id = LastTurn(s).id,
         Same(LastTurn(s), turn), DOMAIN turn.blocks = DOMAIN LastTurn(s).blocks,
         turn.thinking = LastTurn(s).thinking, NEW u, u = WithLast(s, turn)
  PROVE  Keeps(s, u)
<1> DEFINE ts == [s.turns EXCEPT ![Len(s.turns)] = turn]
<1>1. IsState(s)
  BY DEF Good
<1>2. u = [s EXCEPT !.turns = ts] /\ s = Fields(s)
  BY <1>1 DEF WithLast, IsState, Fields
<1> HIDE DEF ts
<1>3. u = [turns |-> ts, inFlight |-> s.inFlight, lastError |-> s.lastError,
           tasks |-> s.tasks, subagents |-> s.subagents, index |-> s.index]
  BY <1>2 DEF Fields
<1>4. /\ u = Fields(u) /\ u.inFlight = s.inFlight /\ u.tasks = s.tasks /\ u.subagents = s.subagents
      /\ u.turns = ts /\ u.index = s.index
  BY ONLY <1>3 DEF Fields
<1>5. s.inFlight = (turn.outcome = "open")
  BY DEF Good, Open, Same
<1>6. /\ s.index = [turn |-> s.index.turn, blocks |-> s.index.blocks, thinking |-> s.index.thinking]
      /\ s.index.blocks \in [DOMAIN s.index.blocks -> Nat] /\ s.index.thinking \in [DOMAIN s.index.thinking -> Nat]
  BY <1>1 DEF IsState
<1>7. s.index.turn = turn.id =>
           /\ \A i \in DOMAIN s.index.blocks : s.index.blocks[i] \in DOMAIN turn.blocks
           /\ \A i \in DOMAIN s.index.thinking : s.index.thinking[i] \in DOMAIN turn.thinking
  BY DEF Good, IndexFits
<1>8. u.turns = [s.turns EXCEPT ![Len(s.turns)] = turn]
  BY <1>4 DEF ts
<1> QED BY <1>4, <1>5, <1>6, <1>7, <1>8, EditLast

LEMMA EditTools ==
  ASSUME NEW s, Good(s), s.turns # <<>>, NEW bs, Marked(LastTurn(s), bs),
         NEW u, u = WithLast(s, [LastTurn(s) EXCEPT !.blocks = bs])
  PROVE  Keeps(s, u)
<1> DEFINE turn == [LastTurn(s) EXCEPT !.blocks = bs]
<1>1. LastTurn(s) \in Turn
  BY LastIs DEF Good
<1>2. /\ turn \in Turn /\ turn.id = LastTurn(s).id /\ Same(LastTurn(s), turn)
      /\ DOMAIN turn.blocks = DOMAIN LastTurn(s).blocks /\ turn.thinking = LastTurn(s).thinking
  BY <1>1, MarkedTurn
<1>3. u = WithLast(s, turn)
  OBVIOUS
<1> HIDE DEF turn
<1> QED BY <1>2, <1>3, EditLate

LEMMA ToolUseEndKept ==
  ASSUME NEW s, Good(s), NEW ev, ev.input \in Words PROVE Keeps(s, ToolUseEnd(s, ev))
<1> DEFINE at == FirstOf(ToolsAt(LastTurn(s), ev.id))
           bs == LastTurn(s).blocks
           next == [bs EXCEPT ![at].input = ev.input]
<1>1. CASE s.turns = <<>> \/ ev.id = "" \/ ToolsAt(LastTurn(s), ev.id) = {}
  BY <1>1, KeepsItself DEF ToolUseEnd
<1>2. CASE s.turns # <<>> /\ ev.id # "" /\ ToolsAt(LastTurn(s), ev.id) # {}
  <2>1. LastTurn(s) \in Turn /\ bs \in Seq(Block)
    BY <1>2, LastIs, EditTurn DEF Good
  <2>2. /\ ToolsAt(LastTurn(s), ev.id) \subseteq Nat
        /\ \A i \in ToolsAt(LastTurn(s), ev.id) : i \in DOMAIN bs /\ bs[i].kind = "tool"
    BY <2>1 DEF ToolsAt
  <2>3. at \in ToolsAt(LastTurn(s), ev.id)
    BY <1>2, <2>2, FirstIsIn
  <2>4. at \in DOMAIN bs /\ bs[at].kind = "tool" /\ bs[at] \in Block
    <3> HIDE DEF at, bs
    <3> QED BY <2>1, <2>2, <2>3
  <2>5. ToolUseEnd(s, ev) = WithLast(s, [LastTurn(s) EXCEPT !.blocks = next])
    BY <1>2 DEF ToolUseEnd, WithLast, LastTurn
  <2> DEFINE b == [bs[at] EXCEPT !.input = ev.input]
  <2>6. b \in Block /\ b.kind = "tool"
    BY <2>4, EditTool DEF Block
  <2>7. next = [bs EXCEPT ![at] = b]
    OBVIOUS
  <2> HIDE DEF at, bs, b, next
  <2>8. Marked(LastTurn(s), next)
    BY <2>1, <2>4, <2>6, <2>7 DEF Marked, bs
  <2> QED BY <1>2, <2>5, <2>8, EditTools
<1> QED BY <1>1, <1>2

LEMMA ToolResultKept ==
  ASSUME NEW s, Good(s), NEW ev, ev.content \in Words, ev.isError \in BOOLEAN PROVE Keeps(s, ToolResult(s, ev))
<1> DEFINE at == FirstOf(ToolsAt(LastTurn(s), ev.id))
           bs == LastTurn(s).blocks
           b  == [SetToolOutcome(bs[at], OutcomeForError(ev.isError)) EXCEPT !.result = ev.content]
           next == [bs EXCEPT ![at] = b]
<1>1. CASE s.turns = <<>> \/ ev.id = ""
  BY <1>1, KeepsItself DEF ToolResult
<1>2. CASE s.turns # <<>> /\ ev.id # "" /\ ToolsAt(LastTurn(s), ev.id) = {}
  <2> DEFINE u == [s EXCEPT !.lastError = "tool_result_unmatched"]
  <2>1. s = Fields(s) /\ s.tasks \in [DOMAIN s.tasks -> Task]
    BY DEF Good, IsState, Fields
  <2>2. u = Fields(u) /\ u.turns = s.turns /\ u.inFlight = s.inFlight /\ u.index = s.index
        /\ u.tasks = s.tasks /\ u.subagents = s.subagents
    BY <2>1 DEF Fields
  <2>3. ToolResult(s, ev) = u
    BY <1>2 DEF ToolResult
  <2> HIDE DEF u
  <2> QED BY <2>1, <2>2, <2>3, EditRest
<1>3. CASE s.turns # <<>> /\ ev.id # "" /\ ToolsAt(LastTurn(s), ev.id) # {}
  <2>1. LastTurn(s) \in Turn /\ bs \in Seq(Block)
    BY <1>3, LastIs, EditTurn DEF Good
  <2>2. /\ ToolsAt(LastTurn(s), ev.id) \subseteq Nat
        /\ \A i \in ToolsAt(LastTurn(s), ev.id) : i \in DOMAIN bs /\ bs[i].kind = "tool"
    BY <2>1 DEF ToolsAt
  <2>3. at \in ToolsAt(LastTurn(s), ev.id)
    BY <1>3, <2>2, FirstIsIn
  <2>4. at \in DOMAIN bs /\ bs[at].kind = "tool" /\ bs[at] \in Block
    <3> HIDE DEF at, bs
    <3> QED BY <2>1, <2>2, <2>3
  <2>5. ToolResult(s, ev) = WithLast(s, [LastTurn(s) EXCEPT !.blocks = next])
    BY <1>3 DEF ToolResult, WithLast, LastTurn
  <2> DEFINE c == SetToolOutcome(bs[at], OutcomeForError(ev.isError))
  <2>6. c \in Block /\ c.kind = "tool"
    <3> DEFINE tool == bs[at]
               o == OutcomeForError(ev.isError)
    <3>1. o \in Outcomes
      BY DEF OutcomeForError, Outcomes
    <3>2. tool \in Block /\ tool.kind = "tool"
      BY <2>4
    <3> HIDE DEF tool, o
    <3>3. [tool EXCEPT !.outcome = o] \in Block
      BY <3>1, <3>2, EditTool
    <3>4. [tool EXCEPT !.outcome = o].kind = "tool"
      BY <3>2 DEF Block
    <3>5. SetToolOutcome(tool, o) \in Block /\ SetToolOutcome(tool, o).kind = "tool"
      BY <3>2, <3>3, <3>4 DEF SetToolOutcome
    <3> QED BY <3>5 DEF tool, o
  <2> HIDE DEF c
  <2>7. [c EXCEPT !.result = ev.content] \in Block /\ [c EXCEPT !.result = ev.content].kind = "tool"
    BY <2>6, EditTool DEF Block
  <2>8. b \in Block /\ b.kind = "tool"
    BY <2>7 DEF c
  <2> HIDE DEF at, bs, b
  <2>9. Marked(LastTurn(s), next)
    BY <2>1, <2>4, <2>8 DEF Marked, bs
  <2> HIDE DEF next
  <2> QED BY <1>3, <2>5, <2>9, EditTools
<1> QED BY <1>1, <1>2, <1>3

LEMMA MessageDeltaKept ==
  ASSUME NEW s, Good(s), NEW ev, ev.usage \in Words PROVE Keeps(s, MessageDelta(s, ev))
<1>1. CASE s.turns = <<>>
  BY <1>1, KeepsItself DEF MessageDelta
<1>2. CASE s.turns # <<>>
  <2> DEFINE turn == [LastTurn(s) EXCEPT !.usage = ev.usage]
  <2>1. LastTurn(s) \in Turn
    BY <1>2, LastIs DEF Good
  <2>2. /\ turn \in Turn /\ turn.id = LastTurn(s).id /\ turn.blocks = LastTurn(s).blocks
        /\ turn.thinking = LastTurn(s).thinking
        /\ turn.outcome = LastTurn(s).outcome /\ turn.reason = LastTurn(s).reason
    BY <2>1 DEF Turn
  <2>3. MessageDelta(s, ev) = WithLast(s, turn)
    BY <1>2 DEF MessageDelta, WithLast, LastTurn
  <2> HIDE DEF turn
  <2>4. Same(LastTurn(s), turn)
    BY <2>2 DEF Same, Spoken
  <2> QED BY <1>2, <2>2, <2>3, <2>4, EditLate
<1> QED BY <1>1, <1>2

-----------------------------------------------------------------------------
(* How a turn ends *)

LEMMA CloseLastKept ==
  ASSUME NEW s, Good(s), NEW outcome \in Outcomes \ {"open"}, NEW reason \in Words, NEW text \in Words
  PROVE  Keeps(s, CloseLast(s, outcome, reason, text)) /\ ~Open(CloseLast(s, outcome, reason, text))
<1> DEFINE free == [s EXCEPT !.inFlight = FALSE]
<1>0. IsState(s) /\ s = Fields(s)
  BY DEF Good, IsState, Fields
<1>1. CASE s.turns = <<>> \/ LastTurn(s).outcome # "open"
  <2>1. s.inFlight = FALSE
    BY <1>1 DEF Good, Open
  <2>2. free = s
    BY <1>0, <2>1 DEF Fields
  <2> QED BY <1>1, <2>2, KeepsItself DEF CloseLast, Open
<1>2. CASE s.turns # <<>> /\ LastTurn(s).outcome = "open"
  <2> DEFINE old == LastTurn(s)
             bs == OrText(old.blocks, text)
             turn == [SetTurnOutcome(old, outcome, reason) EXCEPT !.blocks = OrText(@, text)]
             u == WithLast(free, turn)
             ts == [s.turns EXCEPT ![Len(s.turns)] = turn]
  <2>1. old \in Turn /\ old.blocks \in Seq(Block)
    BY <1>0, <1>2, LastIs, EditTurn
  <2>2. bs \in Seq(Block) /\ DOMAIN old.blocks \subseteq DOMAIN bs
    <3>1. TextBlock(<<text>>) \in Block
      BY NewBlocks
    <3> HIDE DEF old
    <3>2. CASE old.blocks = <<>> /\ text # ""
      <4> DEFINE b == TextBlock(<<text>>)
      <4>1. bs = <<b>>
        BY <3>2 DEF OrText
      <4>2. b \in Block
        BY <3>1
      <4>4. DOMAIN old.blocks = {}
        <5> DEFINE e == old.blocks
        <5>1. e = <<>>
          BY <3>2
        <5> HIDE DEF e
        <5>2. DOMAIN e = {}
          BY ONLY <5>1
        <5> QED BY <5>2 DEF e
      <4> HIDE DEF b, bs
      <4>3. <<b>> \in Seq(Block)
        BY <4>2
      <4> QED BY <4>1, <4>3, <4>4
    <3>3. CASE ~(old.blocks = <<>> /\ text # "")
      BY <3>3, <2>1 DEF OrText
    <3> QED BY <3>2, <3>3
  <2>3. SetTurnOutcome(old, outcome, reason) = [old EXCEPT !.outcome = outcome, !.reason = reason]
    BY <1>2 DEF SetTurnOutcome
  <2> HIDE DEF old
  <2>4. turn = [old EXCEPT !.outcome = outcome, !.reason = reason, !.blocks = bs]
    BY <2>1, <2>3 DEF Turn
  <2> HIDE DEF turn, bs
  <2>5. /\ turn \in Turn /\ turn.id = old.id /\ turn.blocks = bs /\ turn.thinking = old.thinking
        /\ turn.outcome # "open"
    BY <2>1, <2>2, <2>4 DEF Turn, Outcomes
  <2>6. u = [[s EXCEPT !.inFlight = FALSE] EXCEPT !.turns = ts]
    BY <1>0 DEF WithLast, Fields
  <2> HIDE DEF ts, u
  <2>7. u = [turns |-> ts, inFlight |-> FALSE, lastError |-> s.lastError,
             tasks |-> s.tasks, subagents |-> s.subagents, index |-> s.index]
    BY <1>0, <2>6 DEF Fields
  <2>8. /\ u = Fields(u) /\ u.inFlight = FALSE /\ u.tasks = s.tasks /\ u.subagents = s.subagents
        /\ u.turns = ts /\ u.index = s.index
    BY ONLY <2>7 DEF Fields
  <2>9. /\ s.index = [turn |-> s.index.turn, blocks |-> s.index.blocks, thinking |-> s.index.thinking]
        /\ s.index.blocks \in [DOMAIN s.index.blocks -> Nat] /\ s.index.thinking \in [DOMAIN s.index.thinking -> Nat]
    BY <1>0 DEF IsState
  <2>10. s.index.turn = turn.id =>
           /\ \A i \in DOMAIN s.index.blocks : s.index.blocks[i] \in DOMAIN turn.blocks
           /\ \A i \in DOMAIN s.index.thinking : s.index.thinking[i] \in DOMAIN turn.thinking
    BY <1>2, <2>2, <2>5 DEF Good, IndexFits, old
  <2>11. u.turns = [s.turns EXCEPT ![Len(s.turns)] = turn]
    BY <2>8 DEF ts
  <2>12. turn.id = LastTurn(s).id /\ LastTurn(s).outcome = "open" /\ u.inFlight = (turn.outcome = "open")
    BY <1>2, <2>5, <2>8 DEF old
  <2>13. Keeps(s, u)
    BY <1>2, <2>5, <2>8, <2>9, <2>10, <2>11, <2>12, EditLast
  <2>14. CloseLast(s, outcome, reason, text) = u
    BY <1>2 DEF CloseLast, u, turn, old
  <2>15. ~Open(u)
    BY <2>8, <2>13 DEF Keeps, Good
  <2> QED BY <2>13, <2>14, <2>15
<1> QED BY <1>1, <1>2

LEMMA ResultKept ==
  ASSUME NEW s, Good(s), NEW ev, ev.text \in Words, ev.isError \in BOOLEAN PROVE Keeps(s, Result(s, ev))
<1>1. OutcomeForError(ev.isError) \in Outcomes \ {"open"} /\ "none" \in Words
  BY WordsAssumption DEF OutcomeForError, Outcomes
<1> QED BY <1>1, CloseLastKept DEF Result

LEMMA RunEndedKept ==
  ASSUME NEW s, Good(s), NEW ev, ev.text \in Words PROVE Keeps(s, RunEnded(s, ev))
<1>1. "aborted" \in Outcomes \ {"open"} /\ "runner_killed" \in Words
  BY WordsAssumption DEF Outcomes
<1> QED BY <1>1, CloseLastKept DEF RunEnded, FinalizeInFlight

LEMMA ClaudeErrorKept ==
  ASSUME NEW s, Good(s), NEW ev, ev.code \in Words PROVE Keeps(s, ClaudeError(s, ev))
<1> DEFINE class == ClassifyClaudeError(ev.code)
           w == [s EXCEPT !.lastError = ev.code]
<1>1. class.outcome \in Outcomes \ {"open"} /\ class.reason \in Words
  BY WordsAssumption DEF ClassifyClaudeError, Outcomes
<1>2. s = Fields(s) /\ s.tasks \in [DOMAIN s.tasks -> Task]
  BY DEF Good, IsState, Fields
<1>3. w = Fields(w) /\ w.turns = s.turns /\ w.inFlight = s.inFlight /\ w.index = s.index /\ w.tasks = s.tasks
  BY <1>2 DEF Fields
<1>4. ClaudeError(s, ev) = CloseLast(w, class.outcome, class.reason, ev.code)
  BY DEF ClaudeError, FinalizeInFlight
<1> HIDE DEF w, class
<1>5. Keeps(s, w)
  BY <1>2, <1>3, EditRest
<1>6. Keeps(w, CloseLast(w, class.outcome, class.reason, ev.code))
  <2>1. Good(w)
    BY <1>5 DEF Keeps
  <2> QED BY <1>1, <2>1, CloseLastKept
<1> QED BY <1>4, <1>5, <1>6, KeepsBoth

-----------------------------------------------------------------------------
(* Background tasks, subagents, decisions *)

LEMMA MarkToolsKept ==
  ASSUME NEW s, Good(s), NEW id, NEW field, NEW value,
         \A b \in Block : b.kind = "tool" => /\ [b EXCEPT ![field] = value] \in Block
                                            /\ [b EXCEPT ![field] = value].kind = "tool"
  PROVE  Keeps(s, MarkTools(s, id, field, value))
<1> DEFINE Mark(b) == MarkTool(b, id, field, value)
           Turned(turn) == MarkTurn(turn, id, field, value)
           ts == [i \in DOMAIN s.turns |-> Turned(s.turns[i])]
           u == [s EXCEPT !.turns = ts]
<1>1. MarkTools(s, id, field, value) = u
  BY DEF MarkTools
<1>2. IsState(s) /\ s = Fields(s) /\ s.turns \in Seq(Turn)
  BY DEF Good, IsState, Fields
<1>3. ASSUME NEW b \in Block PROVE Mark(b) \in Block /\ (Mark(b) = b \/ (Mark(b).kind = "tool" /\ b.kind = "tool"))
  BY DEF MarkTool
<1>4. ASSUME NEW turn \in Turn
      PROVE  /\ Turned(turn) \in Turn /\ Turned(turn).id = turn.id /\ Same(turn, Turned(turn))
             /\ DOMAIN Turned(turn).blocks = DOMAIN turn.blocks /\ Turned(turn).thinking = turn.thinking
  <2> DEFINE bs == [i \in DOMAIN turn.blocks |-> Mark(turn.blocks[i])]
             next == Turned(turn)
  <2>1. next = [turn EXCEPT !.blocks = bs]
    BY DEF MarkTurn
  <2>2. turn.blocks \in Seq(Block)
    BY EditTurn
  <2> HIDE DEF Mark, next
  <2>3. bs \in Seq(Block) /\ DOMAIN bs = DOMAIN turn.blocks
    BY <1>3, <2>2
  <2>4. ASSUME NEW i \in DOMAIN bs
        PROVE  bs[i] = turn.blocks[i] \/ (bs[i].kind = "tool" /\ turn.blocks[i].kind = "tool")
    BY <1>3, <2>2
  <2>5. Marked(turn, bs)
    BY <2>3, <2>4 DEF Marked
  <2> HIDE DEF bs
  <2>6. next \in Turn /\ next.id = turn.id /\ Same(turn, next)
        /\ DOMAIN next.blocks = DOMAIN turn.blocks /\ next.thinking = turn.thinking
    BY <2>1, <2>5, MarkedTurn
  <2> QED BY <2>6 DEF next
<1> HIDE DEF Turned, Mark
<1>5. ts \in Seq(Turn) /\ DOMAIN ts = DOMAIN s.turns /\ Len(ts) = Len(s.turns)
  BY <1>2, <1>4
<1>6. \A i \in DOMAIN s.turns : /\ ts[i].id = s.turns[i].id /\ Same(s.turns[i], ts[i])
                               /\ DOMAIN ts[i].blocks = DOMAIN s.turns[i].blocks
                               /\ ts[i].thinking = s.turns[i].thinking
  BY <1>2, <1>4
<1> HIDE DEF ts
<1>7. u = [turns |-> ts, inFlight |-> s.inFlight, lastError |-> s.lastError,
           tasks |-> s.tasks, subagents |-> s.subagents, index |-> s.index]
  BY <1>2 DEF Fields
<1> HIDE DEF u
<1>8. /\ u = Fields(u) /\ u.inFlight = s.inFlight /\ u.tasks = s.tasks /\ u.subagents = s.subagents
      /\ u.turns = ts /\ u.index = s.index
  BY ONLY <1>7 DEF Fields
<1>9. IsState(u)
  BY <1>2, <1>5, <1>8 DEF IsState, Fields
<1>10. (s.turns = <<>>) = (u.turns = <<>>)
  BY <1>2, <1>5, <1>6, <1>8
<1>11. s.turns # <<>> => /\ LastTurn(u).id = LastTurn(s).id /\ LastTurn(u).outcome = LastTurn(s).outcome
                        /\ DOMAIN LastTurn(u).blocks = DOMAIN LastTurn(s).blocks
                        /\ LastTurn(u).thinking = LastTurn(s).thinking
  <2>1. s.turns # <<>> => Len(s.turns) \in DOMAIN s.turns
    BY <1>2, LastIs
  <2> QED BY <1>5, <1>6, <1>8, <2>1 DEF LastTurn, Same
<1>12. IndexFits(u) /\ u.inFlight = Open(u)
  BY <1>8, <1>10, <1>11 DEF IndexFits, Open, Good
<1>13. Keeps(s, u)
  BY <1>5, <1>6, <1>8, <1>9, <1>12 DEF Keeps, Good
<1> QED BY <1>1, <1>13

LEMMA ToolDecisionKept ==
  ASSUME NEW s, Good(s), NEW ev, ev.decision \in {"allow", "deny"} PROVE Keeps(s, ToolDecision(s, ev))
<1>1. \A b \in Block : b.kind = "tool" => /\ [b EXCEPT !["decision"] = ev.decision] \in Block
                                          /\ [b EXCEPT !["decision"] = ev.decision].kind = "tool"
  BY DEF Block
<1> QED BY <1>1, MarkToolsKept DEF ToolDecision

LEMMA TaskStartedKept ==
  ASSUME NEW s, Good(s), NEW ev, ev.task \in Words PROVE Keeps(s, TaskStarted(s, ev))
<1> DEFINE task == [status |-> "in_progress", finished |-> FALSE, notes |-> 0]
           ks == SetAt(s.tasks, ev.task, task)
           w == [s EXCEPT !.tasks = ks]
<1>1. \A b \in Block : b.kind = "tool" => /\ [b EXCEPT !["task"] = ev.task] \in Block
                                          /\ [b EXCEPT !["task"] = ev.task].kind = "tool"
  BY DEF Block
<1>2. s = Fields(s) /\ s.tasks \in [DOMAIN s.tasks -> Task]
  BY DEF Good, IsState, Fields
<1>3. task \in Task
  BY WordsAssumption DEF Task
<1> HIDE DEF task
<1>4. ks \in [DOMAIN ks -> Task]
  BY <1>2, <1>3, SetAtIs
<1> HIDE DEF ks
<1>5. w = Fields(w) /\ w.turns = s.turns /\ w.inFlight = s.inFlight /\ w.index = s.index /\ w.tasks = ks
  BY <1>2 DEF Fields
<1>6. TaskStarted(s, ev) = s \/ TaskStarted(s, ev) = MarkTools(w, ev.tool, "task", ev.task)
  BY DEF TaskStarted, ks, task
<1> HIDE DEF w
<1>7. Keeps(s, w)
  BY <1>4, <1>5, EditRest
<1>8. Keeps(w, MarkTools(w, ev.tool, "task", ev.task))
  <2>1. Good(w)
    BY <1>7 DEF Keeps
  <2> QED BY <1>1, <2>1, MarkToolsKept
<1> QED BY <1>6, <1>7, <1>8, KeepsItself, KeepsBoth

\* One entry of the tasks.
LEMMA EditTask ==
  ASSUME NEW s, Good(s), NEW id \in DOMAIN s.tasks, NEW task \in Task, NEW u, u = [s EXCEPT !.tasks[id] = task]
  PROVE  Keeps(s, u)
<1> DEFINE ks == [s.tasks EXCEPT ![id] = task]
<1>1. s = Fields(s) /\ s.tasks \in [DOMAIN s.tasks -> Task]
  BY DEF Good, IsState, Fields
<1>2. ks \in [DOMAIN ks -> Task]
  BY <1>1
<1>3. u = [s EXCEPT !.tasks = ks]
  OBVIOUS
<1> HIDE DEF ks
<1>4. u = Fields(u) /\ u.turns = s.turns /\ u.inFlight = s.inFlight /\ u.index = s.index /\ u.tasks = ks
  BY <1>1, <1>3 DEF Fields
<1> QED BY <1>2, <1>4, EditRest

LEMMA TaskNotificationKept ==
  ASSUME NEW s, Good(s), NEW ev PROVE Keeps(s, TaskNotification(s, ev))
<1>1. CASE ev.task \notin DOMAIN s.tasks
  BY <1>1, KeepsItself DEF TaskNotification
<1>2. CASE ev.task \in DOMAIN s.tasks
  <2> DEFINE old == s.tasks[ev.task]
             noted == [old EXCEPT !.notes = @ + 1]
             ended == [noted EXCEPT !.status = "completed", !.finished = TRUE]
             task == IF ev.status = "completed" THEN ended ELSE noted
  <2>1. old \in Task
    BY <1>2 DEF Good, IsState
  <2>2. TaskNotification(s, ev) = [s EXCEPT !.tasks[ev.task] = task]
    BY <1>2 DEF TaskNotification
  <2> HIDE DEF old
  <2>3. noted \in Task
    BY <2>1 DEF Task
  <2> HIDE DEF noted
  <2>4. ended \in Task
    BY <2>3, WordsAssumption DEF Task
  <2>5. task \in Task
    BY <2>3, <2>4
  <2> HIDE DEF task
  <2> QED BY <1>2, <2>2, <2>5, EditTask
<1> QED BY <1>1, <1>2

LEMMA TaskUpdatedKept ==
  ASSUME NEW s, Good(s), NEW ev, ev.status \in Words PROVE Keeps(s, TaskUpdated(s, ev))
<1>1. CASE ev.task \notin DOMAIN s.tasks \/ ev.status \notin {"completed", "failed", "killed", "stopped"}
  BY <1>1, KeepsItself DEF TaskUpdated
<1>2. CASE ev.task \in DOMAIN s.tasks /\ ev.status \in {"completed", "failed", "killed", "stopped"}
  <2> DEFINE old == s.tasks[ev.task]
             task == [old EXCEPT !.status = ev.status, !.finished = TRUE]
  <2>1. old \in Task
    BY <1>2 DEF Good, IsState
  <2>2. TaskUpdated(s, ev) = [s EXCEPT !.tasks[ev.task] = task]
    BY <1>2 DEF TaskUpdated
  <2> HIDE DEF old
  <2>3. task \in Task
    BY <1>2, <2>1 DEF Task
  <2> HIDE DEF task
  <2> QED BY <1>2, <2>2, <2>3, EditTask
<1> QED BY <1>1, <1>2

\* The subagents are nobody else's.
LEMMA EditSubagents ==
  ASSUME NEW s, Good(s), NEW agents, NEW u, u = [s EXCEPT !.subagents = agents]
  PROVE  Keeps(s, u)
<1>1. s = Fields(s) /\ s.tasks \in [DOMAIN s.tasks -> Task]
  BY DEF Good, IsState, Fields
<1>2. u = Fields(u) /\ u.turns = s.turns /\ u.inFlight = s.inFlight /\ u.index = s.index /\ u.tasks = s.tasks
  BY <1>1 DEF Fields
<1> QED BY <1>1, <1>2, EditRest

LEMMA HookStartedKept ==
  ASSUME NEW s, Good(s), NEW ev PROVE Keeps(s, HookStarted(s, ev))
<1>1. CASE ev.hook # "SubagentStart" \/ ev.id = ""
  BY <1>1, KeepsItself DEF HookStarted
<1>2. CASE ev.hook = "SubagentStart" /\ ev.id # ""
  BY <1>2, EditSubagents DEF HookStarted
<1> QED BY <1>1, <1>2

LEMMA HookResponseKept ==
  ASSUME NEW s, Good(s), NEW ev PROVE Keeps(s, HookResponse(s, ev))
<1> DEFINE running == {i \in DOMAIN s.subagents : ~s.subagents[i].finished}
           agents == [s.subagents EXCEPT ![FirstOf(running)].finished = TRUE]
<1>1. HookResponse(s, ev) = s \/ HookResponse(s, ev) = [s EXCEPT !.subagents = agents]
  BY DEF HookResponse
<1> HIDE DEF agents
<1> QED BY <1>1, KeepsItself, EditSubagents

-----------------------------------------------------------------------------
(* Every event of the wire, and of the server *)

LEMMA EventFields ==
  ASSUME NEW ev \in AnEvent
  PROVE  /\ ev.kind \in {"text_delta", "thinking_delta", "result", "claude_run_ended"} => ev.text \in Words
         /\ ev.kind \in {"tool_result", "result"} => ev.isError \in BOOLEAN
         /\ ev.kind = "tool_use_start" => ev.id \in Words
         /\ ev.kind = "tool_use_end" => ev.input \in Words
         /\ ev.kind = "tool_result" => ev.content \in Words
         /\ ev.kind = "message_delta" => ev.usage \in Words
         /\ ev.kind = "claude_error" => ev.code \in Words
         /\ ev.kind = "task_started" => ev.task \in Words
         /\ ev.kind \in {"task_notification", "task_updated"} => ev.status \in Words
         /\ ev.kind = "tool_decision" => ev.decision \in {"allow", "deny"}
BY DEF AnEvent

Kinds == {"message_start", "text_delta", "thinking_delta", "tool_use_start", "tool_use_end", "tool_result",
          "message_delta", "result", "claude_run_ended", "claude_error", "task_started", "task_notification",
          "task_updated", "hook_started", "hook_response", "tool_decision"}

LEMMA ApplyKept ==
  ASSUME NEW s, Good(s), NEW ev \in AnEvent PROVE Keeps(s, Apply(s, ev))
<1>1. CASE ev.kind = "message_start"
  BY <1>1, EventFields, MessageStartKept DEF Apply
<1>2. CASE ev.kind = "text_delta"
  BY <1>2, EventFields, TextDeltaKept DEF Apply
<1>3. CASE ev.kind = "thinking_delta"
  BY <1>3, EventFields, ThinkingDeltaKept DEF Apply
<1>4. CASE ev.kind = "tool_use_start"
  BY <1>4, EventFields, ToolUseStartKept DEF Apply
<1>5. CASE ev.kind = "tool_use_end"
  BY <1>5, EventFields, ToolUseEndKept DEF Apply
<1>6. CASE ev.kind = "tool_result"
  BY <1>6, EventFields, ToolResultKept DEF Apply
<1>7. CASE ev.kind = "message_delta"
  BY <1>7, EventFields, MessageDeltaKept DEF Apply
<1>8. CASE ev.kind = "result"
  BY <1>8, EventFields, ResultKept DEF Apply
<1>9. CASE ev.kind = "claude_run_ended"
  BY <1>9, EventFields, RunEndedKept DEF Apply
<1>10. CASE ev.kind = "claude_error"
  BY <1>10, EventFields, ClaudeErrorKept DEF Apply
<1>11. CASE ev.kind = "task_started"
  BY <1>11, EventFields, TaskStartedKept DEF Apply
<1>12. CASE ev.kind = "task_notification"
  BY <1>12, EventFields, TaskNotificationKept DEF Apply
<1>13. CASE ev.kind = "task_updated"
  BY <1>13, EventFields, TaskUpdatedKept DEF Apply
<1>14. CASE ev.kind = "hook_started"
  BY <1>14, EventFields, HookStartedKept DEF Apply
<1>15. CASE ev.kind = "hook_response"
  BY <1>15, EventFields, HookResponseKept DEF Apply
<1>16. CASE ev.kind = "tool_decision"
  BY <1>16, EventFields, ToolDecisionKept DEF Apply
<1>17. CASE ev.kind \notin Kinds
  BY <1>17, KeepsItself DEF Apply, Kinds
<1> QED BY <1>1, <1>2, <1>3, <1>4, <1>5, <1>6, <1>7, <1>8, <1>9, <1>10, <1>11, <1>12, <1>13, <1>14, <1>15, <1>16, <1>17 DEF Kinds

LEMMA ParseLineIs ==
  ASSUME NEW line \in Line PROVE ParseLine(line) \in Seq(AnEvent)
<1>1. \A ev \in AnEvent : <<ev>> \in Seq(AnEvent)
  OBVIOUS
<1>2. \A k \in {"unknown", "system", "rate_limit", "message_start", "message_stop", "text_block_end"} :
        Event(k) \in AnEvent
  BY DEF Event, AnEvent
<1>3. CASE line.type = "system"
  BY <1>1, <1>2, <1>3 DEF ParseLine, SystemLine, Line, AnEvent
<1>4. CASE line.type = "stream_event"
  <2>1. ParseLine(line) = StreamEvent(line)
    BY <1>4 DEF ParseLine
  <2>2. CASE line.event = "content_block_start" /\ line.block = "tool_use"
    <3>1. line.index \in Nat /\ line.id \in Words
      BY <1>4, <2>2 DEF Line
    <3>2. [kind |-> "tool_use_start", index |-> line.index, id |-> line.id] \in AnEvent
      BY <3>1 DEF AnEvent
    <3> QED BY <1>1, <2>1, <2>2, <3>2 DEF StreamEvent
  <2>3. CASE line.event = "content_block_start" /\ line.block # "tool_use"
    BY <2>1, <2>3 DEF StreamEvent
  <2>4. CASE line.event = "content_block_delta" /\ line.delta = "input_json_delta"
    BY <2>1, <2>4 DEF StreamEvent
  <2>5. CASE line.event = "content_block_delta" /\ line.delta # "input_json_delta"
    <3>1. line.delta \in {"text_delta", "thinking_delta"} /\ line.index \in Nat /\ line.text \in Words
      BY <1>4, <2>5 DEF Line
    <3>2. [kind |-> line.delta, index |-> line.index, text |-> line.text] \in AnEvent
      BY <3>1 DEF AnEvent
    <3> QED BY <1>1, <2>1, <2>5, <3>2 DEF StreamEvent
  <2>6. CASE line.event = "message_delta"
    <3>1. line.usage \in Words
      BY <1>4, <2>6 DEF Line
    <3>2. [kind |-> "message_delta", usage |-> line.usage] \in AnEvent
      BY <3>1 DEF AnEvent
    <3> QED BY <1>1, <2>1, <2>6, <3>2 DEF StreamEvent
  <2>7. CASE line.event \notin {"content_block_start", "content_block_delta", "message_delta"}
    BY <1>1, <1>2, <2>1, <2>7 DEF StreamEvent, Unknown
  <2> QED BY <2>2, <2>3, <2>4, <2>5, <2>6, <2>7
<1>5. CASE line.type = "assistant"
  <2>1. line.tools \in Seq([id : Words, input : Words])
    BY <1>5 DEF Line
  <2> DEFINE Ev(t) == [kind |-> "tool_use_end", id |-> t.id, input |-> t.input]
  <2>2. ASSUME NEW t \in [id : Words, input : Words] PROVE Ev(t) \in AnEvent
    BY DEF AnEvent
  <2>3. ParseLine(line) = [i \in DOMAIN line.tools |-> Ev(line.tools[i])]
    BY <1>5 DEF ParseLine, AssistantToolInputs
  <2> DEFINE lines == line.tools
  <2> HIDE DEF Ev
  <2>4. ASSUME NEW i \in DOMAIN lines PROVE Ev(lines[i]) \in AnEvent
    <3> DEFINE R == [id : Words, input : Words]
    <3>1. lines \in Seq(R)
      BY <2>1
    <3>2. \A t \in R : Ev(t) \in AnEvent
      BY <2>2
    <3> HIDE DEF R, lines
    <3>3. lines[i] \in R
      BY <3>1
    <3> QED BY <3>2, <3>3
  <2>5. Len(lines) \in Nat /\ DOMAIN lines = 1..Len(lines)
    BY <2>1
  <2> HIDE DEF lines
  <2>6. [i \in DOMAIN lines |-> Ev(lines[i])] \in Seq(AnEvent)
    BY <2>4, <2>5
  <2> QED BY <2>3, <2>6 DEF lines
<1>6. CASE line.type = "user"
  <2>1. line.results \in Seq([id : Words, content : Words, isError : BOOLEAN])
    BY <1>6 DEF Line
  <2> DEFINE Ev(t) == [kind |-> "tool_result", id |-> t.id, content |-> t.content, isError |-> t.isError]
  <2>2. ASSUME NEW t \in [id : Words, content : Words, isError : BOOLEAN] PROVE Ev(t) \in AnEvent
    BY DEF AnEvent
  <2>3. ParseLine(line) = [i \in DOMAIN line.results |-> Ev(line.results[i])]
    BY <1>6 DEF ParseLine, UserToolResult
  <2> DEFINE lines == line.results
  <2> HIDE DEF Ev
  <2>4. ASSUME NEW i \in DOMAIN lines PROVE Ev(lines[i]) \in AnEvent
    <3> DEFINE R == [id : Words, content : Words, isError : BOOLEAN]
    <3>1. lines \in Seq(R)
      BY <2>1
    <3>2. \A t \in R : Ev(t) \in AnEvent
      BY <2>2
    <3> HIDE DEF R, lines
    <3>3. lines[i] \in R
      BY <3>1
    <3> QED BY <3>2, <3>3
  <2>5. Len(lines) \in Nat /\ DOMAIN lines = 1..Len(lines)
    BY <2>1
  <2> HIDE DEF lines
  <2>6. [i \in DOMAIN lines |-> Ev(lines[i])] \in Seq(AnEvent)
    BY <2>4, <2>5
  <2> QED BY <2>3, <2>6 DEF lines
<1>7. CASE line.type = "result"
  BY <1>1, <1>7 DEF ParseLine, Line, AnEvent
<1>8. CASE line.type \in {"rate_limit_event", "unknown"}
  BY <1>1, <1>2, <1>8 DEF ParseLine, Unknown
<1>9. line.type \in {"system", "stream_event", "assistant", "user", "result", "rate_limit_event", "unknown"}
  BY DEF Line
<1> QED BY <1>3, <1>4, <1>5, <1>6, <1>7, <1>8, <1>9

LEMMA DecodeIs ==
  ASSUME NEW ev \in AnEvent PROVE Decode(ev) \in AnEvent
BY DEF Decode, Event, AnEvent

-----------------------------------------------------------------------------
(* The variables *)

\* What waits for the main loop of a tab.
Sent == [run : Runs, ev : AnEvent]

Types ==
  /\ mode \in {"ui", "shell", "closed"} /\ conn \in [Tabs -> {"off", "on", "gone"}] /\ told \subseteq Tabs
  /\ loop \in [Tabs -> [do : {"select", "spawn", "ended"}, run : Runs \cup {None}]]
  /\ slot \in [Tabs -> Runs \cup {None}]
  /\ queue \in [Tabs -> Seq(Sent)]
  /\ tab \in [Runs -> Tabs \cup {None}] /\ proc \in [Runs -> {"new", "live", "dead"}]
  /\ left \in [Runs -> Seq(Line)] /\ pipe \in [Runs -> Seq(AnEvent)]
  /\ fwd \in [Runs -> {"off", "read", "free", "closed"}]
  /\ reap \in [Runs -> {"off", "wait", "report", "done"}]
  /\ cancelled \subseteq Runs /\ gave \subseteq Runs
  /\ mixed \in BOOLEAN /\ stolen \in BOOLEAN /\ dropped \in BOOLEAN

\* A run belongs to one tab, from its prompt on: it is being spawned there, or its
\* reaper waits.
Owned ==
  /\ SlotWillBeFreed
  /\ \A t \in Tabs : loop[t].do = "spawn" =>
       loop[t].run \in Runs /\ tab[loop[t].run] = t /\ reap[loop[t].run] = "off"
  /\ \A r \in Runs : tab[r] = None => reap[r] = "off" /\ fwd[r] = "off"

LEMMA NextRunIs ==
  ASSUME Unused # {} PROVE NextRun \in Runs /\ tab[NextRun] = None
<1>1. Unused \subseteq Nat
  BY RunsAssumption DEF Unused
<1> QED BY <1>1, FirstIsIn DEF NextRun, Unused

LEMMA TypesInit == Init => Types
<1> SUFFICES ASSUME Init PROVE Types
  OBVIOUS
<1>1. Idle \in [do : {"select", "spawn", "ended"}, run : Runs \cup {None}]
  BY DEF Idle
<1> HIDE DEF Idle
<1>2. \A S : <<>> \in Seq(S)
  OBVIOUS
<1> QED BY <1>1, <1>2 DEF Init, Types

LEMMA TabTypes ==
  ASSUME Types, Owned, NEW t \in Tabs,
         Connect(t) \/ Prompt(t) \/ ExitClaude(t) \/ EnterClaude(t) \/ Disconnect(t) \/ LoopStep(t)
  PROVE  Types'
<1> USE DEF Types, tabVars, runVars, histVars
<1> DEFINE D == [do : {"select", "spawn", "ended"}, run : Runs \cup {None}]
<1>0. Idle \in D
  BY DEF Idle
<1>1. CASE Connect(t)
  BY <1>1 DEF Connect
<1>2. CASE Prompt(t)
  <2>1. NextRun \in Runs
    BY <1>2, NextRunIs DEF Prompt, Admits
  <2>2. [do |-> "spawn", run |-> NextRun] \in D
    BY <2>1
  <2>3. loop' \in [Tabs -> D] /\ tab' \in [Runs -> Tabs \cup {None}]
    BY <1>2, <2>1, <2>2 DEF Prompt
  <2>4. mixed' \in BOOLEAN
    BY <1>2 DEF Prompt
  <2> QED BY <1>2, <2>3, <2>4 DEF Prompt
<1>3. ASSUME StopTaken(t)
      PROVE  loop' \in [Tabs -> D] /\ slot' \in [Tabs -> Runs \cup {None}] /\ cancelled' \subseteq Runs
  <2>1. CASE slot[t] = None
    BY <1>3, <2>1 DEF StopTaken
  <2>2. CASE slot[t] # None
    <3>1. slot[t] \in Runs
      BY <2>2
    <3>2. [do |-> "ended", run |-> slot[t]] \in D
      BY <3>1
    <3> QED BY <1>3, <2>2, <3>1, <3>2 DEF StopTaken
  <2> QED BY <2>1, <2>2
<1>4. CASE ExitClaude(t)
  BY <1>3, <1>4 DEF ExitClaude
<1>5. CASE EnterClaude(t)
  BY <1>5 DEF EnterClaude
<1>6. CASE Disconnect(t)
  <2>1. queue' \in [Tabs -> Seq(Sent)]
    BY <1>6 DEF Disconnect
  <2>2. dropped' \in BOOLEAN
    BY <1>6 DEF Disconnect
  <2> QED BY <1>3, <1>6, <2>1, <2>2 DEF Disconnect
<1>7. CASE Spawn(t)
  <2>1. loop[t].run \in Runs /\ loop[t].do = "spawn"
    BY <1>7 DEF Owned, Spawn
  <2> DEFINE r == loop[t].run
  <2>2. PICK s \in Scripts[r] : left' = [left EXCEPT ![r] = s]
    BY <1>7 DEF Spawn, Fork
  <2>4. s \in Seq(Line)
    BY <2>1, RunsAssumption
  <2>5. left' \in [Runs -> Seq(Line)]
    BY <2>1, <2>2, <2>4
  <2>6. proc' \in [Runs -> {"new", "live", "dead"}]
    BY <1>7, <2>1 DEF Spawn, Fork
  <2>3. loop' \in [Tabs -> D]
    BY <1>0, <1>7 DEF Spawn
  <2> QED BY <1>7, <2>1, <2>3, <2>5, <2>6 DEF Spawn
<1>8. CASE SpawnFails(t)
  <2>1. loop' \in [Tabs -> D]
    BY <1>0, <1>8 DEF SpawnFails
  <2> QED BY <1>8, <2>1 DEF SpawnFails
<1>9. CASE Deliver(t)
  <2>1. queue' \in [Tabs -> Seq(Sent)]
    BY <1>9 DEF Deliver
  <2> QED BY <1>9, <2>1 DEF Deliver
<1>10. CASE Closed(t)
  BY <1>3, <1>10 DEF Closed
<1>11. CASE EndTaken(t)
  <2>1. loop' \in [Tabs -> D]
    BY <1>0, <1>11 DEF EndTaken
  <2> QED BY <1>11, <2>1 DEF EndTaken
<1> QED BY <1>1, <1>2, <1>4, <1>5, <1>6, <1>7, <1>8, <1>9, <1>10, <1>11 DEF LoopStep

LEMMA RunTypes ==
  ASSUME Types, Owned, NEW r \in Runs, RunStep(r) PROVE Types'
<1> USE DEF Types, tabVars, runVars, histVars
<1>1. CASE Emit(r)
  <2>1. Head(left[r]) \in Line /\ Tail(left[r]) \in Seq(Line)
    BY <1>1 DEF Emit
  <2>2. ParseLine(Head(left[r])) \in Seq(AnEvent)
    BY <2>1, ParseLineIs
  <2>3. pipe[r] \o ParseLine(Head(left[r])) \in Seq(AnEvent)
    BY <2>2
  <2>4. left' \in [Runs -> Seq(Line)] /\ pipe' \in [Runs -> Seq(AnEvent)]
    BY <1>1, <2>1, <2>3 DEF Emit
  <2> QED BY <1>1, <2>4 DEF Emit
<1>2. CASE Exit(r)
  <2>1. PICK n \in 0..Len(pipe[r]) : pipe' = [pipe EXCEPT ![r] = SubSeq(@, 1, n)]
    BY <1>2 DEF Exit
  <2>2. SubSeq(pipe[r], 1, n) \in Seq(AnEvent)
    OBVIOUS
  <2>3. left' \in [Runs -> Seq(Line)] /\ pipe' \in [Runs -> Seq(AnEvent)]
    BY <1>2, <2>1, <2>2 DEF Exit
  <2> QED BY <1>2, <2>3 DEF Exit
<1>3. CASE Forward(r)
  <2>1. tab[r] \in Tabs
    BY <1>3 DEF Forward, Owned
  <2>2. Head(pipe[r]) \in AnEvent /\ Tail(pipe[r]) \in Seq(AnEvent)
    BY <1>3 DEF Forward
  <2>3. Envelope(r, Head(pipe[r])) \in Sent
    BY <2>2 DEF Envelope, Sent
  <2>4. Append(queue[tab[r]], Envelope(r, Head(pipe[r]))) \in Seq(Sent)
    BY <2>1, <2>3
  <2>5. queue' \in [Tabs -> Seq(Sent)] /\ pipe' \in [Runs -> Seq(AnEvent)]
    BY <1>3, <2>2, <2>4 DEF Forward
  <2>6. fwd' \in [Runs -> {"off", "read", "free", "closed"}] /\ gave' \subseteq Runs
    BY <1>3 DEF Forward
  <2> QED BY <1>3, <2>5, <2>6 DEF Forward
<1>4. CASE Quit(r)
  <2>1. pipe' \in [Runs -> Seq(AnEvent)]
    BY <1>4 DEF Quit
  <2> QED BY <1>4, <2>1 DEF Quit
<1>5. CASE EndOfEvents(r)
  BY <1>5 DEF EndOfEvents
<1>6. CASE FreeSlot(r)
  BY <1>6 DEF FreeSlot, Take
<1>7. CASE Reap(r)
  BY <1>7 DEF Reap, Take
<1>8. CASE Report(r)
  BY <1>8 DEF Report
<1> QED BY <1>1, <1>2, <1>3, <1>4, <1>5, <1>6, <1>7, <1>8 DEF RunStep

LEMMA TypesStep ==
  ASSUME Types, Owned, [Next]_vars PROVE Types'
<1>1. CASE CloseSession
  BY <1>1 DEF CloseSession, Types, tabVars, runVars, histVars
<1>2. CASE UNCHANGED vars
  BY <1>2 DEF Types, vars, tabVars, runVars, histVars
<1> QED BY <1>1, <1>2, TabTypes, RunTypes DEF Next

-----------------------------------------------------------------------------
(* The slots *)

LEMMA TabOwned ==
  ASSUME Types, Owned, NEW t \in Tabs,
         Connect(t) \/ Prompt(t) \/ ExitClaude(t) \/ EnterClaude(t) \/ Disconnect(t) \/ LoopStep(t)
  PROVE  Owned'
<1> USE DEF Types, Owned, SlotWillBeFreed, tabVars, runVars, histVars
<1>1. CASE Connect(t)
  BY <1>1 DEF Connect
<1>2. CASE Prompt(t)
  <2>1. NextRun \in Runs /\ tab[NextRun] = None
    BY <1>2, NextRunIs DEF Prompt, Admits
  <2> QED BY <1>2, <2>1, RunsAssumption DEF Prompt
<1>3. ASSUME StopTaken(t), UNCHANGED <<tab, reap, fwd>> PROVE Owned'
  <2>1. CASE slot[t] = None
    BY <1>3, <2>1 DEF StopTaken
  <2>2. CASE slot[t] # None
    <3>1. loop' = [loop EXCEPT ![t] = [do |-> "ended", run |-> slot[t]]] /\ slot' = [slot EXCEPT ![t] = None]
      BY <1>3, <2>2 DEF StopTaken
    <3>2. \A u \in Tabs : loop'[u].do = "spawn" => loop'[u] = loop[u]
      BY <3>1
    <3>3. \A u \in Tabs : slot'[u] # None => slot'[u] = slot[u]
      BY <3>1
    <3> QED BY <1>3, <3>2, <3>3
  <2> QED BY <2>1, <2>2
<1>4. CASE ExitClaude(t)
  BY <1>3, <1>4 DEF ExitClaude
<1>5. CASE EnterClaude(t)
  BY <1>5 DEF EnterClaude
<1>6. CASE Disconnect(t)
  BY <1>3, <1>6 DEF Disconnect
<1>7. CASE Spawn(t)
  BY <1>7, RunsAssumption DEF Spawn, Idle
<1>8. CASE SpawnFails(t)
  BY <1>8, RunsAssumption DEF SpawnFails, Idle
<1>9. CASE Deliver(t)
  BY <1>9 DEF Deliver
<1>10. CASE Closed(t)
  BY <1>3, <1>10 DEF Closed
<1>11. CASE EndTaken(t)
  BY <1>11 DEF EndTaken, Idle
<1> QED BY <1>1, <1>2, <1>4, <1>5, <1>6, <1>7, <1>8, <1>9, <1>10, <1>11 DEF LoopStep

LEMMA RunOwned ==
  ASSUME Types, Owned, NEW r \in Runs, RunStep(r) PROVE Owned'
<1> USE DEF Types, Owned, SlotWillBeFreed, tabVars, runVars, histVars
<1>1. CASE Emit(r)
  BY <1>1 DEF Emit
<1>2. CASE Exit(r)
  BY <1>2 DEF Exit
<1>3. CASE Forward(r)
  BY <1>3 DEF Forward
<1>4. CASE Quit(r)
  BY <1>4 DEF Quit
<1>5. CASE EndOfEvents(r)
  BY <1>5 DEF EndOfEvents
<1>6. CASE FreeSlot(r)
  BY <1>6 DEF FreeSlot, Take
<1>7. CASE Reap(r)
  BY <1>7 DEF Reap, Take
<1>8. CASE Report(r)
  <2>1. reap[r] = "report" /\ reap' = [reap EXCEPT ![r] = "done"] /\ UNCHANGED <<tabVars, tab, fwd>>
    BY <1>8 DEF Report
  <2>2. \A q \in Runs : reap[q] \in {"off", "wait"} => reap'[q] = reap[q]
    BY <2>1
  <2> QED BY <2>1, <2>2
<1> QED BY <1>1, <1>2, <1>3, <1>4, <1>5, <1>6, <1>7, <1>8 DEF RunStep

LEMMA OwnedStep ==
  ASSUME Types, Owned, [Next]_vars PROVE Owned'
<1>1. CASE CloseSession
  BY <1>1 DEF CloseSession, Owned, SlotWillBeFreed, tabVars, runVars, histVars
<1>2. CASE UNCHANGED vars
  BY <1>2 DEF Owned, SlotWillBeFreed, vars, tabVars, runVars, histVars
<1> QED BY <1>1, <1>2, TabOwned, RunOwned DEF Next

-----------------------------------------------------------------------------
(* The turns *)

\* Every turn is the turn of a run that was started, and so is the one the index
\* is of: the next run finds no index.
Turns ==
  /\ Good(state)
  /\ \A i \in DOMAIN state.turns : state.turns[i].id \in Runs /\ tab[state.turns[i].id] # None
  /\ state.index.turn = 0 \/ \E i \in DOMAIN state.turns : state.index.turn = state.turns[i].id

Inv == Types /\ Owned /\ Turns

LEMMA TurnsInit == Init => Turns
<1> SUFFICES ASSUME Init PROVE Turns
  OBVIOUS
<1>1. state = [turns |-> <<>>, inFlight |-> FALSE, lastError |-> "none", tasks |-> <<>>, subagents |-> <<>>,
               index |-> [turn |-> 0, blocks |-> <<>>, thinking |-> <<>>]]
  BY DEF Init, EmptyState, NoIndex
<1>2. <<>> \in Seq(Turn) /\ <<>> \in [{} -> Task] /\ <<>> \in [{} -> Nat] /\ DOMAIN <<>> = {}
  OBVIOUS
<1>3. IsState(state)
  BY <1>1, <1>2 DEF IsState
<1>4. state.turns = <<>> /\ state.inFlight = FALSE /\ state.index.turn = 0
  BY <1>1
<1> QED BY <1>2, <1>3, <1>4 DEF Turns, Good, IndexFits, Open

\* Only a prompt starts a turn; every other step keeps the ones there are.
LEMMA StateKept ==
  ASSUME Inv, [Next]_vars, ~(\E t \in Tabs : Prompt(t))
  PROVE  Keeps(state, state') /\ tab' = tab
<1> USE DEF tabVars, runVars, histVars
<1>0. Good(state)
  BY DEF Inv, Turns
<1>1. state' = state => Keeps(state, state')
  BY <1>0, KeepsItself
<1>2. ASSUME NEW text \in Words, ApplyRunEnded(text) PROVE Keeps(state, state')
  <2> DEFINE ev == [kind |-> "claude_run_ended", text |-> text]
  <2>1. ev \in AnEvent
    BY DEF AnEvent
  <2>2. state' = Apply(state, ev)
    BY <1>2 DEF ApplyRunEnded
  <2> HIDE DEF ev
  <2> QED BY <1>0, <2>1, <2>2, ApplyKept
<1>3. CASE CloseSession \/ UNCHANGED vars
  BY <1>1, <1>3 DEF CloseSession, vars
<1>4. ASSUME NEW r \in Runs, RunStep(r) PROVE Keeps(state, state') /\ tab' = tab
  <2>1. CASE Report(r)
    <3>1. PICK text \in {"", "exit status"} : ApplyRunEnded(text)
      BY <2>1 DEF Report
    <3>2. text \in Words
      BY WordsAssumption
    <3> QED BY <1>2, <2>1, <3>1, <3>2 DEF Report
  <2>2. CASE ~Report(r)
    BY <1>1, <1>4, <2>2 DEF RunStep, Emit, Exit, Forward, Quit, EndOfEvents, FreeSlot, Reap, Take
  <2> QED BY <2>1, <2>2
<1>5. ASSUME NEW t \in Tabs, Connect(t) \/ ExitClaude(t) \/ EnterClaude(t) \/ Disconnect(t) \/ LoopStep(t)
      PROVE  Keeps(state, state') /\ tab' = tab
  <2>1. CASE SpawnFails(t)
    <3> DEFINE ev == [kind |-> "claude_error", code |-> "claude_spawn_failed"]
    <3>1. ev \in AnEvent
      BY WordsAssumption DEF AnEvent
    <3>2. state' = Apply(state, ev) /\ tab' = tab
      BY <2>1 DEF SpawnFails
    <3> HIDE DEF ev
    <3> QED BY <1>0, <3>1, <3>2, ApplyKept
  <2>2. CASE Deliver(t)
    <3> DEFINE sent == Head(queue[t])
               ev == Decode(sent.ev)
    <3>1. queue[t] \in Seq(Sent) /\ queue[t] # <<>>
      BY <2>2 DEF Deliver, Inv, Types
    <3>2. sent \in Sent
      BY <3>1
    <3>3. sent.ev \in AnEvent
      <4> HIDE DEF sent
      <4> QED BY <3>2 DEF Sent
    <3>4. ev \in AnEvent
      BY <3>3, DecodeIs
    <3>5. state' = Apply(state, ev) /\ tab' = tab
      BY <2>2 DEF Deliver
    <3> HIDE DEF ev
    <3> QED BY <1>0, <3>4, <3>5, ApplyKept
  <2>3. CASE EndTaken(t)
    <3>1. "stopped" \in Words
      BY WordsAssumption
    <3> QED BY <1>2, <2>3, <3>1 DEF EndTaken
  <2>4. CASE ~(SpawnFails(t) \/ Deliver(t) \/ EndTaken(t))
    BY <1>1, <1>5, <2>4 DEF LoopStep, Connect, ExitClaude, EnterClaude, Disconnect, Spawn, Closed
  <2> QED BY <2>1, <2>2, <2>3, <2>4
<1> QED BY <1>3, <1>4, <1>5 DEF Next

LEMMA TurnBegun ==
  ASSUME Inv, NEW t \in Tabs, Prompt(t)
  PROVE  Turns' /\ \A i \in DOMAIN state.turns : state'.turns[i] = state.turns[i]
<1> DEFINE turn == NewTurn(NextRun)
           ts == Append(state.turns, turn)
           n == Len(state.turns)
<1>1. NextRun \in Runs /\ tab[NextRun] = None /\ NextRun \in Nat \ {0}
  BY NextRunIs, RunsAssumption DEF Prompt, Admits
<1>2. tab' = [tab EXCEPT ![NextRun] = t] /\ t # None /\ tab \in [Runs -> Tabs \cup {None}]
  BY RunsAssumption DEF Prompt, Inv, Types
<1>3. turn \in Turn /\ turn.id = NextRun /\ turn.outcome = "open"
  BY <1>1, NewTurnIs DEF NewTurn
<1>4. IsState(state) /\ state = Fields(state) /\ state.turns \in Seq(Turn) /\ n \in Nat
  BY DEF Inv, Turns, Good, IsState, Fields
<1>5. state' = [[state EXCEPT !.turns = ts] EXCEPT !.inFlight = TRUE]
  BY <1>4 DEF Prompt, BeginTurn, Fields
<1> HIDE DEF turn
<1>6. /\ ts \in Seq(Turn) /\ Len(ts) = n + 1 /\ ts # <<>> /\ ts[n + 1] = turn
      /\ DOMAIN ts = 1..(n + 1) /\ DOMAIN state.turns = 1..n /\ \A i \in 1..n : ts[i] = state.turns[i]
  BY <1>3, <1>4
<1> HIDE DEF ts
<1>7. state' = [turns |-> ts, inFlight |-> TRUE, lastError |-> state.lastError,
                tasks |-> state.tasks, subagents |-> state.subagents, index |-> state.index]
  BY <1>4, <1>5 DEF Fields
<1>8. /\ state' = Fields(state') /\ state'.turns = ts /\ state'.inFlight = TRUE
      /\ state'.index = state.index /\ state'.tasks = state.tasks
  BY ONLY <1>7 DEF Fields
<1>9. IsState(state')
  BY <1>4, <1>6, <1>8 DEF IsState, Fields
<1>10. LastTurn(state') = turn
  BY <1>6, <1>8 DEF LastTurn
<1>11. state.index.turn # NextRun
  BY <1>1 DEF Inv, Turns
<1>12. Good(state')
  BY <1>3, <1>6, <1>8, <1>9, <1>10, <1>11 DEF Good, IndexFits, Open
<1>13. \A i \in DOMAIN ts : ts[i].id \in Runs /\ tab'[ts[i].id] # None
  <2> SUFFICES ASSUME NEW i \in DOMAIN ts PROVE ts[i].id \in Runs /\ tab'[ts[i].id] # None
    OBVIOUS
  <2>1. CASE i = n + 1
    BY <1>1, <1>2, <1>3, <1>6, <2>1
  <2>2. CASE i # n + 1
    <3>1. i \in DOMAIN state.turns /\ ts[i] = state.turns[i]
      BY <1>4, <1>6, <2>2
    <3>2. ts[i].id \in Runs /\ tab[ts[i].id] # None
      BY <3>1 DEF Inv, Turns
    <3> QED BY <1>2, <3>2
  <2> QED BY <2>1, <2>2
<1>14. state.index.turn = 0 \/ \E i \in DOMAIN ts : state.index.turn = ts[i].id
  <2>1. CASE state.index.turn = 0
    BY <2>1
  <2>2. CASE \E i \in DOMAIN state.turns : state.index.turn = state.turns[i].id
    <3>1. PICK i \in DOMAIN state.turns : state.index.turn = state.turns[i].id
      BY <2>2
    <3>2. i \in DOMAIN ts /\ ts[i] = state.turns[i]
      BY <1>4, <1>6
    <3> QED BY <3>1, <3>2
  <2> QED BY <2>1, <2>2 DEF Inv, Turns
<1>15. Turns'
  BY <1>8, <1>12, <1>13, <1>14 DEF Turns
<1> QED BY <1>6, <1>8, <1>15

LEMMA TurnsStep ==
  ASSUME Inv, [Next]_vars PROVE Turns'
<1>1. CASE \E t \in Tabs : Prompt(t)
  BY <1>1, TurnBegun
<1>2. CASE ~(\E t \in Tabs : Prompt(t))
  <2>1. Keeps(state, state') /\ tab' = tab
    BY <1>2, StateKept
  <2> QED BY <2>1 DEF Keeps, Turns, Inv
<1> QED BY <1>1, <1>2

LEMMA InvHolds == Spec => []Inv
<1>1. Init => Inv
  <2> SUFFICES ASSUME Init PROVE Inv
    OBVIOUS
  <2>1. Owned
    BY DEF Init, Owned, SlotWillBeFreed, Idle
  <2> QED BY <2>1, TypesInit, TurnsInit DEF Inv
<1>2. Inv /\ [Next]_vars => Inv'
  BY TypesStep, OwnedStep, TurnsStep DEF Inv
<1> QED BY <1>1, <1>2, PTL DEF Spec

-----------------------------------------------------------------------------
(* The events of a script *)

\* f[i] is the first i of the sequences, one after the other.
Flat(f, seqs, n) == f = [i \in 1..n |-> IF i = 1 THEN seqs[i] ELSE f[i - 1] \o seqs[i]]

LEMMA FlatExists ==
  ASSUME NEW A, NEW seqs \in Seq(Seq(A))
  PROVE  \E f \in [1..Len(seqs) -> Seq(A)] : Flat(f, seqs, Len(seqs))
<1> DEFINE Solved(k) == \E f \in [1..k -> Seq(A)] : Flat(f, seqs, k)
           Bad == {k \in 0..Len(seqs) : ~Solved(k)}
<1>1. SUFFICES ASSUME ~Solved(Len(seqs)) PROVE FALSE
  OBVIOUS
<1>0. Len(seqs) \in Nat
  OBVIOUS
<1>2. PICK k \in Bad : \A j \in Bad : k <= j
  <2> HIDE DEF Solved
  <2>1. Bad \in SUBSET Nat /\ Len(seqs) \in Bad
    BY <1>0, <1>1
  <2> HIDE DEF Bad
  <2> QED BY <2>1, LeastOf
<1>3. k # 0
  <2>1. ASSUME k = 0 PROVE FALSE
    <3> DEFINE f == [i \in 1..0 |-> <<>>]
    <3>1. f \in [1..0 -> Seq(A)] /\ Flat(f, seqs, 0)
      BY DEF Flat
    <3> HIDE DEF f
    <3> QED BY <2>1, <3>1
  <2> QED BY <2>1
<1>4. k \in 1..Len(seqs) /\ Solved(k - 1) /\ ~Solved(k)
  <2> HIDE DEF Solved
  <2>1. k - 1 \in 0..Len(seqs) /\ k - 1 \notin Bad
    BY <1>0, <1>2, <1>3
  <2> QED BY <1>3, <2>1
<1>5. PICK f \in [1..(k - 1) -> Seq(A)] : Flat(f, seqs, k - 1)
  BY <1>4
<1> HIDE DEF Bad
<1> DEFINE g == [i \in 1..k |-> IF i = 1 THEN seqs[i] ELSE f[i - 1] \o seqs[i]]
<1>6. \A i \in 1..k : seqs[i] \in Seq(A)
  BY <1>4
<1>7. g \in [1..k -> Seq(A)]
  <2> SUFFICES ASSUME NEW i \in 1..k PROVE (IF i = 1 THEN seqs[i] ELSE f[i - 1] \o seqs[i]) \in Seq(A)
    OBVIOUS
  <2>1. CASE i = 1
    BY <1>6, <2>1
  <2>2. CASE i # 1
    <3>1. f[i - 1] \in Seq(A) /\ seqs[i] \in Seq(A)
      BY <1>4, <1>6, <2>2
    <3> QED BY <2>2, <3>1
  <2> QED BY <2>1, <2>2
<1>8. \A i \in 1..(k - 1) : f[i] = g[i]
  <2> SUFFICES ASSUME NEW i \in 1..(k - 1) PROVE f[i] = g[i]
    OBVIOUS
  <2>1. f[i] = IF i = 1 THEN seqs[i] ELSE f[i - 1] \o seqs[i]
    BY <1>5 DEF Flat
  <2>2. i \in 1..k
    BY <1>4
  <2> QED BY <2>1, <2>2
<1>9. Flat(g, seqs, k)
  <2>0. \A i \in 1..k : i # 1 => i - 1 \in 1..(k - 1)
    <3> HIDE DEF Solved, g
    <3> QED BY <1>4
  <2>1. \A i \in 1..k : i # 1 => g[i - 1] = f[i - 1]
    <3> HIDE DEF Solved, g
    <3> QED BY <1>8, <2>0
  <2>2. g = [i \in 1..k |-> IF i = 1 THEN seqs[i] ELSE g[i - 1] \o seqs[i]]
    BY <2>1
  <2> QED BY <2>2 DEF Flat
<1> HIDE DEF g
<1>10. Solved(k)
  BY <1>7, <1>9
<1> HIDE DEF Solved
<1> QED BY <1>4, <1>10

LEMMA FlattenIs ==
  ASSUME NEW A, NEW seqs \in Seq(Seq(A)), Len(seqs) # 0
  PROVE  \E f \in [1..Len(seqs) -> Seq(A)] : Flat(f, seqs, Len(seqs)) /\ FlattenSeq(seqs) = f[Len(seqs)]
<1> DEFINE n == Len(seqs)
           f == CHOOSE h : h = [i \in 1..n |-> IF i = 1 THEN seqs[i] ELSE h[i - 1] \o seqs[i]]
<1>1. PICK g \in [1..n -> Seq(A)] : Flat(g, seqs, n)
  BY FlatExists
<1>2. f = [i \in 1..n |-> IF i = 1 THEN seqs[i] ELSE f[i - 1] \o seqs[i]]
  <2>1. \E h : h = [i \in 1..n |-> IF i = 1 THEN seqs[i] ELSE h[i - 1] \o seqs[i]]
    BY <1>1, Zenon DEF Flat
  <2> QED BY <2>1, Zenon
<1>3. FlattenSeq(seqs) = f[n]
  BY Zenon DEF FlattenSeq
<1>4. n \in Nat \ {0} /\ \A i \in 1..n : seqs[i] \in Seq(A)
  OBVIOUS
<1> HIDE DEF f, n
<1> DEFINE Bad == {k \in 1..n : f[k] # g[k]}
<1>5. Bad = {}
  <2> SUFFICES ASSUME Bad # {} PROVE FALSE
    OBVIOUS
  <2>1. PICK k \in Bad : \A j \in Bad : k <= j
    <3>1. Bad \in SUBSET Nat
      BY <1>4
    <3> HIDE DEF Bad
    <3> QED BY <3>1, LeastOf
  <2>2. k \in 1..n /\ f[k] # g[k]
    OBVIOUS
  <2>3. f[k] = IF k = 1 THEN seqs[k] ELSE f[k - 1] \o seqs[k]
    BY <1>2, <2>2
  <2>4. g[k] = IF k = 1 THEN seqs[k] ELSE g[k - 1] \o seqs[k]
    BY <1>1, <2>2 DEF Flat
  <2>5. k # 1 => k - 1 \in 1..n /\ ~(k <= k - 1)
    BY <1>4, <2>2
  <2>6. k # 1 => f[k - 1] = g[k - 1]
    BY <2>1, <2>5
  <2> QED BY <2>2, <2>3, <2>4, <2>6
<1>6. f[n] = g[n]
  <2>1. n \in 1..n
    BY <1>4
  <2> QED BY <1>5, <2>1
<1> QED BY <1>1, <1>3, <1>6 DEF n

LEMMA Before ==
  ASSUME NEW n \in Nat \ {0}, NEW k \in 1..n
  PROVE  /\ k \in Nat /\ k + 1 \in 1..(n + 1) /\ k + 1 # 1 /\ (k + 1) - 1 = k
         /\ k # 1 => k - 1 \in 1..n /\ (k - 1) + 1 = k /\ ~(k <= k - 1)
OBVIOUS

\* Concatenation is associative.
Joins(a, b, c) == (a \o b) \o c = a \o (b \o c)

LEMMA JoinsIs ==
  ASSUME NEW S, NEW a \in Seq(S), NEW b \in Seq(S), NEW c \in Seq(S)
  PROVE  Joins(a, b, c)
BY DEF Joins

\* The events of a script are those of its first line and then those of the others.
LEMMA FlattenCons ==
  ASSUME NEW A, NEW x \in Seq(A), NEW rest \in Seq(Seq(A)), NEW seqs \in Seq(Seq(A)),
         Len(seqs) = Len(rest) + 1, seqs[1] = x, \A i \in 1..Len(rest) : seqs[i + 1] = rest[i],
         Len(rest) # 0
  PROVE  FlattenSeq(seqs) = x \o FlattenSeq(rest)
<1> DEFINE n == Len(rest)
<1>0. n \in Nat \ {0}
  OBVIOUS
<1>1. PICK f \in [1..(n + 1) -> Seq(A)] : Flat(f, seqs, n + 1) /\ FlattenSeq(seqs) = f[n + 1]
  BY FlattenIs
<1>2. PICK g \in [1..n -> Seq(A)] : Flat(g, rest, n) /\ FlattenSeq(rest) = g[n]
  BY FlattenIs
<1>7. \A i \in 1..n : rest[i] \in Seq(A) /\ seqs[i + 1] = rest[i]
  OBVIOUS
<1> HIDE DEF n
<1> DEFINE Bad == {k \in 1..n : f[k + 1] # x \o g[k]}
<1>3. Bad = {}
  <2> SUFFICES ASSUME Bad # {} PROVE FALSE
    OBVIOUS
  <2>1. PICK k \in Bad : \A j \in Bad : k <= j
    <3>1. Bad \in SUBSET Nat
      BY <1>0
    <3> HIDE DEF Bad
    <3> QED BY <3>1, LeastOf
  <2>0. k \in 1..n /\ f[k + 1] # x \o g[k]
    OBVIOUS
  <2>2. /\ k \in Nat /\ k + 1 \in 1..(n + 1) /\ k + 1 # 1 /\ (k + 1) - 1 = k
        /\ k # 1 => k - 1 \in 1..n /\ (k - 1) + 1 = k /\ ~(k <= k - 1)
    BY <1>0, <2>0, Before, Zenon
  <2>3. f[k + 1] = f[k] \o rest[k]
    <3>1. f[k + 1] = IF k + 1 = 1 THEN seqs[k + 1] ELSE f[(k + 1) - 1] \o seqs[k + 1]
      BY <1>1, <2>2, Zenon DEF Flat
    <3> QED BY <1>7, <2>0, <2>2, <3>1, Zenon
  <2>4. g[k] = IF k = 1 THEN rest[k] ELSE g[k - 1] \o rest[k]
    BY <1>2, <2>0, Zenon DEF Flat
  <2>5. CASE k = 1
    <3>1. f[1] = seqs[1]
      <4>1. 1 \in 1..(n + 1)
        BY <1>0
      <4>2. f[1] = IF 1 = 1 THEN seqs[1] ELSE f[1 - 1] \o seqs[1]
        BY <1>1, <4>1, Zenon DEF Flat
      <4> QED BY <4>2
    <3> QED BY <2>0, <2>3, <2>4, <2>5, <3>1, Zenon
  <2>6. CASE k # 1
    <3>1. k - 1 \in 1..n /\ k - 1 \notin Bad
      BY <2>1, <2>2, <2>6, Zenon
    <3>2. f[(k - 1) + 1] = x \o g[k - 1]
      BY <3>1, Zenon
    <3>3. g[k - 1] \in Seq(A) /\ rest[k] \in Seq(A)
      BY <1>7, <2>0, <3>1, Zenon
    <3>4. f[k] \o rest[k] = x \o g[k]
      <4>1. f[k] = x \o g[k - 1] /\ g[k] = g[k - 1] \o rest[k]
        BY <2>2, <2>4, <2>6, <3>2, Zenon
      <4>2. Joins(x, g[k - 1], rest[k])
        BY <3>3, JoinsIs, Zenon
      <4> QED BY <4>1, <4>2, Zenon DEF Joins
    <3> QED BY <2>0, <2>3, <3>4, Zenon
  <2> QED BY <2>5, <2>6
<1>4. n \in 1..n
  BY <1>0
<1>5. f[n + 1] = x \o g[n]
  BY <1>3, <1>4, Zenon
<1> QED BY <1>1, <1>2, <1>5, Zenon DEF n

\* What a process can make the server apply: the two ends are the server's own.
Wire == {ev \in AnEvent : ev.kind \notin {"claude_error", "claude_run_ended"}}

LEMMA ParsedWire ==
  ASSUME NEW line \in Line PROVE ParseLine(line) \in Seq(Wire)
<1> DEFINE evs == ParseLine(line)
<1>1. evs \in Seq(AnEvent)
  BY ParseLineIs
<1>2. ASSUME NEW i \in DOMAIN evs PROVE evs[i].kind \notin {"claude_error", "claude_run_ended"}
  <2>1. CASE line.type = "system"
    <3>1. line.subtype \in {"task_started", "task_notification", "task_updated", "hook_started",
                            "hook_response", "init"}
      BY <2>1 DEF Line
    <3>2. evs = SystemLine(line)
      BY <2>1 DEF ParseLine
    <3> HIDE DEF evs
    <3>3. i \in DOMAIN SystemLine(line) => SystemLine(line)[i].kind \notin {"claude_error", "claude_run_ended"}
      BY <3>1 DEF SystemLine, Event
    <3> QED BY <3>2, <3>3
  <2>2. CASE line.type = "stream_event"
    <3>1. line.event = "content_block_delta" => line.delta \in {"input_json_delta", "text_delta", "thinking_delta"}
      BY <2>2 DEF Line
    <3>2. evs = StreamEvent(line)
      BY <2>2 DEF ParseLine
    <3> HIDE DEF evs
    <3>3. i \in DOMAIN StreamEvent(line) => StreamEvent(line)[i].kind \notin {"claude_error", "claude_run_ended"}
      BY <3>1 DEF StreamEvent, Event, Unknown
    <3> QED BY <3>2, <3>3
  <2>3. CASE line.type = "assistant"
    BY <2>3 DEF ParseLine, AssistantToolInputs
  <2>4. CASE line.type = "user"
    BY <2>4 DEF ParseLine, UserToolResult
  <2>5. CASE line.type = "result"
    BY <2>5 DEF ParseLine
  <2>6. CASE line.type \in {"rate_limit_event", "unknown"}
    BY <2>6 DEF ParseLine, Unknown, Event
  <2>7. line.type \in {"system", "stream_event", "assistant", "user", "result", "rate_limit_event", "unknown"}
    BY DEF Line
  <2> QED BY <2>1, <2>2, <2>3, <2>4, <2>5, <2>6, <2>7
<1> HIDE DEF evs
<1>3. ASSUME NEW i \in DOMAIN evs PROVE evs[i] \in Wire
  <2>1. evs[i] \in AnEvent
    BY <1>1
  <2> QED BY <1>2, <2>1 DEF Wire
<1>4. evs \in Seq(Wire)
  <2>1. Len(evs) \in Nat /\ evs = [i \in 1..Len(evs) |-> evs[i]] /\ DOMAIN evs = 1..Len(evs)
    BY <1>1
  <2> QED BY <1>3, <2>1
<1> QED BY <1>4 DEF evs

LEMMA EventsIs ==
  ASSUME NEW lines \in Seq(Line)
  PROVE  /\ Events(lines) \in Seq(Wire)
         /\ lines = <<>> => Events(lines) = <<>>
         /\ lines # <<>> => Events(lines) = ParseLine(Head(lines)) \o Events(Tail(lines))
<1> DEFINE Parsed(ls) == [i \in DOMAIN ls |-> ParseLine(ls[i])]
<1>1. ASSUME NEW ls \in Seq(Line)
      PROVE  Parsed(ls) \in Seq(Seq(Wire)) /\ Len(Parsed(ls)) = Len(ls) /\ \A i \in 1..Len(ls) : Parsed(ls)[i] = ParseLine(ls[i])
  <2>1. DOMAIN ls = 1..Len(ls) /\ Len(ls) \in Nat
    OBVIOUS
  <2>2. \A i \in 1..Len(ls) : ParseLine(ls[i]) \in Seq(Wire)
    BY ParsedWire
  <2> QED BY <2>1, <2>2
<1>2. \A ls : Events(ls) = FlattenSeq(Parsed(ls))
  BY DEF Events
<1>3. ASSUME NEW ls \in Seq(Line), ls = <<>> PROVE Events(ls) = <<>>
  <2>1. Parsed(ls) = <<>>
    <3>1. Parsed(ls) \in Seq(Seq(Wire)) /\ Len(Parsed(ls)) = 0
      BY <1>1, <1>3
    <3> HIDE DEF Parsed
    <3> QED BY <3>1
  <2> HIDE DEF Parsed
  <2>2. FlattenSeq(<<>>) = <<>>
    BY DEF FlattenSeq
  <2> QED BY <1>2, <2>1, <2>2
<1>4. ASSUME NEW ls \in Seq(Line), ls # <<>> PROVE Events(ls) \in Seq(Wire)
  <2>1. Parsed(ls) \in Seq(Seq(Wire)) /\ Len(Parsed(ls)) \in Nat \ {0}
    BY <1>1, <1>4
  <2> HIDE DEF Parsed
  <2>2. PICK f \in [1..Len(Parsed(ls)) -> Seq(Wire)] : FlattenSeq(Parsed(ls)) = f[Len(Parsed(ls))]
    BY <2>1, FlattenIs
  <2>3. Len(Parsed(ls)) \in 1..Len(Parsed(ls))
    BY <2>1
  <2> QED BY <1>2, <2>2, <2>3
<1>5. ASSUME lines # <<>> PROVE Events(lines) = ParseLine(Head(lines)) \o Events(Tail(lines))
  <2> DEFINE rest == Tail(lines)
             x == ParseLine(Head(lines))
  <2>1. /\ rest \in Seq(Line) /\ Len(lines) = Len(rest) + 1 /\ Head(lines) = lines[1]
        /\ \A i \in 1..Len(rest) : lines[i + 1] = rest[i]
        /\ Head(lines) \in Line /\ 1 \in 1..Len(lines) /\ \A i \in 1..Len(rest) : i + 1 \in 1..Len(lines)
    BY <1>5
  <2>2. x \in Seq(Wire)
    BY <2>1, ParsedWire
  <2>3. Parsed(lines)[1] = x
    BY <1>1, <2>1
  <2> HIDE DEF rest, x
  <2>6. /\ Parsed(lines) \in Seq(Seq(Wire)) /\ Len(Parsed(lines)) = Len(lines)
        /\ Parsed(rest) \in Seq(Seq(Wire)) /\ Len(Parsed(rest)) = Len(rest)
    <3> HIDE DEF Parsed
    <3> QED BY <1>1, <2>1
  <2>7. Len(rest) \in Nat /\ (Len(rest) = 0 <=> rest = <<>>)
    BY <2>1
  <2>4. CASE rest = <<>>
    <3>1. Len(Parsed(lines)) = 1
      <4> HIDE DEF Parsed
      <4> QED BY <2>1, <2>4, <2>6, <2>7
    <3>2. FlattenSeq(Parsed(lines)) = x
      <4> HIDE DEF Parsed
      <4>0. Parsed(lines) \in Seq(Seq(Wire))
        BY <2>6
      <4>1. PICK f \in [1..1 -> Seq(Wire)] : Flat(f, Parsed(lines), 1) /\ FlattenSeq(Parsed(lines)) = f[1]
        <5>1. Len(Parsed(lines)) # 0
          BY <3>1
        <5> QED BY <3>1, <4>0, <5>1, FlattenIs
      <4>2. 1 \in 1..1
        OBVIOUS
      <4>3. f[1] = Parsed(lines)[1]
        BY <4>1, <4>2, Zenon DEF Flat
      <4> QED BY <2>3, <4>1, <4>3
    <3>3. Events(rest) = <<>>
      BY <1>3, <2>1, <2>4
    <3>4. x \o <<>> = x
      BY <2>2
    <3> QED BY <1>2, <3>2, <3>3, <3>4 DEF rest, x
  <2>5. CASE rest # <<>>
    <3> DEFINE whole == Parsed(lines)
               more == Parsed(rest)
    <3>1. /\ whole \in Seq(Seq(Wire)) /\ more \in Seq(Seq(Wire))
          /\ Len(whole) = Len(more) + 1 /\ Len(more) # 0
      <4> HIDE DEF Parsed
      <4> QED BY <2>1, <2>5, <2>6, <2>7
    <3>2. \A i \in 1..Len(more) : whole[i + 1] = more[i]
      <4>1. Len(more) = Len(rest)
        BY <1>1, <2>1
      <4> SUFFICES ASSUME NEW i \in 1..Len(rest) PROVE whole[i + 1] = more[i]
        BY <4>1
      <4>2. whole[i + 1] = ParseLine(lines[i + 1])
        BY <1>1, <2>1
      <4>3. more[i] = ParseLine(rest[i])
        BY <1>1, <2>1
      <4> QED BY <2>1, <4>2, <4>3
    <3>3. whole[1] = x
      BY <2>3
    <3> HIDE DEF whole, more
    <3>4. FlattenSeq(whole) = x \o FlattenSeq(more)
      BY <2>2, <3>1, <3>2, <3>3, FlattenCons
    <3> QED BY <1>2, <3>4 DEF whole, more, rest, x
  <2> QED BY <2>4, <2>5
<1>6. <<>> \in Seq(Wire)
  OBVIOUS
<1> QED BY <1>3, <1>4, <1>5, <1>6

-----------------------------------------------------------------------------
(* Letters *)

\* The letters of claude processes.
Post == [run : Runs, ev : Wire]

LEMMA LettersAre ==
  ASSUME NEW r \in Runs, NEW evs \in Seq(Wire)
  PROVE  /\ Letters(r, evs) \in Seq(Post) /\ Len(Letters(r, evs)) = Len(evs)
         /\ \A i \in 1..Len(evs) : Letters(r, evs)[i] = Envelope(r, evs[i])
<1>1. \A i \in 1..Len(evs) : Envelope(r, evs[i]) \in Post
  BY DEF Envelope, Post
<1>2. DOMAIN evs = 1..Len(evs) /\ Len(evs) \in Nat
  OBVIOUS
<1> QED BY <1>1, <1>2 DEF Letters

LEMMA LettersJoin ==
  ASSUME NEW r \in Runs, NEW a \in Seq(Wire), NEW b \in Seq(Wire)
  PROVE  Letters(r, a \o b) = Letters(r, a) \o Letters(r, b)
<1> DEFINE x == Letters(r, a)
           y == Letters(r, b)
           z == Letters(r, a \o b)
<1>1. a \o b \in Seq(Wire) /\ Len(a \o b) = Len(a) + Len(b)
  OBVIOUS
<1>2. /\ x \in Seq(Post) /\ Len(x) = Len(a) /\ \A i \in 1..Len(a) : x[i] = Envelope(r, a[i])
      /\ y \in Seq(Post) /\ Len(y) = Len(b) /\ \A i \in 1..Len(b) : y[i] = Envelope(r, b[i])
      /\ z \in Seq(Post) /\ Len(z) = Len(a \o b) /\ \A i \in 1..Len(a \o b) : z[i] = Envelope(r, (a \o b)[i])
  BY <1>1, LettersAre
<1> HIDE DEF x, y, z
<1>3. ASSUME NEW i \in 1..Len(z) PROVE z[i] = (x \o y)[i]
  <2>1. CASE i <= Len(a)
    BY <1>1, <1>2, <2>1
  <2>2. CASE ~(i <= Len(a))
    <3>1. i - Len(a) \in 1..Len(b) /\ (a \o b)[i] = b[i - Len(a)] /\ (x \o y)[i] = y[i - Len(a)]
      BY <1>1, <1>2, <2>2
    <3> QED BY <1>1, <1>2, <3>1
  <2> QED BY <2>1, <2>2
<1>4. x \o y \in Seq(Post) /\ Len(x \o y) = Len(z)
  BY <1>1, <1>2
<1>5. z = x \o y
  BY <1>2, <1>3, <1>4
<1> QED BY <1>5 DEF x, y, z

LEMMA CatIs ==
  ASSUME NEW S, NEW a \in Seq(S), NEW b \in Seq(S), NEW c, c = a \o b
  PROVE  /\ c \in Seq(S) /\ Len(c) = Len(a) + Len(b)
         /\ \A i \in 1..Len(a) : c[i] = a[i]
         /\ \A i \in 1..Len(b) : c[Len(a) + i] = b[i]
         /\ Len(a) \in Nat /\ Len(b) \in Nat
OBVIOUS

LEMMA SeqsEqual ==
  ASSUME NEW S, NEW c \in Seq(S), NEW d \in Seq(S), Len(c) = Len(d), \A i \in 1..Len(c) : c[i] = d[i]
  PROVE  c = d
OBVIOUS

\* Two sequences are equal if they are up to n and from there on.
LEMMA HalvesEqual ==
  ASSUME NEW S, NEW c \in Seq(S), NEW d \in Seq(S), Len(c) = Len(d), NEW n \in Nat, NEW m \in Nat, Len(c) = n + m,
         \A i \in 1..n : c[i] = d[i], \A i \in 1..m : c[n + i] = d[n + i]
  PROVE  c = d
<1>1. ASSUME NEW i \in 1..Len(c) PROVE c[i] = d[i]
  <2>1. CASE i <= n
    BY <2>1
  <2>2. CASE ~(i <= n)
    <3>1. i - n \in 1..m /\ n + (i - n) = i
      BY <2>2
    <3> QED BY <3>1
  <2> QED BY <2>1, <2>2
<1> QED BY <1>1, SeqsEqual, Zenon

\* The first of p moves to the end of q.
LEMMA Moved ==
  ASSUME NEW S, NEW a \in Seq(S), NEW p \in Seq(S), p # <<>>
  PROVE  Append(a, Head(p)) \in Seq(S) /\ Tail(p) \in Seq(S) /\ Append(a, Head(p)) \o Tail(p) = a \o p
<1>1. Head(p) \in S /\ Tail(p) \in Seq(S) /\ Len(Tail(p)) = Len(p) - 1 /\ Len(p) \in Nat \ {0}
      /\ p[1] = Head(p) /\ \A i \in 1..(Len(p) - 1) : Tail(p)[i] = p[i + 1]
  OBVIOUS
<1> DEFINE b == Append(a, Head(p))
           t == Tail(p)
           c == a \o p
           d == b \o t
           n == Len(a)
           m == Len(p)
<1>2. /\ b \in Seq(S) /\ Len(b) = n + 1 /\ b[n + 1] = p[1] /\ \A i \in 1..n : b[i] = a[i]
      /\ n \in Nat
  BY <1>1
<1>3. /\ t \in Seq(S) /\ Len(t) = m - 1 /\ \A i \in 1..(m - 1) : t[i] = p[i + 1]
      /\ m \in Nat \ {0}
  BY <1>1
<1>4. c \in Seq(S) /\ Len(c) = n + m /\ (\A i \in 1..n : c[i] = a[i]) /\ \A i \in 1..m : c[n + i] = p[i]
  BY CatIs
<1>5. d \in Seq(S) /\ Len(d) = Len(b) + Len(t) /\ (\A i \in 1..Len(b) : d[i] = b[i])
      /\ \A i \in 1..Len(t) : d[Len(b) + i] = t[i]
  <2>1. b \in Seq(S) /\ t \in Seq(S)
    BY <1>2, <1>3
  <2> HIDE DEF b, t
  <2> QED BY <2>1, CatIs
<1> HIDE DEF b, t, c, d, n, m
<1>6. ASSUME NEW i \in 1..n PROVE c[i] = d[i]
  <2>1. i \in 1..Len(b)
    BY <1>2
  <2> QED BY <1>2, <1>4, <1>5, <2>1, Zenon
<1>7. ASSUME NEW i \in 1..m PROVE c[n + i] = d[n + i]
  <2>1. c[n + i] = p[i]
    BY <1>4
  <2>2. CASE i = 1
    <3>1. n + 1 \in 1..Len(b)
      BY <1>2
    <3>2. d[n + 1] = p[1]
      BY <1>2, <1>5, <3>1, Zenon
    <3> QED BY <2>1, <2>2, <3>2, Zenon
  <2>3. CASE i # 1
    <3>1. i - 1 \in 1..Len(t) /\ i - 1 \in 1..(m - 1) /\ Len(b) + (i - 1) = n + i /\ (i - 1) + 1 = i
      BY <1>2, <1>3, <2>3
    <3>2. d[Len(b) + (i - 1)] = t[i - 1] /\ t[i - 1] = p[(i - 1) + 1]
      BY <1>3, <1>5, <3>1, Zenon
    <3> QED BY <2>1, <3>1, <3>2, Zenon
  <2> QED BY <2>2, <2>3
<1>8. Len(c) = Len(d)
  BY <1>2, <1>3, <1>4, <1>5
<1>10. m \in Nat
  BY <1>3
<1>9. c = d
  BY <1>2, <1>4, <1>5, <1>6, <1>7, <1>8, <1>10, HalvesEqual, Zenon
<1> QED BY <1>2, <1>3, <1>9 DEF b, t, c, d

\* An event goes from the pipe to the queue.
\* The first of p is appended to q.
MovesOn(h, q, p) == (h \o Append(q, Head(p))) \o Tail(p) = (h \o q) \o p

LEMMA MovedOn ==
  ASSUME NEW S, NEW h \in Seq(S), NEW q \in Seq(S), NEW p \in Seq(S), p # <<>>
  PROVE  MovesOn(h, q, p)
<1>1. Append(q, Head(p)) \in Seq(S) /\ Tail(p) \in Seq(S) /\ Append(q, Head(p)) \o Tail(p) = q \o p
  BY Moved
<1>2. Joins(h, Append(q, Head(p)), Tail(p)) /\ Joins(h, q, p)
  BY <1>1, JoinsIs, Zenon
<1> QED BY <1>1, <1>2, Zenon DEF Joins, MovesOn

\* A beginning is a prefix.
LEMMA BeginningIs ==
  ASSUME NEW S, NEW h \in Seq(S), NEW rest \in Seq(S) PROVE IsPrefix(h, h \o rest)
<1>1. Len(h) <= Len(h \o rest) /\ Len(h) \in Nat
  OBVIOUS
<1>2. SubSeq(h, 1, Len(h)) = h /\ SubSeq(h \o rest, 1, Len(h)) = h
  OBVIOUS
<1> QED BY <1>1, <1>2 DEF IsPrefix

\* A sequence and what was cut off.
LEMMA CutIs ==
  ASSUME NEW S, NEW p \in Seq(S), NEW n \in 0..Len(p)
  PROVE  /\ SubSeq(p, 1, n) \in Seq(S) /\ SubSeq(p, n + 1, Len(p)) \in Seq(S)
         /\ p = SubSeq(p, 1, n) \o SubSeq(p, n + 1, Len(p))
<1> DEFINE a == SubSeq(p, 1, n)
           b == SubSeq(p, n + 1, Len(p))
           m == Len(p) - n
           c == a \o b
<1>1. a \in Seq(S) /\ Len(a) = n /\ \A i \in 1..n : a[i] = p[i]
  OBVIOUS
<1>2. b \in Seq(S) /\ Len(b) = m /\ \A i \in 1..m : b[i] = p[n + i]
  OBVIOUS
<1>3. n \in Nat /\ m \in Nat /\ Len(p) = n + m
  OBVIOUS
<1> HIDE DEF a, b, m
<1>4. /\ c \in Seq(S) /\ Len(c) = Len(a) + Len(b)
      /\ (\A i \in 1..Len(a) : c[i] = a[i]) /\ \A i \in 1..Len(b) : c[Len(a) + i] = b[i]
  <2>1. a \in Seq(S) /\ b \in Seq(S)
    BY <1>1, <1>2
  <2> QED BY <2>1, CatIs
<1> HIDE DEF c
<1>6. (\A i \in 1..n : p[i] = c[i]) /\ (\A i \in 1..m : p[n + i] = c[n + i]) /\ Len(p) = Len(c)
  BY <1>1, <1>2, <1>3, <1>4
<1>5. p = c
  BY <1>3, <1>4, <1>6, HalvesEqual, Zenon
<1> QED BY <1>1, <1>2, <1>5 DEF a, b, c

-----------------------------------------------------------------------------
(* What leaves a turn open *)

LEMMA OpenStays ==
  ASSUME NEW s, Good(s), NEW ev \in Wire, ev.kind # "result" PROVE Open(Apply(s, ev)) = Open(s)
<1>1. Good(Apply(s, ev))
  BY ApplyKept DEF Keeps, Wire
<1>2. s = Fields(s)
  BY DEF Good, IsState, Fields
<1>3. \A u : u = Fields(u) =>
        /\ \A ts : [u EXCEPT !.turns = ts].inFlight = u.inFlight /\ [u EXCEPT !.turns = ts] = Fields([u EXCEPT !.turns = ts])
        /\ \A x : [u EXCEPT !.index = x].inFlight = u.inFlight
        /\ \A x : [u EXCEPT !.tasks = x].inFlight = u.inFlight /\ [u EXCEPT !.tasks = x] = Fields([u EXCEPT !.tasks = x])
        /\ \A x : [u EXCEPT !.lastError = x].inFlight = u.inFlight
        /\ \A x : [u EXCEPT !.subagents = x].inFlight = u.inFlight
  BY DEF Fields
<1>4. \A turn : WithLast(s, turn) = Fields(WithLast(s, turn)) /\ WithLast(s, turn).inFlight = s.inFlight
  BY <1>2, <1>3 DEF WithLast
<1>5. \A u, id, field, value : u = Fields(u) => MarkTools(u, id, field, value).inFlight = u.inFlight
  BY <1>3 DEF MarkTools
<1>6. \A turn, x : [WithLast(s, turn) EXCEPT !.index = x].inFlight = s.inFlight
  BY <1>3, <1>4
<1>22. ASSUME NEW x, NEW u,
              u \in {s, [s EXCEPT !.turns = x], [s EXCEPT !.tasks = x], [s EXCEPT !.subagents = x],
                     [s EXCEPT !.lastError = x]}
       PROVE  u.inFlight = s.inFlight
  <2>1. /\ [s EXCEPT !.turns = x].inFlight = s.inFlight /\ [s EXCEPT !.tasks = x].inFlight = s.inFlight
        /\ [s EXCEPT !.subagents = x].inFlight = s.inFlight /\ [s EXCEPT !.lastError = x].inFlight = s.inFlight
    BY <1>2, <1>3, Zenon
  <2> QED BY <1>22, <2>1, Zenon
<1>7. ASSUME Apply(s, ev).inFlight = s.inFlight PROVE Open(Apply(s, ev)) = Open(s)
  BY <1>1, <1>7, Zenon DEF Good
<1> SUFFICES Apply(s, ev).inFlight = s.inFlight
  BY <1>7
<1>8. CASE ev.kind = "message_start"
  <2>1. MessageStart(s).inFlight = s.inFlight
    BY <1>2, <1>3 DEF MessageStart
  <2> QED BY <1>8, <2>1 DEF Apply
<1>9. CASE ev.kind = "text_delta"
  <2> DEFINE turn == LastTurn(s)
             idx  == IndexFor(s)
             known  == ev.index \in DOMAIN idx.blocks /\ turn.blocks[idx.blocks[ev.index]].kind = "text"
             blocks == IF known THEN turn.blocks ELSE Append(turn.blocks, TextBlock(<<>>))
             pos    == IF known THEN idx.blocks[ev.index] ELSE Len(blocks)
             next   == [turn EXCEPT !.blocks = [blocks EXCEPT ![pos].text = Append(@, ev.text)]]
             at     == [idx EXCEPT !.blocks = SetAt(@, ev.index, pos)]
  <2>1. TextDelta(s, ev) = IF ~Open(s) THEN s ELSE [WithLast(s, next) EXCEPT !.index = at]
    BY Zenon DEF TextDelta
  <2> HIDE DEF next, at
  <2>2. TextDelta(s, ev).inFlight = s.inFlight
    BY <1>6, <2>1, Zenon
  <2> QED BY <1>9, <2>2 DEF Apply
<1>10. CASE ev.kind = "thinking_delta"
  <2> DEFINE turn == LastTurn(s)
             idx  == IndexFor(s)
             known == ev.index \in DOMAIN idx.thinking
             thoughts == IF known THEN turn.thinking ELSE Append(turn.thinking, <<>>)
             pos   == IF known THEN idx.thinking[ev.index] ELSE Len(thoughts)
             next  == [turn EXCEPT !.thinking = [thoughts EXCEPT ![pos] = Append(@, ev.text)]]
             at    == [idx EXCEPT !.thinking = SetAt(@, ev.index, pos)]
  <2>1. ThinkingDelta(s, ev) = IF ~Open(s) THEN s ELSE [WithLast(s, next) EXCEPT !.index = at]
    BY Zenon DEF ThinkingDelta
  <2> HIDE DEF next, at
  <2>2. ThinkingDelta(s, ev).inFlight = s.inFlight
    BY <1>6, <2>1, Zenon
  <2> QED BY <1>10, <2>2 DEF Apply
<1>11. CASE ev.kind = "tool_use_start"
  <2> DEFINE turn == LastTurn(s)
             idx  == IndexFor(s)
             next == [turn EXCEPT !.blocks = Append(@, ToolBlock(ev.id))]
             at   == [idx EXCEPT !.blocks = SetAt(@, ev.index, Len(turn.blocks) + 1)]
  <2>1. ToolUseStart(s, ev) = IF ~Open(s) \/ ev.id = "" THEN s ELSE [WithLast(s, next) EXCEPT !.index = at]
    BY Zenon DEF ToolUseStart
  <2> HIDE DEF next, at
  <2>2. ToolUseStart(s, ev).inFlight = s.inFlight
    BY <1>6, <2>1, Zenon
  <2> QED BY <1>11, <2>2 DEF Apply
<1>12. CASE ev.kind = "tool_use_end"
  <2> DEFINE ts == [s.turns EXCEPT ![Len(s.turns)].blocks[FirstOf(ToolsAt(LastTurn(s), ev.id))].input = ev.input]
  <2>1. ToolUseEnd(s, ev) = s \/ ToolUseEnd(s, ev) = [s EXCEPT !.turns = ts]
    BY DEF ToolUseEnd
  <2> HIDE DEF ts
  <2>2. ToolUseEnd(s, ev).inFlight = s.inFlight
    BY <1>22, <2>1, Zenon
  <2> QED BY <1>12, <2>2 DEF Apply
<1>13. CASE ev.kind = "tool_result"
  <2> DEFINE ts == [s.turns EXCEPT ![Len(s.turns)].blocks[FirstOf(ToolsAt(LastTurn(s), ev.id))] =
                      [SetToolOutcome(@, OutcomeForError(ev.isError)) EXCEPT !.result = ev.content]]
  <2>1. \/ ToolResult(s, ev) = s \/ ToolResult(s, ev) = [s EXCEPT !.turns = ts]
        \/ ToolResult(s, ev) = [s EXCEPT !.lastError = "tool_result_unmatched"]
    BY DEF ToolResult
  <2> HIDE DEF ts
  <2>2. ToolResult(s, ev).inFlight = s.inFlight
    BY <1>22, <2>1, Zenon
  <2> QED BY <1>13, <2>2 DEF Apply
<1>14. CASE ev.kind = "message_delta"
  <2> DEFINE ts == [s.turns EXCEPT ![Len(s.turns)].usage = ev.usage]
  <2>1. MessageDelta(s, ev) = s \/ MessageDelta(s, ev) = [s EXCEPT !.turns = ts]
    BY DEF MessageDelta
  <2> HIDE DEF ts
  <2>2. MessageDelta(s, ev).inFlight = s.inFlight
    BY <1>22, <2>1, Zenon
  <2> QED BY <1>14, <2>2 DEF Apply
<1>15. CASE ev.kind = "task_started"
  <2> DEFINE ks == SetAt(s.tasks, ev.task, [status |-> "in_progress", finished |-> FALSE, notes |-> 0])
             w == [s EXCEPT !.tasks = ks]
  <2>1. TaskStarted(s, ev) = s \/ TaskStarted(s, ev) = MarkTools(w, ev.tool, "task", ev.task)
    BY DEF TaskStarted
  <2> HIDE DEF ks
  <2>2. w = Fields(w) /\ w.inFlight = s.inFlight
    BY <1>2, <1>3
  <2> HIDE DEF w
  <2>3. TaskStarted(s, ev).inFlight = s.inFlight
    BY <1>5, <2>1, <2>2
  <2> QED BY <1>15, <2>3 DEF Apply
<1>16. CASE ev.kind \in {"task_notification", "task_updated"}
  <2>3. CASE ev.kind = "task_notification"
    <3> DEFINE noted == [s.tasks[ev.task] EXCEPT !.notes = @ + 1]
               x == [s.tasks EXCEPT ![ev.task] =
                       IF ev.status = "completed" THEN [noted EXCEPT !.status = "completed", !.finished = TRUE]
                       ELSE noted]
    <3>1. TaskNotification(s, ev) = s \/ TaskNotification(s, ev) = [s EXCEPT !.tasks = x]
      BY DEF TaskNotification
    <3> HIDE DEF x
    <3>2. TaskNotification(s, ev).inFlight = s.inFlight
      BY <1>22, <3>1, Zenon
    <3> QED BY <2>3, <3>2 DEF Apply
  <2>4. CASE ev.kind = "task_updated"
    <3> DEFINE x == [s.tasks EXCEPT ![ev.task] = [@ EXCEPT !.status = ev.status, !.finished = TRUE]]
    <3>1. TaskUpdated(s, ev) = s \/ TaskUpdated(s, ev) = [s EXCEPT !.tasks = x]
      BY DEF TaskUpdated
    <3> HIDE DEF x
    <3>2. TaskUpdated(s, ev).inFlight = s.inFlight
      BY <1>22, <3>1, Zenon
    <3> QED BY <2>4, <3>2 DEF Apply
  <2> QED BY <1>16, <2>3, <2>4
<1>17. CASE ev.kind = "hook_started"
  <2> DEFINE x == Append(SelectSeq(s.subagents, LAMBDA a : a.id # ev.id), [id |-> ev.id, finished |-> FALSE])
  <2>1. HookStarted(s, ev) = s \/ HookStarted(s, ev) = [s EXCEPT !.subagents = x]
    BY Zenon DEF HookStarted
  <2> HIDE DEF x
  <2>2. HookStarted(s, ev).inFlight = s.inFlight
    BY <1>22, <2>1, Zenon
  <2> QED BY <1>17, <2>2 DEF Apply
<1>18. CASE ev.kind = "hook_response"
  <2> DEFINE x == [s.subagents EXCEPT ![FirstOf({i \in DOMAIN s.subagents : ~s.subagents[i].finished})].finished = TRUE]
  <2>1. HookResponse(s, ev) = s \/ HookResponse(s, ev) = [s EXCEPT !.subagents = x]
    BY DEF HookResponse
  <2> HIDE DEF x
  <2>2. HookResponse(s, ev).inFlight = s.inFlight
    BY <1>22, <2>1, Zenon
  <2> QED BY <1>18, <2>2 DEF Apply
<1>19. CASE ev.kind = "tool_decision"
  BY <1>2, <1>5, <1>19 DEF Apply, ToolDecision
<1>20. CASE ev.kind \notin Kinds
  BY <1>20 DEF Apply, Kinds
<1>21. ev.kind \notin {"result", "claude_error", "claude_run_ended"}
  BY DEF Wire
<1> QED BY <1>8, <1>9, <1>10, <1>11, <1>12, <1>13, <1>14, <1>15, <1>16, <1>17, <1>18, <1>19, <1>20, <1>21 DEF Kinds

-----------------------------------------------------------------------------
(* The way of an event *)

\* The place of each run, and whose the letters are.
Places ==
  /\ queue \in [Tabs -> Seq(Post)] /\ pipe \in [Runs -> Seq(Wire)] /\ script \in [Runs -> Seq(Line)]
  /\ heard \in Seq(Post)
  /\ \A t \in Tabs : \A i \in DOMAIN queue[t] : tab[queue[t][i].run] = t
  /\ \A q \in Runs :
       /\ reap[q] = "off" => proc[q] = "new" /\ fwd[q] = "off"
       /\ proc[q] = "new" => pipe[q] = <<>> /\ script[q] = <<>> /\ fwd[q] = "off"
       /\ proc[q] = "live" => reap[q] = "wait"
       /\ fwd[q] \in {"read", "free"} => reap[q] = "wait"

LastRun == LastTurn(state).id

\* Only the run of the last turn may still be heard of.
Others == ~mixed => \A q \in Runs : tab[q] # None => state.turns # <<>> /\ (q = LastRun \/ Over(q))

All(r) == Letters(r, Events(script[r]))

\* What was heard, what waits in the queue and what is in the pipe follow one another,
\* and then comes what the process has still to print.
Upto(r, rest) == All(r) = ((heard \o queue[tab[r]]) \o Letters(r, pipe[r])) \o rest

Path(r) ==
  /\ \E rest \in Seq(Post) : All(r) = heard \o rest
  /\ conn[tab[r]] # "gone" => \E rest \in Seq(Post) :
       /\ Upto(r, rest)
       /\ proc[r] = "live" /\ r \notin cancelled => rest = Letters(r, Events(left[r]))

Hears == ~mixed /\ state.turns # <<>> => Path(LastRun)

Concludes ==
  ~mixed /\ state.turns # <<>> /\ LastTurn(state).outcome # "open" /\ LastTurn(state).reason = "none" =>
    \E i \in DOMAIN heard : heard[i].ev.kind = "result"

HearInv == Places /\ Others /\ Hears /\ Concludes

LEMMA TailIs ==
  ASSUME NEW S, NEW s \in Seq(S), s # <<>>, NEW i \in DOMAIN Tail(s)
  PROVE  i + 1 \in DOMAIN s /\ Tail(s)[i] = s[i + 1]
OBVIOUS

LEMMA LensEqual ==
  ASSUME NEW S, NEW a \in Seq(S), NEW b \in Seq(S), DOMAIN a = DOMAIN b PROVE Len(a) = Len(b)
<1>1. DOMAIN a = 1..Len(a) /\ DOMAIN b = 1..Len(b) /\ Len(a) \in Nat /\ Len(b) \in Nat
  OBVIOUS
<1>2. ASSUME NEW m \in Nat, NEW n \in Nat, 1..m = 1..n PROVE m = n
  BY <1>2
<1> QED BY <1>1, <1>2

\* A run that was started belongs to a tab.
LEMMA LastStarted ==
  ASSUME Inv, state.turns # <<>>
  PROVE  LastRun \in Runs /\ tab[LastRun] \in Tabs /\ LastTurn(state) \in Turn /\ LastTurn(state) = state.turns[Len(state.turns)]
         /\ Len(state.turns) \in DOMAIN state.turns
<1>1. IsState(state)
  BY DEF Inv, Turns, Good
<1>2. Len(state.turns) \in DOMAIN state.turns /\ LastTurn(state) = state.turns[Len(state.turns)]
      /\ LastTurn(state) \in Turn
  BY <1>1, LastIs DEF LastTurn
<1>3. LastRun \in Runs /\ tab[LastRun] # None
  BY <1>2 DEF Inv, Turns, LastRun
<1> QED BY <1>2, <1>3 DEF Inv, Types

\* Every step but a prompt goes on with the same last turn.
LEMMA LastStays ==
  ASSUME Inv, [Next]_vars, ~(\E t \in Tabs : Prompt(t))
  PROVE  /\ (state'.turns = <<>>) = (state.turns = <<>>)
         /\ state.turns # <<>> =>
              /\ LastRun' = LastRun
              /\ LastTurn(state).outcome # "open" => Same(LastTurn(state), LastTurn(state'))
<1>1. Keeps(state, state') /\ IsState(state)
  BY StateKept DEF Inv, Turns, Good
<1>2. IsState(state') /\ DOMAIN state'.turns = DOMAIN state.turns
  BY <1>1 DEF Keeps, Good
<1> DEFINE ts == state.turns
           us == state'.turns
<1>3. ts \in Seq(Turn) /\ us \in Seq(Turn) /\ DOMAIN us = DOMAIN ts
  BY <1>1, <1>2 DEF IsState
<1>4. \A i \in DOMAIN ts : us[i].id = ts[i].id /\ (ts[i].outcome # "open" => Same(ts[i], us[i]))
  BY <1>1 DEF Keeps
<1>5. LastTurn(state) = ts[Len(ts)] /\ LastTurn(state') = us[Len(us)]
  BY DEF LastTurn
<1>6. (us = <<>>) = (ts = <<>>) /\ Len(us) = Len(ts) /\ (ts # <<>> => Len(ts) \in DOMAIN ts)
  <2> HIDE DEF ts, us
  <2>1. DOMAIN us = 1..Len(us) /\ DOMAIN ts = 1..Len(ts) /\ Len(us) \in Nat /\ Len(ts) \in Nat
    BY <1>3
  <2>2. Len(us) = Len(ts)
    BY <1>3, LensEqual, Zenon
  <2> QED BY <1>3, <2>1, <2>2
<1>7. LastRun' = us[Len(us)].id /\ LastRun = ts[Len(ts)].id
  BY <1>5 DEF LastRun
<1> QED BY <1>4, <1>5, <1>6, <1>7

\* A prompt opens the turn of its run, ...
LEMMA LastBegun ==
  ASSUME Inv, NEW t \in Tabs, Prompt(t)
  PROVE  state'.turns # <<>> /\ LastRun' = NextRun /\ LastTurn(state').outcome = "open"
<1> DEFINE ts == state.turns
           turn == NewTurn(NextRun)
<1>1. ts \in Seq(Turn) /\ state = Fields(state)
  BY DEF Inv, Turns, Good, IsState, Fields
<1>2. state'.turns = Append(ts, turn)
  BY <1>1 DEF Prompt, BeginTurn, Fields
<1>3. turn.id = NextRun /\ turn.outcome = "open"
  BY DEF NewTurn
<1> HIDE DEF ts, turn
<1>4. Append(ts, turn) # <<>> /\ Append(ts, turn)[Len(Append(ts, turn))] = turn
  BY <1>1
<1>5. LastTurn(state') = turn
  BY <1>2, <1>4 DEF LastTurn
<1> QED BY <1>2, <1>3, <1>4, <1>5 DEF LastRun

\* ... and nothing else mixes.
LEMMA MixedStays ==
  ASSUME [Next]_vars, ~(\E t \in Tabs : Prompt(t)) PROVE mixed' = mixed
BY DEF Next, vars, tabVars, runVars, histVars, CloseSession, RunStep, LoopStep, Emit, Exit, Forward, Quit,
       EndOfEvents, FreeSlot, Reap, Report, Spawn, SpawnFails, Deliver, Closed, EndTaken, Connect,
       ExitClaude, EnterClaude, Disconnect

\* A run of which nothing will be heard stays so.
LEMMA OverStays ==
  ASSUME Inv, Places, [Next]_vars, NEW q \in Runs, Over(q) PROVE Over(q)'
<1> USE DEF tabVars, runVars, histVars
<1>0. Types /\ Owned
  BY DEF Inv
<1>1. reap[q] = "done" /\ \A t \in Tabs : \A i \in DOMAIN queue[t] : queue[t][i].run # q
  BY DEF Over
<1>2. ASSUME reap' = reap, NEW t \in Tabs, queue' = [queue EXCEPT ![t] = Tail(queue[t])], queue[t] # <<>>
      PROVE  Over(q)'
  <2> SUFFICES ASSUME NEW u \in Tabs, NEW i \in DOMAIN queue'[u] PROVE queue'[u][i].run # q
    BY <1>1, <1>2 DEF Over
  <2>1. CASE u = t
    <3>1. queue[t] \in Seq(Post) /\ queue'[u] = Tail(queue[t])
      BY <1>2, <2>1 DEF Places
    <3>2. i + 1 \in DOMAIN queue[t] /\ Tail(queue[t])[i] = queue[t][i + 1]
      <4>1. i \in DOMAIN Tail(queue[t])
        BY <3>1
      <4> QED BY <1>2, <3>1, <4>1, TailIs, Zenon
    <3> QED BY <1>1, <3>1, <3>2
  <2>2. CASE u # t
    BY <1>1, <1>2, <2>2 DEF Places
  <2> QED BY <2>1, <2>2
<1>3. ASSUME queue' = queue, reap'[q] = reap[q] PROVE Over(q)'
  BY <1>1, <1>3 DEF Over
<1>4. CASE CloseSession \/ UNCHANGED vars
  BY <1>3, <1>4 DEF CloseSession, vars
<1>5. ASSUME NEW r \in Runs, RunStep(r) PROVE Over(q)'
  <2>1. CASE Forward(r)
    <3>1. r # q /\ reap' = reap /\ fwd[r] = "read"
      BY <1>1, <2>1 DEF Forward, Places
    <3>2. tab[r] \in Tabs
      BY <1>0, <3>1 DEF Types, Owned
    <3>3. queue' = [queue EXCEPT ![tab[r]] = Append(@, Envelope(r, Head(pipe[r])))]
      BY <2>1 DEF Forward
    <3> SUFFICES ASSUME NEW u \in Tabs, NEW i \in DOMAIN queue'[u] PROVE queue'[u][i].run # q
      BY <1>1, <3>1 DEF Over
    <3>4. CASE u = tab[r]
      <4> DEFINE e == Envelope(r, Head(pipe[r]))
                 old == queue[u]
      <4>1. old \in Seq(Post) /\ queue'[u] = Append(old, e)
        BY <3>3, <3>4 DEF Places
      <4>2. e.run = r
        BY DEF Envelope
      <4>4. \A j \in DOMAIN old : old[j].run # q
        BY <1>1
      <4> HIDE DEF e, old
      <4>3. i \in 1..(Len(old) + 1) /\ DOMAIN old = 1..Len(old) /\ Len(old) \in Nat
            /\ Append(old, e)[i] = IF i = Len(old) + 1 THEN e ELSE old[i]
        BY <4>1
      <4> QED BY <3>1, <4>1, <4>2, <4>3, <4>4
    <3>5. CASE u # tab[r]
      BY <1>1, <3>3, <3>5 DEF Places
    <3> QED BY <3>4, <3>5
  <2>2. CASE Reap(r)
    <3>1. r # q /\ reap' = [reap EXCEPT ![r] = IF slot[tab[r]] = None THEN "done" ELSE "report"] /\ queue' = queue
      BY <1>1, <2>2 DEF Reap
    <3>2. reap'[q] = reap[q]
      BY <1>0, <3>1 DEF Types
    <3> QED BY <1>3, <3>1, <3>2
  <2>3. CASE Report(r)
    <3>1. r # q /\ reap' = [reap EXCEPT ![r] = "done"] /\ queue' = queue
      BY <1>1, <2>3 DEF Report
    <3>2. reap'[q] = reap[q]
      BY <1>0, <3>1 DEF Types
    <3> QED BY <1>3, <3>1, <3>2
  <2>4. CASE Emit(r) \/ Exit(r) \/ Quit(r) \/ EndOfEvents(r) \/ FreeSlot(r)
    <3>1. queue' = queue /\ reap' = reap
      BY <2>4 DEF Emit, Exit, Quit, EndOfEvents, FreeSlot
    <3> QED BY <1>3, <3>1
  <2> QED BY <1>5, <2>1, <2>2, <2>3, <2>4 DEF RunStep
<1>6. ASSUME NEW t \in Tabs, Connect(t) \/ Prompt(t) \/ ExitClaude(t) \/ EnterClaude(t) \/ Disconnect(t) \/ LoopStep(t)
      PROVE  Over(q)'
  <2>1. CASE Spawn(t) \/ SpawnFails(t)
    <3>1. loop[t].run # q /\ loop[t].run \in Runs /\ queue' = queue
      BY <1>0, <1>1, <2>1 DEF Spawn, SpawnFails, Owned
    <3>2. reap'[q] = reap[q]
      BY <1>0, <2>1, <3>1 DEF Spawn, SpawnFails, Types
    <3> QED BY <1>3, <3>1, <3>2
  <2>2. CASE Deliver(t)
    BY <1>2, <2>2 DEF Deliver
  <2>3. CASE Disconnect(t)
    <3>1. queue' = [queue EXCEPT ![t] = <<>>] /\ reap' = reap
      BY <2>3 DEF Disconnect
    <3> SUFFICES ASSUME NEW u \in Tabs, NEW i \in DOMAIN queue'[u] PROVE queue'[u][i].run # q
      BY <1>1, <3>1 DEF Over
    <3>2. u # t
      BY <3>1 DEF Places
    <3> QED BY <1>1, <3>1, <3>2 DEF Places
  <2>4. CASE Connect(t) \/ Prompt(t) \/ ExitClaude(t) \/ EnterClaude(t) \/ Closed(t) \/ EndTaken(t)
    <3>1. queue' = queue /\ reap' = reap
      BY <2>4 DEF Connect, Prompt, ExitClaude, EnterClaude, Closed, EndTaken
    <3> QED BY <1>3, <3>1
  <2> QED BY <1>6, <2>1, <2>2, <2>3, <2>4 DEF LoopStep
<1> QED BY <1>4, <1>5, <1>6 DEF Next

-----------------------------------------------------------------------------
(* The places *)

LEMMA TabPlaces ==
  ASSUME Inv, Places, NEW t \in Tabs,
         Connect(t) \/ Prompt(t) \/ ExitClaude(t) \/ EnterClaude(t) \/ Disconnect(t) \/ LoopStep(t)
  PROVE  Places'
<1> USE DEF tabVars, runVars, histVars
<1>0. Types /\ Owned
  BY DEF Inv
<1>1. CASE Prompt(t)
  <2>1. NextRun \in Runs /\ tab[NextRun] = None
    BY <1>1, NextRunIs DEF Prompt, Admits
  <2>2. /\ tab' = [tab EXCEPT ![NextRun] = t] /\ heard' = <<>>
        /\ UNCHANGED <<queue, pipe, script, reap, proc, fwd>>
    BY <1>1 DEF Prompt
  <2>3. \A u \in Tabs : \A i \in DOMAIN queue'[u] : tab'[queue'[u][i].run] = u
    <3> SUFFICES ASSUME NEW u \in Tabs, NEW i \in DOMAIN queue[u] PROVE tab'[queue[u][i].run] = u
      BY <2>2
    <3>1. queue[u] \in Seq(Post)
      BY DEF Places
    <3>2. queue[u][i] \in Post
      BY <3>1
    <3>3. queue[u][i].run \in Runs
      BY <3>2 DEF Post
    <3>4. tab[queue[u][i].run] = u /\ u # None
      BY RunsAssumption DEF Places
    <3> QED BY <1>0, <2>1, <2>2, <3>3, <3>4 DEF Types
  <2>4. <<>> \in Seq(Post)
    OBVIOUS
  <2> QED BY <2>2, <2>3, <2>4 DEF Places
<1>2. CASE Disconnect(t)
  <2>1. /\ queue' = [queue EXCEPT ![t] = <<>>]
        /\ UNCHANGED <<tab, heard, pipe, script, reap, proc, fwd>>
    BY <1>2 DEF Disconnect
  <2>2. queue' \in [Tabs -> Seq(Post)]
    BY <2>1 DEF Places
  <2>3. \A u \in Tabs : \A i \in DOMAIN queue'[u] : tab[queue'[u][i].run] = u
    <3> SUFFICES ASSUME NEW u \in Tabs, NEW i \in DOMAIN queue'[u] PROVE tab[queue'[u][i].run] = u
      OBVIOUS
    <3>1. u # t /\ queue'[u] = queue[u]
      BY <2>1 DEF Places
    <3> QED BY <3>1 DEF Places
  <2> QED BY <2>1, <2>2, <2>3 DEF Places
<1>3. CASE Deliver(t)
  <2>1. /\ queue' = [queue EXCEPT ![t] = Tail(@)] /\ queue[t] # <<>>
        /\ heard' = IF mixed THEN heard ELSE Append(heard, Head(queue[t]))
        /\ UNCHANGED <<tab, pipe, script, reap, proc, fwd>>
    BY <1>3 DEF Deliver
  <2>2. queue[t] \in Seq(Post) /\ queue'[t] = Tail(queue[t])
    BY <2>1 DEF Places
  <2>3. Head(queue[t]) \in Post /\ Tail(queue[t]) \in Seq(Post)
    BY <2>1, <2>2
  <2>4. queue' \in [Tabs -> Seq(Post)]
    BY <2>1, <2>3 DEF Places
  <2>5. heard' \in Seq(Post)
    <3>1. heard \in Seq(Post)
      BY DEF Places
    <3>2. Append(heard, Head(queue[t])) \in Seq(Post)
      BY <2>3, <3>1
    <3> QED BY <2>1, <3>1, <3>2
  <2>6. \A u \in Tabs : \A i \in DOMAIN queue'[u] : tab[queue'[u][i].run] = u
    <3> SUFFICES ASSUME NEW u \in Tabs, NEW i \in DOMAIN queue'[u] PROVE tab[queue'[u][i].run] = u
      OBVIOUS
    <3>1. CASE u # t
      BY <2>1, <3>1 DEF Places
    <3>2. CASE u = t
      <4>1. i \in DOMAIN Tail(queue[t])
        BY <2>2, <3>2
      <4>2. i + 1 \in DOMAIN queue[t] /\ Tail(queue[t])[i] = queue[t][i + 1]
        BY <2>1, <2>2, <4>1, TailIs, Zenon
      <4> QED BY <2>2, <3>2, <4>2 DEF Places
    <3> QED BY <3>1, <3>2
  <2> QED BY <2>1, <2>4, <2>5, <2>6 DEF Places
<1>4. CASE Spawn(t)
  <2> DEFINE r == loop[t].run
  <2>1. r \in Runs /\ reap[r] = "off" /\ loop[t].do = "spawn"
    BY <1>0, <1>4 DEF Spawn, Owned
  <2>2. PICK s \in Scripts[r] : left' = [left EXCEPT ![r] = s] /\ script' = [script EXCEPT ![r] = s]
    BY <1>4 DEF Spawn, Fork
  <2>3. s \in Seq(Line)
    BY <2>1, RunsAssumption
  <2>4. /\ proc' = [proc EXCEPT ![r] = "live"] /\ fwd' = [fwd EXCEPT ![r] = "read"]
        /\ reap' = [reap EXCEPT ![r] = "wait"] /\ UNCHANGED <<queue, pipe, heard, tab>>
    BY <1>4 DEF Spawn, Fork
  <2> HIDE DEF r
  <2>5. script' \in [Runs -> Seq(Line)] /\ \A q \in Runs : q # r => script'[q] = script[q]
    BY <2>1, <2>2, <2>3 DEF Places
  <2>6. /\ proc'[r] = "live" /\ fwd'[r] = "read" /\ reap'[r] = "wait"
        /\ \A q \in Runs : q # r => proc'[q] = proc[q] /\ fwd'[q] = fwd[q] /\ reap'[q] = reap[q]
    BY <1>0, <2>1, <2>4 DEF Types
  <2> QED BY <2>4, <2>5, <2>6 DEF Places
<1>5. CASE SpawnFails(t)
  <2> DEFINE r == loop[t].run
  <2>1. r \in Runs /\ reap[r] = "off"
    BY <1>0, <1>5 DEF SpawnFails, Owned
  <2>2. reap' = [reap EXCEPT ![r] = "done"] /\ UNCHANGED <<queue, pipe, script, heard, tab, proc, fwd>>
    BY <1>5 DEF SpawnFails
  <2> HIDE DEF r
  <2>3. reap'[r] = "done" /\ \A q \in Runs : q # r => reap'[q] = reap[q]
    BY <1>0, <2>1, <2>2 DEF Types
  <2> QED BY <2>1, <2>2, <2>3 DEF Places
<1>6. CASE Connect(t) \/ ExitClaude(t) \/ EnterClaude(t) \/ Closed(t) \/ EndTaken(t)
  <2>1. UNCHANGED <<queue, pipe, script, heard, tab, proc, fwd, reap>>
    BY <1>6 DEF Connect, ExitClaude, EnterClaude, Closed, EndTaken
  <2> QED BY <2>1 DEF Places
<1> QED BY <1>1, <1>2, <1>3, <1>4, <1>5, <1>6 DEF LoopStep

LEMMA RunPlaces ==
  ASSUME Inv, Places, NEW r \in Runs, RunStep(r) PROVE Places'
<1> USE DEF tabVars, runVars, histVars
<1>0. Types /\ Owned
  BY DEF Inv
<1>1. CASE Emit(r)
  <2>1. Head(left[r]) \in Line
    BY <1>0, <1>1 DEF Emit, Types
  <2>2. pipe[r] \o ParseLine(Head(left[r])) \in Seq(Wire)
    <3>1. pipe[r] \in Seq(Wire) /\ ParseLine(Head(left[r])) \in Seq(Wire)
      BY <2>1, ParsedWire DEF Places
    <3> QED BY <3>1
  <2>3. /\ pipe' = [pipe EXCEPT ![r] = @ \o ParseLine(Head(left[r]))] /\ proc[r] = "live"
        /\ UNCHANGED <<queue, script, heard, tab, proc, fwd, reap>>
    BY <1>1 DEF Emit
  <2>4. pipe' \in [Runs -> Seq(Wire)] /\ \A q \in Runs : q # r => pipe'[q] = pipe[q]
    BY <2>2, <2>3 DEF Places
  <2> QED BY <2>3, <2>4 DEF Places
<1>2. CASE Exit(r)
  <2>1. PICK n \in 0..Len(pipe[r]) : pipe' = [pipe EXCEPT ![r] = SubSeq(@, 1, n)]
    BY <1>2 DEF Exit
  <2>2. SubSeq(pipe[r], 1, n) \in Seq(Wire)
    <3>1. pipe[r] \in Seq(Wire)
      BY DEF Places
    <3> QED BY <3>1
  <2>3. /\ proc' = [proc EXCEPT ![r] = "dead"] /\ proc[r] = "live"
        /\ UNCHANGED <<queue, script, heard, tab, fwd, reap>>
    BY <1>2 DEF Exit
  <2>4. pipe' \in [Runs -> Seq(Wire)] /\ \A q \in Runs : q # r => pipe'[q] = pipe[q]
    BY <2>1, <2>2 DEF Places
  <2>5. proc'[r] = "dead" /\ \A q \in Runs : q # r => proc'[q] = proc[q]
    BY <1>0, <2>3 DEF Types
  <2> QED BY <2>3, <2>4, <2>5 DEF Places
<1>3. CASE Forward(r)
  <2> DEFINE e == Envelope(r, Head(pipe[r]))
  <2>1. /\ queue' = [queue EXCEPT ![tab[r]] = Append(@, e)]
        /\ pipe' = [pipe EXCEPT ![r] = Tail(@)] /\ pipe[r] # <<>> /\ fwd[r] = "read"
        /\ fwd' = [fwd EXCEPT ![r] = IF Head(pipe[r]).kind = "result" THEN "free" ELSE "read"]
        /\ UNCHANGED <<script, heard, tab, proc, reap>>
    BY <1>3 DEF Forward
  <2>2. tab[r] \in Tabs /\ reap[r] = "wait"
    BY <1>0, <2>1 DEF Places, Types, Owned
  <2>3. pipe[r] \in Seq(Wire)
    BY DEF Places
  <2>4. Head(pipe[r]) \in Wire /\ Tail(pipe[r]) \in Seq(Wire)
    BY <2>1, <2>3
  <2>5. e \in Post /\ e.run = r
    BY <2>4 DEF Envelope, Post
  <2> HIDE DEF e
  <2>6. queue[tab[r]] \in Seq(Post)
    BY <2>2 DEF Places
  <2>7. Append(queue[tab[r]], e) \in Seq(Post)
    BY <2>5, <2>6
  <2>8. queue' \in [Tabs -> Seq(Post)] /\ pipe' \in [Runs -> Seq(Wire)]
    BY <2>1, <2>2, <2>4, <2>7 DEF Places
  <2>9. \A u \in Tabs : \A i \in DOMAIN queue'[u] : tab[queue'[u][i].run] = u
    <3> SUFFICES ASSUME NEW u \in Tabs, NEW i \in DOMAIN queue'[u] PROVE tab[queue'[u][i].run] = u
      OBVIOUS
    <3>1. CASE u # tab[r]
      BY <2>1, <3>1 DEF Places
    <3>2. CASE u = tab[r]
      <4> DEFINE old == queue[u]
      <4>1. old \in Seq(Post) /\ queue'[u] = Append(old, e) /\ \A j \in DOMAIN old : tab[old[j].run] = u
        BY <2>1, <2>2, <3>2 DEF Places
      <4> HIDE DEF old
      <4>2. i \in 1..(Len(old) + 1) /\ DOMAIN old = 1..Len(old) /\ Len(old) \in Nat
            /\ Append(old, e)[i] = IF i = Len(old) + 1 THEN e ELSE old[i]
        BY <4>1
      <4> QED BY <2>5, <3>2, <4>1, <4>2
    <3> QED BY <3>1, <3>2
  <2>10. /\ fwd'[r] \in {"read", "free"} /\ \A q \in Runs : q # r => fwd'[q] = fwd[q] /\ pipe'[q] = pipe[q]
         /\ proc[r] # "new"
    BY <1>0, <2>1 DEF Types, Places
  <2> QED BY <2>1, <2>2, <2>8, <2>9, <2>10 DEF Places
<1>4. CASE Quit(r)
  <2>1. /\ pipe' = [pipe EXCEPT ![r] = <<>>] /\ fwd' = [fwd EXCEPT ![r] = "closed"] /\ fwd[r] = "read"
        /\ UNCHANGED <<queue, script, heard, tab, proc, reap>>
    BY <1>4 DEF Quit
  <2>2. <<>> \in Seq(Wire)
    OBVIOUS
  <2>3. pipe' \in [Runs -> Seq(Wire)] /\ pipe'[r] = <<>> /\ \A q \in Runs : q # r => pipe'[q] = pipe[q]
    BY <2>1, <2>2 DEF Places
  <2>4. fwd'[r] = "closed" /\ \A q \in Runs : q # r => fwd'[q] = fwd[q]
    BY <1>0, <2>1 DEF Types
  <2>5. proc[r] # "new" /\ reap[r] = "wait"
    BY <2>1 DEF Places
  <2> QED BY <2>1, <2>3, <2>4, <2>5 DEF Places
<1>5. CASE EndOfEvents(r)
  <2>1. fwd' = [fwd EXCEPT ![r] = "closed"] /\ fwd[r] = "read" /\ UNCHANGED <<queue, script, heard, tab, proc, reap, pipe>>
    BY <1>5 DEF EndOfEvents
  <2>2. fwd'[r] = "closed" /\ \A q \in Runs : q # r => fwd'[q] = fwd[q]
    BY <1>0, <2>1 DEF Types
  <2>3. proc[r] # "new" /\ reap[r] = "wait"
    BY <2>1 DEF Places
  <2> QED BY <2>1, <2>2, <2>3 DEF Places
<1>6. CASE FreeSlot(r)
  <2>1. fwd' = [fwd EXCEPT ![r] = "read"] /\ fwd[r] = "free" /\ UNCHANGED <<queue, script, heard, tab, proc, reap, pipe>>
    BY <1>6 DEF FreeSlot
  <2>2. fwd'[r] = "read" /\ \A q \in Runs : q # r => fwd'[q] = fwd[q]
    BY <1>0, <2>1 DEF Types
  <2>3. proc[r] # "new" /\ reap[r] = "wait"
    BY <2>1 DEF Places
  <2> QED BY <2>1, <2>2, <2>3 DEF Places
<1>7. CASE Reap(r) \/ Report(r)
  <2>1. /\ \E x \in {"done", "report"} : reap' = [reap EXCEPT ![r] = x]
        /\ UNCHANGED <<queue, script, heard, tab, proc, pipe, fwd>>
    BY <1>7 DEF Reap, Report
  <2>2. reap'[r] \in {"done", "report"} /\ \A q \in Runs : q # r => reap'[q] = reap[q]
    BY <1>0, <2>1 DEF Types
  <2>3. proc[r] # "live" /\ fwd[r] \notin {"read", "free"}
    BY <1>7 DEF Reap, Report, Places
  <2> QED BY <2>1, <2>2, <2>3 DEF Places
<1> QED BY <1>1, <1>2, <1>3, <1>4, <1>5, <1>6, <1>7 DEF RunStep

LEMMA PlacesStep ==
  ASSUME Inv, Places, [Next]_vars PROVE Places'
<1>1. CASE CloseSession
  BY <1>1 DEF CloseSession, Places, runVars, histVars
<1>2. CASE UNCHANGED vars
  BY <1>2 DEF Places, vars, tabVars, runVars, histVars
<1> QED BY <1>1, <1>2, TabPlaces, RunPlaces DEF Next

\* A prompt that does not mix finds every run over.
LEMMA OthersStep ==
  ASSUME Inv, Places, Others, [Next]_vars PROVE Others'
<1> SUFFICES ASSUME ~mixed', NEW q \in Runs, tab'[q] # None
             PROVE  state'.turns # <<>> /\ (q = LastRun' \/ Over(q)')
  BY DEF Others
<1>1. CASE \E t \in Tabs : Prompt(t)
  <2>1. PICK t \in Tabs : Prompt(t)
    BY <1>1
  <2>2. /\ tab' = [tab EXCEPT ![NextRun] = t] /\ state' = BeginTurn(state, NextRun)
        /\ ~mixed /\ \A p \in Runs \ Unused : Over(p)
    BY <2>1 DEF Prompt
  <2>3. state'.turns # <<>> /\ LastRun' = NextRun
    BY <2>1, LastBegun
  <2>4. CASE q = NextRun
    BY <2>3, <2>4
  <2>5. CASE q # NextRun
    <3>1. tab[q] # None
      BY <2>2, <2>5 DEF Inv, Types
    <3>2. Over(q)
      BY <2>2, <3>1 DEF Unused
    <3> QED BY <2>3, <3>2, OverStays
  <2> QED BY <2>4, <2>5
<1>2. CASE ~(\E t \in Tabs : Prompt(t))
  <2>1. tab' = tab
    BY <1>2, StateKept
  <2>2. mixed' = mixed
    BY <1>2, MixedStays
  <2>3. state.turns # <<>> /\ (q = LastRun \/ Over(q))
    BY <2>1, <2>2 DEF Others
  <2> QED BY <1>2, <2>3, LastStays, OverStays
<1> QED BY <1>1, <1>2

-----------------------------------------------------------------------------
(* The way goes on *)

\* What moves from one end of the middle to the other.
Shifts(x, a, b, c) == (x \o (a \o b)) \o c = (x \o a) \o (b \o c)

LEMMA ShiftIs ==
  ASSUME NEW S, NEW x \in Seq(S), NEW a \in Seq(S), NEW b \in Seq(S), NEW c \in Seq(S)
  PROVE  Shifts(x, a, b, c)
<1>1. a \o b \in Seq(S) /\ b \o c \in Seq(S) /\ x \o a \in Seq(S)
  OBVIOUS
<1>2. Joins(x, a, b) /\ Joins(x \o a, b, c)
  BY <1>1, JoinsIs, Zenon
<1> QED BY <1>2, Zenon DEF Joins, Shifts

LEMMA JoinIn ==
  ASSUME NEW S, NEW a \in Seq(S), NEW b \in Seq(S) PROVE \E y \in Seq(S) : y = a \o b
<1>1. a \o b \in Seq(S)
  OBVIOUS
<1> QED BY <1>1, Zenon

\* A beginning of the way, and the rest.
BeginsWith(S, h, q, p, c) == \E w \in Seq(S) : ((h \o q) \o p) \o c = h \o w

LEMMA FourParts ==
  ASSUME NEW S, NEW h \in Seq(S), NEW q \in Seq(S), NEW p \in Seq(S), NEW c \in Seq(S)
  PROVE  BeginsWith(S, h, q, p, c)
<1>1. q \o p \in Seq(S)
  OBVIOUS
<1>2. (q \o p) \o c \in Seq(S)
  BY <1>1
<1>3. Joins(h, q, p) /\ Joins(h, q \o p, c)
  BY <1>1, JoinsIs, Zenon
<1> QED BY <1>2, <1>3, Zenon DEF Joins, BeginsWith

LEMMA NoneLeft ==
  ASSUME NEW S, NEW a \in Seq(S), NEW b \in Seq(S), a \o b = <<>> PROVE a = <<>> /\ b = <<>>
<1>1. Len(a \o b) = Len(a) + Len(b) /\ Len(a) \in Nat /\ Len(b) \in Nat /\ Len(<<>>) = 0
  OBVIOUS
<1>2. Len(a) = 0 /\ Len(b) = 0
  BY <1>1
<1> QED BY <1>2

LEMMA JoinNone ==
  ASSUME NEW S, NEW a \in Seq(S)
  PROVE  /\ <<>> \in Seq(S) /\ <<>> \o a = a /\ a \o <<>> = a
OBVIOUS

LEMMA NoLetters ==
  ASSUME NEW r \in Runs PROVE Letters(r, <<>>) = <<>> /\ Letters(r, Events(<<>>)) = <<>>
<1>1. <<>> \in Seq(Wire) /\ <<>> \in Seq(Line)
  OBVIOUS
<1>2. Letters(r, <<>>) \in Seq(Post) /\ Len(Letters(r, <<>>)) = Len(<<>>)
  BY <1>1, LettersAre
<1>3. Letters(r, <<>>) = <<>>
  BY <1>2
<1>4. Events(<<>>) = <<>>
  BY <1>1, EventsIs
<1> QED BY <1>3, <1>4

LEMMA LettersTail ==
  ASSUME NEW r \in Runs, NEW p \in Seq(Wire), p # <<>>
  PROVE  /\ Letters(r, p) \in Seq(Post) /\ Letters(r, p) # <<>>
         /\ Head(Letters(r, p)) = Envelope(r, Head(p))
         /\ Tail(Letters(r, p)) = Letters(r, Tail(p))
<1> DEFINE x == Letters(r, p)
           y == Letters(r, Tail(p))
<1>1. /\ Tail(p) \in Seq(Wire) /\ Len(p) \in Nat \ {0} /\ Len(Tail(p)) = Len(p) - 1 /\ Head(p) = p[1]
      /\ \A i \in 1..(Len(p) - 1) : Tail(p)[i] = p[i + 1]
  OBVIOUS
<1>2. /\ x \in Seq(Post) /\ Len(x) = Len(p) /\ \A i \in 1..Len(p) : x[i] = Envelope(r, p[i])
      /\ y \in Seq(Post) /\ Len(y) = Len(Tail(p)) /\ \A i \in 1..Len(Tail(p)) : y[i] = Envelope(r, Tail(p)[i])
  BY <1>1, LettersAre
<1> HIDE DEF x, y
<1>3. x # <<>> /\ Head(x) = x[1] /\ Tail(x) \in Seq(Post) /\ Len(Tail(x)) = Len(x) - 1
      /\ \A i \in 1..(Len(x) - 1) : Tail(x)[i] = x[i + 1]
  BY <1>1, <1>2
<1>4. Head(x) = Envelope(r, Head(p))
  BY <1>1, <1>2, <1>3
<1>5. ASSUME NEW i \in 1..Len(Tail(x)) PROVE Tail(x)[i] = y[i]
  <2>1. i \in 1..(Len(p) - 1) /\ i \in 1..Len(Tail(p)) /\ i + 1 \in 1..Len(p)
    BY <1>1, <1>2, <1>3
  <2>2. Tail(x)[i] = x[i + 1] /\ x[i + 1] = Envelope(r, p[i + 1])
    BY <1>2, <1>3, <2>1
  <2>3. y[i] = Envelope(r, Tail(p)[i]) /\ Tail(p)[i] = p[i + 1]
    BY <1>1, <1>2, <2>1
  <2> QED BY <2>2, <2>3
<1>6. Tail(x) = y
  BY <1>1, <1>2, <1>3, <1>5, SeqsEqual
<1> QED BY <1>2, <1>3, <1>4, <1>6 DEF x, y

\* The sequences of a path.
LEMMA PathTypes ==
  ASSUME Inv, Places, NEW r \in Runs, tab[r] \in Tabs
  PROVE  /\ heard \in Seq(Post) /\ queue[tab[r]] \in Seq(Post) /\ pipe[r] \in Seq(Wire)
         /\ Letters(r, pipe[r]) \in Seq(Post) /\ heard \o queue[tab[r]] \in Seq(Post)
         /\ left[r] \in Seq(Line) /\ script[r] \in Seq(Line)
<1>1. heard \in Seq(Post) /\ queue[tab[r]] \in Seq(Post) /\ pipe[r] \in Seq(Wire) /\ script[r] \in Seq(Line)
  BY DEF Places
<1>2. Letters(r, pipe[r]) \in Seq(Post)
  BY <1>1, LettersAre
<1>3. heard \o queue[tab[r]] \in Seq(Post)
  BY <1>1
<1> QED BY <1>1, <1>2, <1>3 DEF Inv, Types

\* A step that moves nothing of a run keeps its path.
LEMMA PathStays ==
  ASSUME NEW r \in Runs, Path(r), tab' = tab, script'[r] = script[r], heard' = heard,
         conn'[tab[r]] # "gone" => /\ conn[tab[r]] # "gone" /\ queue'[tab[r]] = queue[tab[r]]
                                   /\ pipe'[r] = pipe[r],
         proc'[r] = "live" /\ r \notin cancelled' =>
           proc[r] = "live" /\ r \notin cancelled /\ left'[r] = left[r]
  PROVE  Path(r)'
<1>1. \E rest \in Seq(Post) : All(r)' = heard' \o rest
  BY DEF Path, All
<1>2. ASSUME conn'[tab'[r]] # "gone"
      PROVE  \E rest \in Seq(Post) :
               /\ Upto(r, rest)'
               /\ proc'[r] = "live" /\ r \notin cancelled' => rest = Letters(r, Events(left'[r]))
  <2>1. conn[tab[r]] # "gone" /\ queue'[tab[r]] = queue[tab[r]] /\ pipe'[r] = pipe[r]
    BY <1>2
  <2>2. PICK rest \in Seq(Post) :
               /\ Upto(r, rest)
               /\ proc[r] = "live" /\ r \notin cancelled => rest = Letters(r, Events(left[r]))
    BY <2>1 DEF Path
  <2>3. Upto(r, rest)'
    BY <2>1, <2>2 DEF Upto, All
  <2> QED BY <2>2, <2>3
<1> QED BY <1>1, <1>2 DEF Path

\* The steps of the run itself.
LEMMA RunHears ==
  ASSUME Inv, Places, NEW r \in Runs, tab[r] \in Tabs, Path(r), RunStep(r) PROVE Path(r)'
<1> USE DEF tabVars, runVars, histVars
<1>0. Types /\ Owned
  BY DEF Inv
<1> DEFINE h == heard
           q == queue[tab[r]]
           p == Letters(r, pipe[r])
           x == h \o q
<1>p. h \in Seq(Post) /\ q \in Seq(Post) /\ p \in Seq(Post) /\ x \in Seq(Post) /\ pipe[r] \in Seq(Wire)
  BY PathTypes
<1>1. CASE Emit(r)
  <2> DEFINE evs == ParseLine(Head(left[r]))
             l == Letters(r, evs)
             c == Letters(r, Events(Tail(left[r])))
  <2>1. /\ proc[r] = "live" /\ r \notin cancelled /\ left[r] # <<>> /\ left[r] \in Seq(Line)
        /\ left' = [left EXCEPT ![r] = Tail(@)] /\ pipe' = [pipe EXCEPT ![r] = @ \o evs]
        /\ UNCHANGED <<heard, queue, tab, conn, script, proc, cancelled>>
    BY <1>0, <1>1 DEF Emit, Types
  <2>2. left'[r] = Tail(left[r]) /\ pipe'[r] = pipe[r] \o evs
    BY <1>0, <2>1 DEF Types
  <2>3. Head(left[r]) \in Line /\ Tail(left[r]) \in Seq(Line)
    BY <2>1
  <2>4. evs \in Seq(Wire) /\ Events(Tail(left[r])) \in Seq(Wire)
    BY <2>3, ParsedWire, EventsIs
  <2>5. l \in Seq(Post) /\ c \in Seq(Post)
    BY <2>4, LettersAre
  <2>6. Letters(r, pipe'[r]) = p \o l
    BY <1>p, <2>2, <2>4, LettersJoin
  <2>7. Letters(r, Events(left[r])) = l \o c
    BY <2>1, <2>4, EventsIs, LettersJoin
  <2>8. \E rest \in Seq(Post) : All(r)' = heard' \o rest
    BY <2>1 DEF Path, All
  <2>9. ASSUME conn[tab[r]] # "gone" PROVE \E rest \in Seq(Post) : Upto(r, rest)' /\ rest = Letters(r, Events(left'[r]))
    <3>1. PICK rest \in Seq(Post) : Upto(r, rest) /\ rest = Letters(r, Events(left[r]))
      BY <2>1, <2>9 DEF Path
    <3>2. All(r) = (x \o p) \o (l \o c)
      BY <2>7, <3>1 DEF Upto
    <3> HIDE DEF x, p, l, c
    <3>3. Shifts(x, p, l, c)
      BY <1>p, <2>5, ShiftIs, Zenon
    <3>4. PICK y \in Seq(Post) : y = c
      BY <2>5
    <3>5. All(r) = (x \o (p \o l)) \o y
      BY <3>2, <3>3, <3>4, Zenon DEF Shifts
    <3>6. Upto(r, y)'
      <4> USE DEF x
      <4> QED BY <2>1, <2>6, <3>5 DEF Upto, All
    <3>7. y = Letters(r, Events(left'[r]))
      <4> USE DEF c
      <4> QED BY <2>2, <3>4
    <3> QED BY <3>6, <3>7
  <2>10. conn' = conn /\ tab' = tab
    BY <2>1
  <2> QED BY <2>8, <2>9, <2>10 DEF Path
<1>2. CASE Exit(r)
  <2>1. PICK n \in 0..Len(pipe[r]) : pipe' = [pipe EXCEPT ![r] = SubSeq(@, 1, n)]
    BY <1>2 DEF Exit
  <2>2. /\ proc' = [proc EXCEPT ![r] = "dead"] /\ UNCHANGED <<heard, queue, tab, conn, script, cancelled>>
    BY <1>2 DEF Exit
  <2>3. proc'[r] = "dead" /\ pipe'[r] = SubSeq(pipe[r], 1, n)
    BY <1>0, <2>1, <2>2 DEF Types
  <2> DEFINE sent == SubSeq(pipe[r], 1, n)
             lost == SubSeq(pipe[r], n + 1, Len(pipe[r]))
             a == Letters(r, sent)
             b == Letters(r, lost)
  <2>4. sent \in Seq(Wire) /\ lost \in Seq(Wire) /\ pipe[r] = sent \o lost
    BY <1>p, CutIs
  <2> HIDE DEF sent, lost
  <2>5. a \in Seq(Post) /\ b \in Seq(Post) /\ p = a \o b
    BY <2>4, LettersAre, LettersJoin
  <2>6. pipe'[r] = sent
    BY <2>3 DEF sent
  <2>8. \E rest \in Seq(Post) : All(r)' = heard' \o rest
    BY <2>2 DEF Path, All
  <2>9. ASSUME conn[tab[r]] # "gone" PROVE \E rest \in Seq(Post) : Upto(r, rest)'
    <3>1. PICK rest \in Seq(Post) : Upto(r, rest)
      BY <2>9 DEF Path
    <3>2. All(r) = (x \o p) \o rest
      BY <3>1 DEF Upto
    <3> HIDE DEF x, p, a, b
    <3>3. Shifts(x, a, b, rest)
      BY <1>p, <2>5, ShiftIs, Zenon
    <3>4. PICK y \in Seq(Post) : y = b \o rest
      BY <2>5, JoinIn, Zenon
    <3>5. All(r) = (x \o a) \o y
      BY <2>5, <3>2, <3>3, <3>4, Zenon DEF Shifts
    <3>6. Upto(r, y)'
      <4> USE DEF x, a
      <4> QED BY <2>2, <2>6, <3>5 DEF Upto, All
    <3> QED BY <3>6
  <2>10. conn' = conn /\ tab' = tab
    BY <2>2
  <2> QED BY <2>3, <2>8, <2>9, <2>10 DEF Path
<1>3. CASE Forward(r)
  <2>1. /\ queue' = [queue EXCEPT ![tab[r]] = Append(@, Envelope(r, Head(pipe[r])))]
        /\ pipe' = [pipe EXCEPT ![r] = Tail(@)] /\ pipe[r] # <<>>
        /\ UNCHANGED <<heard, tab, conn, script, cancelled, proc, left>>
    BY <1>3 DEF Forward
  <2>2. p # <<>> /\ Head(p) = Envelope(r, Head(pipe[r])) /\ Tail(p) = Letters(r, Tail(pipe[r]))
    BY <1>p, <2>1, LettersTail
  <2>3. queue'[tab[r]] = Append(q, Head(p)) /\ Letters(r, pipe'[r]) = Tail(p)
    <3>1. queue'[tab[r]] = Append(q, Envelope(r, Head(pipe[r]))) /\ pipe'[r] = Tail(pipe[r])
      BY <2>1 DEF Places
    <3> QED BY <2>2, <3>1
  <2>8. \E rest \in Seq(Post) : All(r)' = heard' \o rest
    BY <2>1 DEF Path, All
  <2>9. ASSUME conn[tab[r]] # "gone", NEW rest \in Seq(Post), Upto(r, rest) PROVE Upto(r, rest)'
    <3>2. All(r) = ((h \o q) \o p) \o rest
      BY <2>9 DEF Upto
    <3> HIDE DEF p, q, h
    <3>3. MovesOn(h, q, p)
      BY <1>p, <2>2, MovedOn, Zenon
    <3>4. All(r) = ((h \o Append(q, Head(p))) \o Tail(p)) \o rest
      BY <3>2, <3>3, Zenon DEF MovesOn
    <3> USE DEF h
    <3> QED BY <2>1, <2>3, <3>4 DEF Upto, All
  <2>10. conn' = conn /\ tab' = tab /\ proc' = proc /\ cancelled' = cancelled /\ left' = left
    BY <2>1
  <2> QED BY <2>8, <2>9, <2>10 DEF Path
<1>4. CASE Quit(r)
  <2>1. /\ pipe' = [pipe EXCEPT ![r] = <<>>] /\ r \in cancelled
        /\ UNCHANGED <<heard, queue, tab, conn, script, cancelled>>
    BY <1>4 DEF Quit
  <2>2. pipe'[r] = <<>> /\ Letters(r, <<>>) = <<>>
    BY <1>0, <2>1, NoLetters DEF Types
  <2>8. \E rest \in Seq(Post) : All(r)' = heard' \o rest
    BY <2>1 DEF Path, All
  <2>9. ASSUME conn[tab[r]] # "gone" PROVE \E rest \in Seq(Post) : Upto(r, rest)'
    <3>1. PICK rest \in Seq(Post) : Upto(r, rest)
      BY <2>9 DEF Path
    <3>2. All(r) = (x \o p) \o rest
      BY <3>1 DEF Upto
    <3> HIDE DEF x, p
    <3>3. <<>> \in Seq(Post) /\ <<>> \o p = p
      BY <1>p, JoinNone
    <3>4. Shifts(x, <<>>, p, rest)
      BY <1>p, <3>3, ShiftIs, Zenon
    <3>5. PICK y \in Seq(Post) : y = p \o rest
      BY <1>p, JoinIn, Zenon
    <3>6. All(r) = (x \o <<>>) \o y
      BY <3>2, <3>3, <3>4, <3>5, Zenon DEF Shifts
    <3>7. Upto(r, y)'
      <4> USE DEF x
      <4> QED BY <2>1, <2>2, <3>6 DEF Upto, All
    <3> QED BY <3>7
  <2>10. conn' = conn /\ tab' = tab /\ r \in cancelled'
    BY <2>1
  <2> QED BY <2>8, <2>9, <2>10 DEF Path
<1>5. CASE EndOfEvents(r) \/ FreeSlot(r) \/ Reap(r) \/ Report(r)
  <2>1. /\ UNCHANGED <<heard, queue, tab, conn, script, pipe, proc, left>>
        /\ cancelled \subseteq cancelled'
    BY <1>5 DEF EndOfEvents, FreeSlot, Reap, Report
  <2> QED BY <2>1, PathStays
<1> QED BY <1>1, <1>2, <1>3, <1>4, <1>5 DEF RunStep

\* A step of another run.
LEMMA OtherRunHears ==
  ASSUME Inv, Places, NEW r \in Runs, tab[r] \in Tabs, Path(r), NEW p \in Runs, p # r, Over(p), RunStep(p)
  PROVE  Path(r)'
<1> USE DEF tabVars, runVars, histVars
<1>0. Types
  BY DEF Inv
<1>1. reap[p] = "done"
  BY DEF Over
<1>2. ~Forward(p)
  BY <1>1 DEF Forward, Places
<1>3. /\ UNCHANGED <<heard, queue, tab, conn, script>> /\ cancelled \subseteq cancelled'
      /\ pipe'[r] = pipe[r] /\ proc'[r] = proc[r] /\ left'[r] = left[r]
  <2>1. CASE Emit(p)
    BY <1>0, <2>1 DEF Emit, Types
  <2>2. CASE Exit(p)
    BY <1>0, <2>2 DEF Exit, Types
  <2>3. CASE Quit(p)
    BY <1>0, <2>3 DEF Quit, Types
  <2>4. CASE EndOfEvents(p) \/ FreeSlot(p) \/ Reap(p) \/ Report(p)
    BY <2>4 DEF EndOfEvents, FreeSlot, Reap, Report
  <2> QED BY <1>2, <2>1, <2>2, <2>3, <2>4 DEF RunStep
<1> QED BY <1>3, PathStays

\* The steps of a tab.
LEMMA TabHears ==
  ASSUME Inv, Places, Others, ~mixed, NEW r \in Runs, r = LastRun, tab[r] \in Tabs, Path(r), NEW t \in Tabs,
         Connect(t) \/ ExitClaude(t) \/ EnterClaude(t) \/ Disconnect(t) \/ LoopStep(t)
  PROVE  Path(r)'
<1> USE DEF tabVars, runVars, histVars
<1>0. Types /\ Owned
  BY DEF Inv
<1>1. ASSUME StopTaken(t) PROVE cancelled \subseteq cancelled'
  BY <1>1 DEF StopTaken
<1>2. CASE Connect(t) \/ ExitClaude(t) \/ EnterClaude(t) \/ SpawnFails(t) \/ Closed(t) \/ EndTaken(t)
  <2>1. UNCHANGED <<heard, queue, tab, script, pipe, proc, left>> /\ cancelled \subseteq cancelled'
    BY <1>1, <1>2 DEF Connect, ExitClaude, EnterClaude, SpawnFails, Closed, EndTaken
  <2>2. conn'[tab[r]] # "gone" => conn[tab[r]] # "gone"
    BY <1>0, <1>2 DEF Connect, ExitClaude, EnterClaude, SpawnFails, Closed, EndTaken, Types
  <2> QED BY <2>1, <2>2, PathStays
<1>3. CASE Disconnect(t)
  <2>1. UNCHANGED <<heard, tab, script, pipe, proc, left>> /\ cancelled \subseteq cancelled'
    BY <1>1, <1>3 DEF Disconnect
  <2>2. conn' = [conn EXCEPT ![t] = "gone"] /\ queue' = [queue EXCEPT ![t] = <<>>]
    BY <1>3 DEF Disconnect
  <2>3. conn'[tab[r]] # "gone" => conn[tab[r]] # "gone" /\ queue'[tab[r]] = queue[tab[r]]
    BY <1>0, <2>2 DEF Types
  <2> QED BY <2>1, <2>3, PathStays
<1>4. CASE Spawn(t) /\ loop[t].run # r
  <2> DEFINE p == loop[t].run
  <2>1. p \in Runs
    BY <1>0, <1>4 DEF Owned, Spawn
  <2>2. UNCHANGED <<heard, queue, tab, conn, pipe, cancelled>>
    BY <1>4 DEF Spawn
  <2>3. script'[r] = script[r] /\ proc'[r] = proc[r] /\ left'[r] = left[r]
    BY <1>0, <1>4, <2>1 DEF Spawn, Fork, Types, Places
  <2> QED BY <2>2, <2>3, PathStays
<1>5. CASE Spawn(t) /\ loop[t].run = r
  <2>1. reap[r] = "off" /\ proc[r] = "new" /\ pipe[r] = <<>> /\ script[r] = <<>>
    BY <1>0, <1>5 DEF Spawn, Owned, Places
  <2>2. PICK s \in Scripts[r] : left' = [left EXCEPT ![r] = s] /\ script' = [script EXCEPT ![r] = s]
    BY <1>5 DEF Spawn, Fork
  <2>3. s \in Seq(Line)
    BY RunsAssumption
  <2>4. left'[r] = s /\ script'[r] = s
    BY <1>0, <2>2 DEF Types, Places
  <2>5. UNCHANGED <<heard, queue, tab, conn, pipe, cancelled>>
    BY <1>5 DEF Spawn
  <2>6. heard \in Seq(Post) /\ queue[tab[r]] \in Seq(Post) /\ heard \o queue[tab[r]] \in Seq(Post)
    BY PathTypes
  <2>7. All(r) = <<>> /\ Letters(r, pipe[r]) = <<>>
    BY <2>1, NoLetters DEF All
  <2>8. heard = <<>>
    <3>1. PICK rest \in Seq(Post) : All(r) = heard \o rest
      BY DEF Path
    <3>2. heard \o rest = <<>>
      BY <2>7, <3>1
    <3> QED BY <2>6, <3>2, NoneLeft, Zenon
  <2>9. Events(s) \in Seq(Wire)
    BY <2>3, EventsIs
  <2>10. Letters(r, Events(s)) \in Seq(Post)
    BY <2>9, LettersAre
  <2>11. PICK y \in Seq(Post) : y = Letters(r, Events(s))
    BY <2>10
  <2>12. All(r)' = y
    BY <2>4, <2>11 DEF All
  <2>13. <<>> \o y = y
    BY JoinNone, Zenon
  <2>14. \E rest \in Seq(Post) : All(r)' = heard' \o rest
    BY <2>5, <2>8, <2>12, <2>13, Zenon
  <2>15. ASSUME conn[tab[r]] # "gone" PROVE Upto(r, y)'
    <3> DEFINE x == heard \o queue[tab[r]]
               p == Letters(r, pipe[r])
    <3>1. PICK rest \in Seq(Post) : All(r) = (x \o p) \o rest
      BY <2>15 DEF Path, Upto
    <3>2. x \in Seq(Post) /\ p \in Seq(Post)
      BY PathTypes
    <3>3. PICK z \in Seq(Post) : z = x \o p
      BY <3>2, JoinIn, Zenon
    <3>4. z \o rest = <<>>
      BY <2>7, <3>1, <3>3, Zenon
    <3>5. z = <<>>
      BY <3>4, NoneLeft, Zenon
    <3>6. (x \o p) \o y = y
      BY <2>13, <3>3, <3>5, Zenon
    <3> QED BY <2>5, <2>12, <3>6 DEF Upto
  <2>16. y = Letters(r, Events(left'[r]))
    BY <2>4, <2>11
  <2> QED BY <2>5, <2>14, <2>15, <2>16 DEF Path
<1>6. CASE Deliver(t)
  <2> DEFINE letter == Head(queue[t])
  <2>1. /\ queue[t] # <<>> /\ conn[t] = "on" /\ queue' = [queue EXCEPT ![t] = Tail(@)]
        /\ heard' = Append(heard, letter) /\ UNCHANGED <<conn, tab, script, pipe, proc, left, cancelled>>
    BY <1>6 DEF Deliver, Serves
  <2>2. queue[t] \in Seq(Post)
    BY DEF Places
  <2>3. letter = queue[t][1] /\ 1 \in DOMAIN queue[t] /\ letter \in Post
    BY <2>1, <2>2
  <2>4. letter.run \in Runs /\ tab[letter.run] = t /\ ~Over(letter.run)
    <3>1. letter.run \in Runs
      <4> HIDE DEF letter
      <4> QED BY <2>3 DEF Post
    <3> QED BY <2>3, <3>1 DEF Places, Over
  <2>5. letter.run = r
    BY <2>4, RunsAssumption DEF Others
  <2>6. tab[r] = t
    BY <2>4, <2>5
  <2> DEFINE h == heard
             q == queue[t]
             p == Letters(r, pipe[r])
  <2>7. h \in Seq(Post) /\ p \in Seq(Post)
    BY PathTypes
  <2>8. Append(h, Head(q)) \in Seq(Post) /\ Tail(q) \in Seq(Post) /\ Append(h, Head(q)) \o Tail(q) = h \o q
    <3> HIDE DEF h, q
    <3>1. q \in Seq(Post) /\ q # <<>>
      BY <2>1, <2>2 DEF q
    <3> QED BY <2>7, <3>1, Moved
  <2>9. queue'[t] = Tail(q) /\ heard' = Append(h, Head(q))
    BY <2>1 DEF Places
  <2>10. PICK rest \in Seq(Post) :
           /\ Upto(r, rest)
           /\ proc[r] = "live" /\ r \notin cancelled => rest = Letters(r, Events(left[r]))
    BY <2>1, <2>6 DEF Path
  <2>11. All(r) = ((h \o q) \o p) \o rest
    BY <2>6, <2>10 DEF Upto
  <2> HIDE DEF h, q, p
  <2>12. PICK g \in Seq(Post) : g = Append(h, Head(q))
    BY <2>8
  <2>13. PICK m \in Seq(Post) : m = Tail(q)
    BY <2>8
  <2>14. All(r) = ((g \o m) \o p) \o rest
    BY <2>8, <2>11, <2>12, <2>13, Zenon
  <2>15. Upto(r, rest)'
    <3> USE DEF p
    <3> QED BY <2>1, <2>6, <2>9, <2>12, <2>13, <2>14 DEF Upto, All
  <2>16. PICK w \in Seq(Post) : All(r) = g \o w
    <3>1. BeginsWith(Post, g, m, p, rest)
      BY <2>7, FourParts, Zenon
    <3> QED BY <2>14, <3>1, Zenon DEF BeginsWith
  <2>17. All(r)' = heard' \o w
    BY <2>1, <2>9, <2>12, <2>16 DEF All
  <2> QED BY <2>1, <2>10, <2>15, <2>17 DEF Path
<1> QED BY <1>2, <1>3, <1>4, <1>5, <1>6 DEF LoopStep

\* A prompt that does not mix finds no letter on its way, and nothing printed.
LEMMA PromptHears ==
  ASSUME Inv, Places, NEW t \in Tabs, Prompt(t), ~mixed', NEW r, r = NextRun PROVE r \in Runs /\ Path(r)'
<1> USE DEF tabVars, runVars, histVars
<1>0. Types /\ Owned
  BY DEF Inv
<1>1. r \in Runs /\ tab[r] = None
  BY NextRunIs DEF Prompt, Admits
<1>2. reap[r] = "off" /\ proc[r] = "new" /\ pipe[r] = <<>> /\ script[r] = <<>>
  BY <1>0, <1>1 DEF Owned, Places
<1>3. /\ tab' = [tab EXCEPT ![r] = t] /\ heard' = <<>>
      /\ UNCHANGED <<queue, pipe, script, proc, left, cancelled, conn>>
      /\ \A p \in Runs \ Unused : Over(p)
  BY DEF Prompt
<1>4. queue[t] = <<>>
  <2>1. queue[t] \in Seq(Post)
    BY DEF Places
  <2> SUFFICES ASSUME queue[t] # <<>> PROVE FALSE
    OBVIOUS
  <2>2. 1 \in DOMAIN queue[t] /\ queue[t][1] \in Post
    BY <2>1
  <2>3. queue[t][1].run \in Runs
    BY <2>2 DEF Post
  <2>4. tab[queue[t][1].run] = t /\ t # None
    BY <2>2, RunsAssumption DEF Places
  <2>5. Over(queue[t][1].run)
    BY <1>3, <2>3, <2>4 DEF Unused
  <2> QED BY <2>2, <2>5 DEF Over
<1>5. tab'[r] = t
  BY <1>0, <1>1, <1>3 DEF Types
<1>6. All(r)' = <<>> /\ Letters(r, pipe'[r]) = <<>>
  BY <1>1, <1>2, <1>3, NoLetters DEF All
<1>7. PICK e \in Seq(Post) : e = <<>> /\ e \o e = e
  <2>1. <<>> \in Seq(Post)
    OBVIOUS
  <2>2. <<>> \o <<>> = <<>>
    BY <2>1, JoinNone, Zenon
  <2> QED BY <2>1, <2>2, Zenon
<1>8. All(r)' = heard' \o e
  BY <1>3, <1>6, <1>7
<1>9. Upto(r, e)'
  <2>1. heard' = e /\ queue'[tab'[r]] = e /\ Letters(r, pipe'[r]) = e /\ All(r)' = e
    BY <1>3, <1>4, <1>5, <1>6, <1>7
  <2>2. ((e \o e) \o e) \o e = e
    BY <1>7, Zenon
  <2> QED BY <2>1, <2>2, Zenon DEF Upto
<1>10. proc'[r] # "live"
  BY <1>2, <1>3
<1> QED BY <1>1, <1>8, <1>9, <1>10 DEF Path

LEMMA HearsStep ==
  ASSUME Inv, Places, Others, Hears, [Next]_vars PROVE Hears'
<1> SUFFICES ASSUME ~mixed', state'.turns # <<>> PROVE Path(LastRun)'
  BY DEF Hears
<1>1. CASE \E t \in Tabs : Prompt(t)
  <2>1. PICK t \in Tabs : Prompt(t)
    BY <1>1
  <2>2. LastRun' = NextRun
    BY <2>1, LastBegun
  <2>3. PICK r : r = NextRun
    OBVIOUS
  <2>4. Path(r)'
    BY <2>1, <2>3, PromptHears
  <2> QED BY <2>2, <2>3, <2>4 DEF Path, Upto, All
<1>2. CASE ~(\E t \in Tabs : Prompt(t))
  <2>1. ~mixed /\ state.turns # <<>> /\ LastRun' = LastRun
    BY <1>2, MixedStays, LastStays
  <2>2. PICK r \in Runs : r = LastRun /\ tab[r] \in Tabs
    BY <2>1, LastStarted
  <2>3. Path(r)
    BY <2>1, <2>2 DEF Hears
  <2>4. Path(r)'
    <3>1. CASE CloseSession \/ UNCHANGED vars
      <4>1. UNCHANGED <<heard, queue, tab, script, conn, pipe, proc, left, cancelled>>
        BY <3>1 DEF CloseSession, vars, tabVars, runVars, histVars
      <4> QED BY <2>3, <4>1, PathStays
    <3>2. ASSUME NEW p \in Runs, RunStep(p) PROVE Path(r)'
      <4>1. CASE p = r
        BY <2>2, <2>3, <3>2, <4>1, RunHears
      <4>2. CASE p # r /\ tab[p] # None
        <5>1. Over(p)
          BY <2>1, <2>2, <4>2 DEF Others
        <5> QED BY <2>2, <2>3, <3>2, <4>2, <5>1, OtherRunHears
      <4>3. CASE tab[p] = None
        <5>1. reap[p] = "off" /\ fwd[p] = "off" /\ proc[p] = "new"
          BY <4>3 DEF Inv, Owned, Places
        <5> QED BY <3>2, <5>1 DEF RunStep, Emit, Exit, Forward, Quit, EndOfEvents, FreeSlot, Reap, Report
      <4> QED BY <4>1, <4>2, <4>3
    <3>3. ASSUME NEW t \in Tabs, Connect(t) \/ ExitClaude(t) \/ EnterClaude(t) \/ Disconnect(t) \/ LoopStep(t)
          PROVE  Path(r)'
      BY <2>1, <2>2, <2>3, <3>3, TabHears
    <3> QED BY <1>2, <3>1, <3>2, <3>3 DEF Next
  <2> QED BY <2>1, <2>2, <2>4 DEF Path, Upto, All
<1> QED BY <1>1, <1>2

-----------------------------------------------------------------------------
(* How the last turn ended *)

\* Who closes an open turn leaves the reason.
LEMMA ReasonLeft ==
  ASSUME NEW s, s = Fields(s), s.turns \in Seq(Turn), s.turns # <<>>, LastTurn(s).outcome = "open",
         NEW outcome, NEW reason, NEW text
  PROVE  LastTurn(CloseLast(s, outcome, reason, text)).reason = reason
<1> DEFINE old == LastTurn(s)
           turn == [SetTurnOutcome(old, outcome, reason) EXCEPT !.blocks = OrText(@, text)]
           n == Len(s.turns)
           ts == [s.turns EXCEPT ![n] = turn]
           u == WithLast([s EXCEPT !.inFlight = FALSE], turn)
<1>0. s = Fields(s)
  OBVIOUS
<1>1. n \in DOMAIN s.turns /\ old \in Turn
  BY DEF LastTurn
<1>2. CloseLast(s, outcome, reason, text) = u
  BY DEF CloseLast
<1>3. turn.reason = reason
  <2>1. SetTurnOutcome(old, outcome, reason) = [old EXCEPT !.outcome = outcome, !.reason = reason]
    BY <1>1 DEF SetTurnOutcome
  <2> QED BY <1>1, <2>1 DEF Turn
<1> HIDE DEF turn
<1>4. u = [[s EXCEPT !.inFlight = FALSE] EXCEPT !.turns = ts]
  BY <1>0 DEF WithLast, Fields
<1> HIDE DEF ts, u
<1>5. u = [turns |-> ts, inFlight |-> FALSE, lastError |-> s.lastError,
           tasks |-> s.tasks, subagents |-> s.subagents, index |-> s.index]
  BY <1>0, <1>4 DEF Fields
<1>6. u.turns = ts
  BY ONLY <1>5
<1>7. Len(ts) = n /\ ts[n] = turn
  BY <1>1 DEF ts
<1> QED BY <1>2, <1>3, <1>6, <1>7 DEF LastTurn

LEMMA EndedReason ==
  ASSUME NEW s, Good(s), Open(s), NEW text
  PROVE  /\ LastTurn(Apply(s, [kind |-> "claude_run_ended", text |-> text])).reason = "runner_killed"
         /\ LastTurn(Apply(s, [kind |-> "claude_error", code |-> "claude_spawn_failed"])).reason = "spawn_failed"
<1>1. s = Fields(s) /\ s.turns \in Seq(Turn) /\ s.turns # <<>> /\ LastTurn(s).outcome = "open"
  BY DEF Good, IsState, Fields, Open
<1>2. Apply(s, [kind |-> "claude_run_ended", text |-> text]) = CloseLast(s, "aborted", "runner_killed", text)
  BY DEF Apply, RunEnded, FinalizeInFlight
<1> DEFINE u == [s EXCEPT !.lastError = "claude_spawn_failed"]
<1>3. Apply(s, [kind |-> "claude_error", code |-> "claude_spawn_failed"])
      = CloseLast(u, "errored", "spawn_failed", "claude_spawn_failed")
  BY DEF Apply, ClaudeError, ClassifyClaudeError, FinalizeInFlight
<1>4. u = Fields(u) /\ u.turns = s.turns
  BY <1>1 DEF Fields
<1> HIDE DEF u
<1>5. LastTurn(u).outcome = "open"
  BY <1>1, <1>4 DEF LastTurn
<1> QED BY <1>1, <1>2, <1>3, <1>4, <1>5, ReasonLeft

LEMMA DecodeWire ==
  ASSUME NEW ev \in Wire PROVE Decode(ev) \in Wire /\ Decode(ev).kind = ev.kind
<1>1. Decode(ev) \in AnEvent
  BY DecodeIs DEF Wire
<1>2. Decode(ev).kind = ev.kind
  BY DEF Decode, Event
<1> QED BY <1>1, <1>2 DEF Wire

\* What was heard is not forgotten before the next prompt.
LEMMA HeardGrows ==
  ASSUME Inv, Places, [Next]_vars, ~(\E t \in Tabs : Prompt(t))
  PROVE  \A i \in DOMAIN heard : i \in DOMAIN heard' /\ heard'[i] = heard[i]
<1> USE DEF tabVars, runVars, histVars
<1>1. CASE \E t \in Tabs : Deliver(t)
  <2>1. PICK t \in Tabs : Deliver(t)
    BY <1>1
  <2>2. heard' = heard \/ heard' = Append(heard, Head(queue[t]))
    BY <2>1 DEF Deliver
  <2>3. heard \in Seq(Post) /\ Head(queue[t]) \in Post
    <3>1. queue[t] \in Seq(Post) /\ queue[t] # <<>>
      BY <2>1 DEF Deliver, Places
    <3> QED BY <3>1 DEF Places
  <2> QED BY <2>2, <2>3
<1>2. CASE ~(\E t \in Tabs : Deliver(t))
  <2>1. heard' = heard
    BY <1>2 DEF Next, vars, CloseSession, RunStep, LoopStep, Emit, Exit, Forward, Quit,
       EndOfEvents, FreeSlot, Reap, Report, Spawn, SpawnFails, Closed, EndTaken, Connect,
       ExitClaude, EnterClaude, Disconnect
  <2> QED BY <2>1
<1> QED BY <1>1, <1>2

LEMMA ConcludesStep ==
  ASSUME Inv, Places, Concludes, [Next]_vars PROVE Concludes'
<1> USE DEF tabVars, runVars, histVars
<1> SUFFICES ASSUME ~mixed', state'.turns # <<>>, LastTurn(state').outcome # "open",
                    LastTurn(state').reason = "none"
             PROVE  \E i \in DOMAIN heard' : heard'[i].ev.kind = "result"
  BY DEF Concludes
<1>1. CASE \E t \in Tabs : Prompt(t)
  BY <1>1, LastBegun
<1>2. CASE ~(\E t \in Tabs : Prompt(t))
  <2>1. ~mixed /\ state.turns # <<>>
    BY <1>2, MixedStays, LastStays
  <2>2. CASE LastTurn(state).outcome # "open"
    <3>1. LastTurn(state).reason = "none"
      BY <1>2, <2>1, <2>2, LastStays DEF Same
    <3> QED BY <1>2, <2>1, <2>2, <3>1, HeardGrows DEF Concludes
  <2>3. CASE LastTurn(state).outcome = "open"
    <3>1. Good(state) /\ Open(state)
      BY <2>1, <2>3 DEF Inv, Turns, Open
    <3>2. state' # state
      BY <2>3
    <3>3. ASSUME NEW text, ApplyRunEnded(text) PROVE FALSE
      BY <3>1, <3>3, EndedReason DEF ApplyRunEnded
    <3>4. ASSUME NEW t \in Tabs, SpawnFails(t) PROVE FALSE
      BY <3>1, <3>4, EndedReason DEF SpawnFails
    <3>5. ASSUME NEW t \in Tabs, Deliver(t) PROVE \E i \in DOMAIN heard' : heard'[i].ev.kind = "result"
      <4> DEFINE letter == Head(queue[t])
      <4>1. queue[t] \in Seq(Post) /\ queue[t] # <<>> /\ heard \in Seq(Post)
        BY <3>5 DEF Deliver, Places
      <4>2. letter \in Post
        BY <4>1
      <4>3. heard' = Append(heard, letter) /\ state' = Apply(state, Decode(letter.ev))
        BY <2>1, <3>5 DEF Deliver
      <4> HIDE DEF letter
      <4>4. letter.ev \in Wire
        BY <4>2 DEF Post
      <4>5. Decode(letter.ev) \in Wire /\ Decode(letter.ev).kind = letter.ev.kind
        BY <4>4, DecodeWire
      <4>6. ~Open(state')
        BY DEF Open
      <4>7. letter.ev.kind = "result"
        BY <3>1, <4>3, <4>5, <4>6, OpenStays
      <4>8. Len(heard) + 1 \in DOMAIN heard' /\ heard'[Len(heard) + 1] = letter
        BY <4>1, <4>2, <4>3
      <4> QED BY <4>7, <4>8
    <3>6. ASSUME NEW r \in Runs, RunStep(r) PROVE FALSE
      <4>1. CASE Report(r)
        BY <3>3, <4>1 DEF Report
      <4>2. CASE ~Report(r)
        BY <3>2, <3>6, <4>2 DEF RunStep, Emit, Exit, Forward, Quit, EndOfEvents, FreeSlot, Reap
      <4> QED BY <4>1, <4>2
    <3>7. ASSUME NEW t \in Tabs, Connect(t) \/ ExitClaude(t) \/ EnterClaude(t) \/ Disconnect(t) \/ LoopStep(t)
          PROVE  \E i \in DOMAIN heard' : heard'[i].ev.kind = "result"
      <4>1. CASE EndTaken(t)
        BY <3>3, <4>1 DEF EndTaken
      <4>2. CASE ~EndTaken(t)
        BY <3>2, <3>4, <3>5, <3>7, <4>2 DEF LoopStep, Connect, ExitClaude, EnterClaude, Disconnect, Spawn, Closed
      <4> QED BY <4>1, <4>2
    <3>8. CASE CloseSession \/ UNCHANGED vars
      BY <3>2, <3>8 DEF CloseSession, vars
    <3> QED BY <1>2, <3>6, <3>7, <3>8 DEF Next
  <2> QED BY <2>2, <2>3
<1> QED BY <1>1, <1>2

LEMMA HearInit == Init => HearInv
<1> SUFFICES ASSUME Init PROVE HearInv
  OBVIOUS
<1>1. \A S : <<>> \in Seq(S)
  OBVIOUS
<1>2. state.turns = <<>>
  BY DEF Init, EmptyState
<1>3. Places
  BY <1>1 DEF Init, Places
<1>4. Others /\ Hears /\ Concludes
  BY <1>2 DEF Init, Others, Hears, Concludes
<1> QED BY <1>3, <1>4 DEF HearInv

\* The way of the events is kept by every step.
LEMMA HearHolds == Spec => [](Inv /\ HearInv)
<1>1. Init => HearInv
  BY HearInit
<1>2. Inv /\ HearInv /\ [Next]_vars => HearInv'
  BY PlacesStep, OthersStep, HearsStep, ConcludesStep DEF HearInv
<1> QED BY <1>1, <1>2, InvHolds, PTL DEF Spec

-----------------------------------------------------------------------------
(* The theorems *)

\* Whatever lines the processes print, in whatever interleaving, every variable keeps
\* its type and the index of the open turn points into that turn.
THEOREM TypeCorrect == Spec => []TypeOK
<1>1. Inv => TypeOK
  <2> SUFFICES ASSUME Inv PROVE TypeOK
    OBVIOUS
  <2>1. \A t \in Tabs : \A i \in DOMAIN queue[t] : queue[t][i].run \in Runs
    <3> SUFFICES ASSUME NEW t \in Tabs, NEW i \in DOMAIN queue[t] PROVE queue[t][i].run \in Runs
      OBVIOUS
    <3>1. queue[t][i] \in Sent
      BY DEF Inv, Types
    <3> QED BY <3>1 DEF Sent
  <2> QED BY <2>1 DEF Inv, Types, Turns, Good, TypeOK
<1> QED BY <1>1, InvHolds, PTL

\* A held slot is always one whose reaper will come (claude_handlers.go: the slot and
\* its two goroutines).
THEOREM SlotCorrect == Spec => []SlotWillBeFreed
<1>1. Inv => SlotWillBeFreed
  BY DEF Inv, Owned
<1> QED BY <1>1, InvHolds, PTL

\* inFlight and the last turn never disagree (state.go).
THEOREM LockedCorrect == Spec => []LockedIffOpen
<1>1. Inv => LockedIffOpen
  BY DEF Inv, Turns, Good, LockedIffOpen
<1> QED BY <1>1, InvHolds, PTL

\* No event changes how a closed turn ended or what it says (setTurnOutcome).
THEOREM ClosedCorrect == Spec => ClosedTurnStays
<1> DEFINE Stays ==
      \A i \in DOMAIN state.turns : state.turns[i].outcome # "open" =>
        /\ state'.turns[i].outcome = state.turns[i].outcome
        /\ state'.turns[i].reason = state.turns[i].reason
        /\ Spoken(state'.turns[i]) = Spoken(state.turns[i])
<1>1. Inv /\ [Next]_vars => Stays
  <2> SUFFICES ASSUME Inv, [Next]_vars PROVE Stays
    OBVIOUS
  <2>1. CASE \E t \in Tabs : Prompt(t)
    BY <2>1, TurnBegun
  <2>2. CASE ~(\E t \in Tabs : Prompt(t))
    BY <2>2, StateKept DEF Keeps, Same
  <2> QED BY <2>1, <2>2
<1>2. Inv /\ [Next]_vars => [Stays]_vars
  BY <1>1
<1> QED BY <1>2, InvHolds, PTL DEF Spec, ClosedTurnStays

\* As long as each prompt waited for the run before, what was applied to the last turn is
\* a beginning of what its own process printed, in order and without a gap, and a turn that
\* ended without a reason was told the result: the way from the parser over the forwarder's
\* channel and the tab's queue to Apply (claude_handlers.go) loses only an end.
THEOREM HearsCorrect == Spec => []SoloHearsOwn
<1>1. Inv /\ HearInv => SoloHearsOwn
  <2> SUFFICES ASSUME Inv, HearInv, ~mixed, state.turns # <<>>
               PROVE  /\ IsPrefix(heard, All(LastRun))
                      /\ LastTurn(state).outcome # "open" /\ LastTurn(state).reason = "none" =>
                           \E i \in DOMAIN heard : heard[i].ev.kind = "result"
    BY DEF SoloHearsOwn, All, LastRun
  <2>1. PICK rest \in Seq(Post) : All(LastRun) = heard \o rest
    BY DEF HearInv, Hears, Path
  <2>2. heard \in Seq(Post)
    BY DEF HearInv, Places
  <2>3. IsPrefix(heard, heard \o rest)
    BY <2>2, BeginningIs
  <2>4. IsPrefix(heard, All(LastRun))
    BY <2>1, <2>3
  <2> QED BY <2>4 DEF HearInv, Concludes
<1> QED BY <1>1, HearHolds, PTL

=============================================================================
