-------------------------- MODULE ApprovalsProofs --------------------------
(* A tool call is let through only by consent, one person's answer in time is *)
(* obeyed, and no subscription outlives its tab: for any number of requests   *)
(* and tabs and any buffers.                                                  *)
EXTENDS Approvals, TLAPS

LEMMA TypeInit == Init => TypeOK
BY DEF Init, TypeOK, Kinds, Decision

LEMMA ResolveTypes ==
  ASSUME TypeOK, NEW r \in Requests, NEW d \in Decision, Resolve(r, d)
  PROVE  /\ pending' \subseteq Requests /\ resolved' \in [Requests -> Decision \cup {None}]
         /\ answers' \in [Requests -> 0..2]
<1>1. answers' \in [Requests -> 0..2]
  BY DEF Resolve, TypeOK
<1> QED BY <1>1 DEF Resolve, TypeOK

\* The dispatcher answers by itself.
LEMMA AutoTypes ==
  ASSUME TypeOK, NEW r \in Requests, AutoAllow(r) \/ AutoDeny(r)
  PROVE  /\ pending' \subseteq Requests /\ resolved' \in [Requests -> Decision \cup {None}]
         /\ answers' \in [Requests -> 0..2] /\ consent' \subseteq Requests
         /\ hpc' = [hpc EXCEPT ![r] = "wait"]
<1>1. PICK d \in Decision : Resolve(r, d)
  BY DEF AutoAllow, AutoDeny, Decision
<1> QED BY <1>1, ResolveTypes DEF AutoAllow, AutoDeny, GoTo, TypeOK

\* One lemma per group of steps that touch the same variables.
LEMMA HookTypes ==
  ASSUME TypeOK, NEW r \in Requests, Post(r) \/ HandleAsk(r) \/ HangUp(r) PROVE TypeOK'
<1> USE DEF TypeOK, Decision, Kinds, At, GoTo, Step, hookVars, bridgeVars, subVars, tabVars, histVars
<1>1. CASE Post(r)
  BY <1>1 DEF Post
<1>2. CASE Lookup(r)
  BY <1>2, AutoTypes DEF Lookup
<1>3. CASE Rules(r)
  BY <1>3, AutoTypes DEF Rules
<1>4. CASE Route(r)
  BY <1>4, AutoTypes DEF Route
<1>5. CASE Send(r)
  <2>1. target' \in [Requests -> Tabs \cup {None}]
    BY <1>5 DEF Send
  <2>2. ASSUME target[r] \notin shut, Len(chan[target[r]]) < ChanCap,
               GoTo(r, "wait"), chan' = [chan EXCEPT ![target[r]] = Append(@, r)],
               UNCHANGED <<verdict, bridgeVars, histVars>>
        PROVE  TypeOK'
    <3>1. chan' \in [Tabs -> Seq(Requests)]
      <4>1. ASSUME NEW t \in Tabs PROVE Append(chan[t], r) \in Seq(Requests)
        BY <4>1
      <4> QED BY <2>2, <4>1
    <3> QED BY <1>5, <2>1, <2>2, <3>1 DEF Send
  <2>3. ASSUME target[r] \notin shut, AutoDeny(r), UNCHANGED <<chan, verdict>>
        PROVE  TypeOK'
    BY <1>5, <2>1, <2>3, AutoTypes DEF Send
  <2>4. ASSUME GoTo(r, "done"), verdict' = [verdict EXCEPT ![r] = "none"],
               UNCHANGED <<chan, bridgeVars, histVars>>
        PROVE  TypeOK'
    BY <1>5, <2>1, <2>4 DEF Send
  <2> QED BY <1>5, <2>2, <2>3, <2>4 DEF Send
<1>6. CASE Decided(r)
  BY <1>6 DEF Decided, Finish
<1>7. CASE Expire(r)
  BY <1>7 DEF Expire
<1>8. CASE GiveUp(r)
  BY <1>8 DEF GiveUp, Finish
<1>9. CASE HangUp(r)
  BY <1>9 DEF HangUp
<1> QED BY <1>1, <1>2, <1>3, <1>4, <1>5, <1>6, <1>7, <1>8, <1>9 DEF HandleAsk, OnAsk

LEMMA TabTypes ==
  ASSUME TypeOK, NEW t \in Tabs, Connect(t) \/ Disconnect(t) \/ Forward(t) \/ Show(t)
  PROVE  TypeOK'
<1> USE DEF TypeOK, Decision, hookVars, bridgeVars, subVars, tabVars, histVars
<1>1. CASE Connect(t)
  BY <1>1 DEF Connect
<1>2. CASE Disconnect(t)
  BY <1>2 DEF Disconnect
<1>3. CASE Forward(t)
  BY <1>3 DEF Forward
<1>4. CASE Show(t)
  <2>1. Head(asks[t]) \in Requests /\ asks' \in [Tabs -> Seq(Requests)]
    BY <1>4 DEF Show
  <2>2. ASSUME Resolve(Head(asks[t]), "deny"), UNCHANGED <<shown, consent>> PROVE TypeOK'
    <3>1. /\ pending' \subseteq Requests /\ resolved' \in [Requests -> Decision \cup {None}]
          /\ answers' \in [Requests -> 0..2]
      BY <2>1, <2>2, ResolveTypes
    <3> QED BY <1>4, <2>1, <2>2, <3>1 DEF Show
  <2>3. ASSUME shown' = [shown EXCEPT ![t] = @ \cup {Head(asks[t])}], UNCHANGED <<bridgeVars, histVars>>
        PROVE  TypeOK'
    BY <1>4, <2>1, <2>3 DEF Show
  <2> QED BY <1>4, <2>1, <2>2, <2>3 DEF Show
<1> QED BY <1>1, <1>2, <1>3, <1>4

LEMMA AnswerTypes ==
  ASSUME TypeOK, NEW t \in Tabs, NEW r \in Requests, NEW d \in {"allow", "deny"}, Answer(t, r, d)
  PROVE  TypeOK'
BY DEF Answer, Resolve, Recorded, TypeOK, Decision, hookVars, bridgeVars, subVars, histVars

LEMMA TypeStep == TypeOK /\ [Next]_vars => TypeOK'
<1> SUFFICES ASSUME TypeOK, [Next]_vars PROVE TypeOK'
  OBVIOUS
<1>1. CASE SetBypass \/ CloseSession
  BY <1>1 DEF TypeOK, SetBypass, CloseSession, hookVars, bridgeVars, subVars, tabVars, histVars
<1>2. CASE UNCHANGED vars
  BY <1>2 DEF TypeOK, vars, hookVars, bridgeVars, subVars, tabVars, histVars
<1> QED BY <1>1, <1>2, HookTypes, TabTypes, AnswerTypes DEF Next

\* Every variable keeps its type (all of Approvals).
THEOREM TypeCorrect == Spec => []TypeOK
BY TypeInit, TypeStep, PTL DEF Spec

-----------------------------------------------------------------------------
(* Subscriptions (SubscribeAsks, dispatcher.go) *)

SubInv == SubIsLive /\ \A t \in Tabs : conn[t] = "off" => t \notin shut

LEMMA SubStep == TypeOK /\ SubInv /\ [Next]_vars => SubInv'
<1> SUFFICES ASSUME TypeOK, SubInv, [Next]_vars PROVE SubInv'
  OBVIOUS
<1> USE DEF SubInv, SubIsLive
<1>1. CASE \E t \in Tabs : Connect(t)
  \* The new tab is the subscription, and the channel of the one before is closed.
  <2>1. PICK t \in Tabs : Connect(t)
    BY <1>1
  <2>2. t \notin shut' /\ conn'[t] = "on"
    BY <2>1, ApprovalsAssumption DEF Connect, TypeOK
  <2>3. sub' = t /\ t # sub
    BY <2>1, ApprovalsAssumption DEF Connect
  <2>4. ASSUME NEW u \in Tabs, u # t
        PROVE  /\ conn'[u] # "off" => u \in shut'
               /\ conn'[u] = "off" => u \notin shut'
    BY <2>1, <2>4, ApprovalsAssumption DEF Connect, TypeOK
  <2> QED BY <2>2, <2>3, <2>4
<1>2. CASE \E t \in Tabs : Disconnect(t)
  <2>1. PICK t \in Tabs : Disconnect(t)
    BY <1>2
  <2>2. CASE sub = t
    BY <2>1, <2>2, ApprovalsAssumption DEF Disconnect, TypeOK
  <2>3. CASE sub # t
    BY <2>1, <2>3 DEF Disconnect, TypeOK, subVars
  <2> QED BY <2>2, <2>3
<1>3. CASE UNCHANGED <<conn, subVars>>
  BY <1>3 DEF subVars
<1>4. ASSUME NEW r \in Requests, Post(r) \/ HandleAsk(r) \/ HangUp(r)
      PROVE  UNCHANGED <<conn, subVars>>
  BY <1>4 DEF Post, HandleAsk, OnAsk, Lookup, Rules, Route, Send, Decided, Expire, GiveUp, HangUp,
     tabVars, subVars
<1>5. ASSUME NEW t \in Tabs, Forward(t) \/ Show(t) PROVE UNCHANGED <<conn, subVars>>
  BY <1>5 DEF Forward, Show
<1>6. ASSUME NEW t \in Tabs, NEW r \in Requests, NEW d \in {"allow", "deny"}, Answer(t, r, d)
      PROVE  UNCHANGED <<conn, subVars>>
  BY <1>6 DEF Answer
<1>7. CASE SetBypass \/ CloseSession \/ UNCHANGED vars
  BY <1>3, <1>7 DEF SetBypass, CloseSession, vars, tabVars
<1> QED BY <1>1, <1>2, <1>3, <1>4, <1>5, <1>6, <1>7 DEF Next

\* However many tabs take a session over from each other, the one subscribed is
\* connected with an open channel, and every other channel is closed.
THEOREM SubCorrect == Spec => []SubIsLive
<1>1. Init => SubInv
  BY DEF Init, SubInv, SubIsLive
<1>2. SubInv => SubIsLive
  BY DEF SubInv
<1> QED BY <1>1, <1>2, TypeCorrect, SubStep, PTL DEF Spec

-----------------------------------------------------------------------------
(* Verdicts (handleAsk, bridge.go) *)

\* What is in a queue.
Queued(q) == {q[i] : i \in 1..Len(q)}

\* Only what was asked is sent to a tab, and an allowance on its way to the hook
\* has consent behind it.
GateInv ==
  \A r \in Requests :
    /\ At(r, "new") => \A t \in Tabs : r \notin shown[t] \cup Queued(chan[t]) \cup Queued(asks[t])
    /\ resolved[r] = "allow" => r \in consent

\* A request nobody has answered has no verdict, and the only answer given by a
\* person is the one on its way to the hook.
LoneInv ==
  \A r \in Requests :
    /\ answers[r] = 0 => card[r] = None /\ resolved[r] = None /\ verdict[r] \notin Decision
    /\ answers[r] = 1 /\ card[r] # None => /\ resolved[r] \in {None, card[r]}
                                           /\ verdict[r] \in Decision => verdict[r] = card[r]

VInv == TypeOK /\ GateInv /\ LoneInv

LEMMA VInit == Init => VInv
<1> SUFFICES ASSUME Init PROVE GateInv /\ LoneInv
  BY TypeInit DEF VInv
<1> QED BY ApprovalsAssumption DEF Init, GateInv, LoneInv, At, Queued, Decision

LEMMA QueueFacts ==
  /\ \A S : \A q \in Seq(S), r \in S : Queued(Append(q, r)) = Queued(q) \cup {r}
  /\ \A S : \A q \in Seq(S) : q # <<>> => /\ Queued(q) = Queued(Tail(q)) \cup {Head(q)}
                                          /\ Head(q) \in S
  /\ Queued(<<>>) = {}
<1>1. ASSUME NEW S, NEW q \in Seq(S), NEW r \in S PROVE Queued(Append(q, r)) = Queued(q) \cup {r}
  <2>1. \A i \in 1..Len(q) : Append(q, r)[i] = q[i]
    OBVIOUS
  <2>2. Len(Append(q, r)) = Len(q) + 1 /\ Append(q, r)[Len(q) + 1] = r /\ Len(q) \in Nat
    OBVIOUS
  <2> QED BY <2>1, <2>2 DEF Queued
<1>2. ASSUME NEW S, NEW q \in Seq(S), q # <<>>
      PROVE  Queued(q) = Queued(Tail(q)) \cup {Head(q)} /\ Head(q) \in S
  <2>1. Len(q) \in Nat /\ Len(q) >= 1 /\ Head(q) = q[1] /\ Len(Tail(q)) = Len(q) - 1
    BY <1>2
  <2>2. \A i \in 1..Len(q) - 1 : Tail(q)[i] = q[i + 1]
    BY <1>2
  <2>3. \A i \in 1..Len(q) : i = 1 \/ i - 1 \in 1..Len(q) - 1
    BY <2>1
  <2>4. ASSUME NEW i \in 1..Len(q) PROVE q[i] \in Queued(Tail(q)) \cup {Head(q)}
    <3>1. CASE i = 1
      BY <2>1, <3>1
    <3>2. CASE i # 1
      <4>1. i - 1 \in 1..Len(q) - 1 /\ Tail(q)[i - 1] = q[i]
        BY <2>1, <2>2, <3>2
      <4> QED BY <2>1, <4>1 DEF Queued
    <3> QED BY <3>1, <3>2
  <2>5. \A x : x \in Queued(Tail(q)) \cup {Head(q)} => x \in Queued(q)
    BY <2>1, <2>2 DEF Queued
  <2> QED BY <1>2, <2>1, <2>4, <2>5 DEF Queued
<1>3. Queued(<<>>) = {}
  BY DEF Queued
<1> QED BY <1>1, <1>2, <1>3

\* An answer, whoever gives it, to a request that was asked.
LEMMA ResolveInv ==
  ASSUME VInv, NEW r \in Requests, NEW d \in Decision, Resolve(r, d), ~At(r, "new"),
         d = "allow" => r \in consent', consent \subseteq consent',
         card' = card \/ card' = [card EXCEPT ![r] = d], verdict' = verdict
  PROVE  LoneInv' /\ \A q \in Requests : resolved'[q] = "allow" => q \in consent'
<1> USE DEF VInv, TypeOK, Resolve
<1>1. \A q \in Requests : resolved'[q] = "allow" => q \in consent'
  BY ApprovalsAssumption DEF GateInv, Decision
<1>2. ASSUME NEW q \in Requests, q # r
      PROVE  /\ answers'[q] = answers[q] /\ resolved'[q] = resolved[q]
             /\ card'[q] = card[q] /\ verdict'[q] = verdict[q]
  BY <1>2
<1>3. answers'[r] # 0 /\ (answers'[r] = 1 => answers[r] = 0)
  OBVIOUS
<1>4. answers'[r] = 1 /\ card'[r] # None => /\ resolved'[r] \in {None, card'[r]}
                                            /\ verdict'[r] \notin Decision
  BY <1>3 DEF LoneInv
<1> QED BY <1>1, <1>2, <1>3, <1>4 DEF LoneInv

\* Steps of a handler: the dispatcher answers or sends it to a tab, ...
LEMMA OnAskInv ==
  ASSUME VInv, NEW r \in Requests, Post(r) \/ OnAsk(r) PROVE GateInv' /\ LoneInv'
<1> USE DEF VInv, At, GoTo, Step, tabVars, bridgeVars, histVars
<1>1. TypeOK'
  BY HookTypes DEF HandleAsk
<1>2. \A q \in Requests : hpc'[q] = "new" => hpc[q] = "new" /\ q # r
  BY DEF TypeOK, Post, OnAsk, Lookup, Rules, Route, Send, AutoAllow, AutoDeny
<1>3. ASSUME AutoAllow(r) \/ AutoDeny(r), ~At(r, "new"), UNCHANGED <<card, verdict>>
      PROVE  LoneInv' /\ \A q \in Requests : resolved'[q] = "allow" => q \in consent'
  BY <1>3, ResolveInv DEF AutoAllow, AutoDeny, Decision, TypeOK
<1>4. ASSUME UNCHANGED <<resolved, consent, answers, card, verdict>>
      PROVE  LoneInv' /\ \A q \in Requests : resolved'[q] = "allow" => q \in consent'
  BY <1>4 DEF LoneInv, GateInv
<1>5. ASSUME UNCHANGED <<shown, chan, asks>>
      PROVE  \A q \in Requests : hpc'[q] = "new" =>
               \A t \in Tabs : q \notin shown'[t] \cup Queued(chan'[t]) \cup Queued(asks'[t])
  BY <1>2, <1>5 DEF GateInv
<1>6. CASE Post(r)
  BY <1>4, <1>5, <1>6 DEF Post, GateInv
<1>7. CASE Lookup(r)
  BY <1>3, <1>4, <1>5, <1>7 DEF Lookup, GateInv
<1>8. CASE Rules(r)
  BY <1>3, <1>4, <1>5, <1>8 DEF Rules, GateInv
<1>9. CASE Route(r)
  BY <1>3, <1>4, <1>5, <1>9 DEF Route, GateInv
<1>10. CASE Send(r)
  <2>1. ASSUME GoTo(r, "done"), verdict' = [verdict EXCEPT ![r] = "none"],
               UNCHANGED <<chan, bridgeVars, histVars>>
        PROVE  GateInv' /\ LoneInv'
    <3>1. LoneInv'
      BY <1>10, <2>1 DEF Send, LoneInv, TypeOK, Decision
    <3> QED BY <1>5, <1>10, <2>1, <3>1 DEF Send, GateInv
  <2>2. ASSUME AutoDeny(r), UNCHANGED <<chan, verdict>> PROVE GateInv' /\ LoneInv'
    BY <1>3, <1>5, <1>10, <2>2 DEF Send, GateInv
  <2>3. ASSUME target[r] \notin shut, chan' = [chan EXCEPT ![target[r]] = Append(@, r)],
               UNCHANGED <<verdict, bridgeVars, histVars>>
        PROVE  GateInv' /\ LoneInv'
    <3>1. ASSUME NEW t \in Tabs PROVE Queued(chan'[t]) \subseteq Queued(chan[t]) \cup {r}
      BY <2>3, QueueFacts DEF TypeOK
    <3>2. \A q \in Requests : hpc'[q] = "new" =>
            \A t \in Tabs : q \notin shown'[t] \cup Queued(chan'[t]) \cup Queued(asks'[t])
      BY <1>2, <1>10, <3>1 DEF Send, GateInv
    <3> QED BY <1>4, <1>10, <2>3, <3>2 DEF Send, GateInv
  <2> QED BY <1>10, <2>1, <2>2, <2>3 DEF Send
<1> QED BY <1>6, <1>7, <1>8, <1>9, <1>10 DEF OnAsk

\* ... and it ends.
LEMMA EndInv ==
  ASSUME VInv, NEW r \in Requests, Decided(r) \/ Expire(r) \/ GiveUp(r) \/ HangUp(r)
  PROVE  GateInv' /\ LoneInv'
<1> USE DEF VInv, At, GoTo, Step, tabVars, bridgeVars, histVars
<1>1. \A q \in Requests : hpc'[q] = "new" => hpc[q] = "new"
  BY DEF TypeOK, Decided, Expire, GiveUp, HangUp, Finish
<1>2. \A q \in Requests : resolved'[q] \in {resolved[q], None}
  BY DEF TypeOK, Decided, Expire, GiveUp, HangUp
<1>3. GateInv'
  BY <1>1, <1>2, ApprovalsAssumption DEF GateInv, Decided, Expire, GiveUp, HangUp
<1>4. ASSUME NEW q \in Requests, q # r
      PROVE  resolved'[q] = resolved[q] /\ verdict'[q] = verdict[q]
  BY <1>4 DEF TypeOK, Decided, Expire, GiveUp, HangUp, Finish
<1>5. \/ verdict'[r] = verdict[r] /\ resolved'[r] = resolved[r]
      \/ verdict'[r] = resolved[r] /\ resolved[r] # None /\ resolved'[r] = None
      \/ verdict'[r] \notin Decision /\ resolved'[r] = None
  BY DEF TypeOK, Decided, Expire, GiveUp, HangUp, Finish, Decision
<1>6. UNCHANGED <<answers, card>>
  BY DEF Decided, Expire, GiveUp, HangUp
<1>7. LoneInv'
  BY <1>4, <1>5, <1>6 DEF LoneInv
<1> QED BY <1>3, <1>7

LEMMA TabInv ==
  ASSUME VInv, NEW t \in Tabs, Connect(t) \/ Disconnect(t) \/ Forward(t) \/ Show(t)
  PROVE  GateInv' /\ LoneInv'
<1> USE DEF VInv, At, hookVars, bridgeVars, histVars
<1>1. CASE Connect(t)
  BY <1>1 DEF Connect, GateInv, LoneInv
<1>2. CASE Disconnect(t)
  <2>1. \A u \in Tabs : /\ chan'[u] \in {chan[u], <<>>} /\ asks'[u] \in {asks[u], <<>>}
                        /\ shown'[u] \in {shown[u], {}}
    BY <1>2 DEF Disconnect, TypeOK
  <2> QED BY <1>2, <2>1, QueueFacts DEF Disconnect, GateInv, LoneInv
<1>3. CASE Forward(t)
  <2>1. /\ Queued(chan[t]) = Queued(Tail(chan[t])) \cup {Head(chan[t])}
        /\ Queued(Append(asks[t], Head(chan[t]))) = Queued(asks[t]) \cup {Head(chan[t])}
    BY <1>3, QueueFacts DEF Forward, TypeOK
  <2>2. \A u \in Tabs : Queued(chan'[u]) \cup Queued(asks'[u]) \subseteq Queued(chan[u]) \cup Queued(asks[u])
    BY <1>3, <2>1 DEF Forward, TypeOK
  <2> QED BY <1>3, <2>2 DEF Forward, GateInv, LoneInv
<1>4. CASE Show(t)
  <2>1. Queued(asks[t]) = Queued(Tail(asks[t])) \cup {Head(asks[t])} /\ Head(asks[t]) \in Requests
    BY <1>4, QueueFacts DEF Show, TypeOK
  <2>2. \A u \in Tabs : shown'[u] \cup Queued(asks'[u]) \subseteq shown[u] \cup Queued(asks[u])
    BY <1>4, <2>1 DEF Show, TypeOK
  <2>3. ~At(Head(asks[t]), "new")
    BY <2>1 DEF GateInv
  <2>4. CASE session = "open"
    BY <1>4, <2>2, <2>4 DEF Show, GateInv, LoneInv
  <2>5. CASE session # "open"
    <3>1. LoneInv' /\ \A q \in Requests : resolved'[q] = "allow" => q \in consent'
      BY <1>4, <2>1, <2>3, <2>5, ResolveInv DEF Show, Decision
    <3> QED BY <1>4, <2>2, <3>1 DEF Show, GateInv
  <2> QED BY <2>4, <2>5
<1> QED BY <1>1, <1>2, <1>3, <1>4

LEMMA AnswerInv ==
  ASSUME VInv, NEW t \in Tabs, NEW r \in Requests, NEW d \in {"allow", "deny"}, Answer(t, r, d)
  PROVE  GateInv' /\ LoneInv'
<1> USE DEF VInv, At, hookVars
<1>1. ~At(r, "new")
  BY DEF Answer, GateInv
<1>2. LoneInv' /\ \A q \in Requests : resolved'[q] = "allow" => q \in consent'
  BY <1>1, ResolveInv DEF Answer, Recorded, Decision
<1>3. \A u \in Tabs : shown'[u] \subseteq shown[u]
  BY DEF Answer, TypeOK
<1> QED BY <1>2, <1>3 DEF Answer, GateInv

LEMMA VStep == VInv /\ [Next]_vars => VInv'
<1> SUFFICES ASSUME VInv, [Next]_vars PROVE VInv'
  OBVIOUS
<1>1. ASSUME SetBypass \/ CloseSession \/ UNCHANGED vars PROVE GateInv' /\ LoneInv'
  <2>1. UNCHANGED <<hookVars, bridgeVars, tabVars, card, histVars>>
    BY <1>1 DEF SetBypass, CloseSession, vars
  <2> QED BY <2>1 DEF VInv, GateInv, LoneInv, At, hookVars, bridgeVars, tabVars, histVars
<1>2. GateInv' /\ LoneInv'
  BY <1>1, OnAskInv, EndInv, TabInv, AnswerInv DEF Next, HandleAsk, VInv
<1> QED BY <1>2, TypeStep DEF VInv

LEMMA VCorrect == Spec => []VInv
BY VInit, VStep, PTL DEF Spec

\* One answer, by one person and in time, is the verdict (handleToolDecision,
\* Bridge.Resolve).
THEOREM LoneCorrect == Spec => []LoneAnswerIsObeyed
<1>1. VInv => LoneAnswerIsObeyed
  BY DEF VInv, LoneInv, LoneAnswerIsObeyed
<1> QED BY <1>1, VCorrect, PTL

-----------------------------------------------------------------------------
(* The bridge implements ToolGate *)

LEMMA GateInit == Init => Gate!Init
BY DEF Init, Gate!Init, Call, Outcome

\* What a handler's step does to its call.
LEMMA CallStep ==
  ASSUME TypeOK, NEW r \in Requests, NEW p, NEW v,
         hpc' = [hpc EXCEPT ![r] = p], verdict' = [verdict EXCEPT ![r] = v]
  PROVE  Call' = [Call EXCEPT ![r] = Outcome(p, v)]
<1>1. \A q \in Requests : Outcome(hpc'[q], verdict'[q]) = [Call EXCEPT ![r] = Outcome(p, v)][q]
  <2>1. /\ hpc'[r] = p /\ verdict'[r] = v
        /\ \A q \in Requests : q # r => hpc'[q] = hpc[q] /\ verdict'[q] = verdict[q]
    BY DEF TypeOK
  <2> QED BY <2>1 DEF Call
<1> QED BY <1>1 DEF Call

LEMMA GateStep == VInv /\ [Next]_vars => [Gate!Next]_Gate!vars
<1> SUFFICES ASSUME VInv, [Next]_vars PROVE [Gate!Next]_Gate!vars
  OBVIOUS
<1> USE DEF VInv, GoTo, Step
<1>1. UNCHANGED <<hpc, verdict>> => Call' = Call
  BY DEF Call
<1>2. ASSUME NEW r \in Requests, Post(r) PROVE Gate!Ask(r)
  <2>1. verdict' = [verdict EXCEPT ![r] = verdict[r]] /\ Call[r] = "new" /\ UNCHANGED consent
    BY <1>2 DEF Post, Call, Outcome, At, TypeOK, histVars
  <2>2. Call' = [Call EXCEPT ![r] = "asked"]
    BY <1>2, <2>1, CallStep DEF Post, Outcome
  <2> QED BY <2>1, <2>2 DEF Gate!Ask
<1>3. ASSUME NEW r \in Requests, hpc[r] \notin {"new", "done"}, UNCHANGED verdict,
             \E p \in {"rules", "route", "send", "wait", "expired", "hungup"} : hpc' = [hpc EXCEPT ![r] = p]
      PROVE  Call' = Call
  BY <1>3 DEF Call, Outcome, TypeOK
<1>4. ASSUME NEW r \in Requests, OnAsk(r) \/ Expire(r) \/ HangUp(r)
      PROVE  Gate!Consent(r) \/ Gate!Refuse(r) \/ UNCHANGED Gate!vars
  <2>1. CASE Call' = Call /\ consent' \in {consent, consent \cup {r}} /\ hpc[r] \notin {"new", "done"}
    BY <2>1 DEF Gate!Consent, Gate!vars, Call, Outcome
  <2>2. CASE hpc[r] = "send" /\ GoTo(r, "done") /\ verdict' = [verdict EXCEPT ![r] = "none"]
             /\ UNCHANGED consent
    <3>1. Call' = [Call EXCEPT ![r] = "none"]
      BY <2>2, CallStep DEF Outcome
    <3> QED BY <2>2, <3>1 DEF Gate!Refuse, Call, Outcome
  <2> QED BY <1>3, <1>4, <2>1, <2>2 DEF OnAsk, Lookup, Rules, Route, Send, AutoAllow, AutoDeny,
             Expire, HangUp, At, histVars
<1>5. ASSUME NEW r \in Requests, Decided(r) PROVE Gate!Allow(r) \/ Gate!Refuse(r)
  <2>1. resolved[r] \in Decision /\ (resolved[r] = "allow" => r \in consent)
    BY <1>5 DEF Decided, TypeOK, GateInv
  <2>2. Call[r] = "asked" /\ UNCHANGED consent
    BY <1>5 DEF Decided, Call, Outcome, At, histVars
  <2>3. Call' = [Call EXCEPT ![r] = Outcome("done", resolved[r])]
    BY <1>5, CallStep DEF Decided, Finish
  <2> QED BY <2>1, <2>2, <2>3 DEF Gate!Allow, Gate!Refuse, Decision, Outcome
<1>6. ASSUME NEW r \in Requests, GiveUp(r) PROVE Gate!Refuse(r)
  <2>1. Call[r] = "asked" /\ UNCHANGED consent
    BY <1>6 DEF GiveUp, Call, Outcome, At, histVars
  <2>2. PICK v \in {"timeout", "none"} : Call' = [Call EXCEPT ![r] = Outcome("done", v)]
    BY <1>6, CallStep DEF GiveUp, Finish
  <2> QED BY <2>1, <2>2 DEF Gate!Refuse, Outcome
<1>7. ASSUME NEW t \in Tabs, NEW r \in Requests, NEW d \in {"allow", "deny"}, Answer(t, r, d)
      PROVE  Gate!Consent(r) \/ UNCHANGED Gate!vars
  <2>1. Call' = Call /\ Call[r] # "new"
    <3>1. UNCHANGED <<hpc, verdict>> /\ hpc[r] # "new"
      BY <1>7 DEF Answer, GateInv, At, hookVars
    <3>2. verdict[r] # "new"
      BY ApprovalsAssumption DEF TypeOK, Decision
    <3> QED BY <1>1, <3>1, <3>2 DEF Call, Outcome
  <2> QED BY <1>7, <2>1 DEF Answer, Gate!Consent, Gate!vars
<1>8. CASE SetBypass \/ CloseSession \/ UNCHANGED vars
  BY <1>1, <1>8 DEF SetBypass, CloseSession, vars, hookVars, histVars, Gate!vars
<1>9. ASSUME NEW t \in Tabs, Connect(t) \/ Disconnect(t) \/ Forward(t) \/ Show(t) PROVE UNCHANGED Gate!vars
  BY <1>1, <1>9 DEF Connect, Disconnect, Forward, Show, hookVars, histVars, Gate!vars
<1> QED BY <1>2, <1>4, <1>5, <1>6, <1>7, <1>8, <1>9 DEF Next, HandleAsk, Gate!Next

\* The bridge and the dispatcher implement ToolGate: a call ends at most once, and
\* is let through only by the user or a rule.
THEOREM GateCorrect == Spec => RefinesToolGate
BY GateInit, GateStep, VCorrect, PTL DEF Spec, RefinesToolGate, Gate!Spec

=============================================================================
