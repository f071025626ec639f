----------------------------- MODULE Approvals -----------------------------
(***************************************************************************)
(* Tool approvals: the PreToolUse hook of a claude process posts a tool    *)
(* call to the bridge (internal/claude/bridge.go), the dispatcher          *)
(* (dispatcher.go) answers it by rule or sends it to the one browser tab   *)
(* subscribed to the session, the tab's connection loop (internal/api/     *)
(* ws.go) shows it, and an answer, a timeout or a hang-up ends it.         *)
(*                                                                         *)
(* One Alfred session.  Each request is an HTTP handler goroutine; each    *)
(* tab is one WebSocket connection with its dispatcher channel, the        *)
(* forwardAsks goroutine and the main select loop.                         *)
(***************************************************************************)
EXTENDS Naturals, Sequences, FiniteSets

CONSTANTS
  Requests, \* tool calls (distinct tool_use_ids) posted by hooks
  Tabs,     \* WebSocket connections
  ChanCap,  \* buffer of a dispatcher channel (4)
  AsksCap,  \* what forwardAsks takes off it: the asks buffer (16) and its own hand
  None

ASSUME ApprovalsAssumption ==
  /\ ChanCap \in Nat \ {0} /\ AsksCap \in Nat \ {0}
  /\ None \notin Tabs \cup {"new", "allow", "deny"}

VARIABLES
  session,  \* does the Alfred session exist: "open" or "closed"
  policy,   \* "ask", "bypass" (ClaudeBypass) or "recap" (KindRecap)
  hpc,      \* each handler's place in handleAsk and the onAsk callback
  tool,     \* what is called, see Kinds
  target,   \* the tab whose channel onAsk has taken out of d.subs
  pending,  \* Bridge.pending
  resolved, \* each request's buffered channel of one Decision
  verdict,  \* what the hook was answered: a decision, "timeout" (a denial that says
            \* so), or "none" when its connection just ended
  sub,      \* Dispatcher.subs of the session: a tab or None
  shut,     \* the tabs whose dispatcher channel is closed
  conn,     \* each connection: "off", "on" or "gone"
  chan,     \* each tab's dispatcher channel
  asks,     \* each tab's asks channel
  shown,    \* the approval cards each tab displays
  card,     \* Decision recorded on the tool block of the claude state
  consent,  \* history: requests allowed by an answer or exempt by a rule
  answers   \* history: how often a request was answered, by a person or the server

hookVars == <<hpc, tool, target, verdict>>
bridgeVars == <<pending, resolved>>
subVars == <<sub, shut>>
tabVars == <<conn, chan, asks, shown>>
histVars == <<consent, answers>>
vars == <<session, policy, hookVars, bridgeVars, subVars, tabVars, card, histVars>>

\* An AskUserQuestion, a Read or small Write of the summary or of a recap file,
\* or anything else.
Kinds == {"question", "summary", "recap", "plain"}

At(r, p) == hpc[r] = p
GoTo(r, p) == hpc' = [hpc EXCEPT ![r] = p]
Step(r, p, q) == At(r, p) /\ GoTo(r, q)

\* Resolve(toolUseID, d): only the caller that removes the entry delivers.
Resolve(r, d) ==
  /\ pending' = pending \ {r}
  /\ resolved' = [resolved EXCEPT ![r] = IF r \in pending THEN d ELSE @]
  /\ answers' = [answers EXCEPT ![r] = IF @ < 2 THEN @ + 1 ELSE @]

-----------------------------------------------------------------------------
(* The bridge's HTTP handler and the dispatcher's onAsk callback *)

\* handleAsk registers the request ...
Post(r) ==
  /\ Step(r, "new", "lookup")
  /\ \E k \in Kinds : tool' = [tool EXCEPT ![r] = k]
  /\ pending' = pending \cup {r}
  /\ UNCHANGED <<session, policy, target, verdict, resolved, subVars, tabVars, card, histVars>>

AutoAllow(r) == GoTo(r, "wait") /\ Resolve(r, "allow") /\ consent' = consent \cup {r}
AutoDeny(r)  == GoTo(r, "wait") /\ Resolve(r, "deny") /\ UNCHANGED consent

\* ... and calls onAsk: no session has this conversation, let it through; ...
Lookup(r) ==
  /\ At(r, "lookup")
  /\ IF session = "closed" THEN AutoAllow(r)
     ELSE GoTo(r, "rules") /\ UNCHANGED <<bridgeVars, histVars>>
  /\ UNCHANGED <<session, policy, tool, target, verdict, subVars, tabVars, card>>

IsSummaryIO(r) == tool[r] = "summary"
IsRecapIO(r)   == tool[r] = "recap"

\* The recap and bypass exemptions look the session up again.
Exempt(r) ==
  \/ tool[r] # "question" /\ policy \in {"recap", "bypass"} /\ session = "open"
  \/ IsSummaryIO(r) \/ IsRecapIO(r)

\* ... the rules that let a call through without asking (what is called has no
\* influence from here on); ...
Rules(r) ==
  /\ At(r, "rules")
  /\ IF Exempt(r) THEN AutoAllow(r)
     ELSE GoTo(r, "route") /\ UNCHANGED <<bridgeVars, histVars>>
  /\ tool' = [tool EXCEPT ![r] = "plain"]
  /\ UNCHANGED <<session, policy, target, verdict, subVars, tabVars, card>>

\* ... the subscription is read under the lock, ...
Route(r) ==
  /\ At(r, "route")
  /\ IF sub = None THEN AutoDeny(r) /\ UNCHANGED target
     ELSE /\ GoTo(r, "send") /\ target' = [target EXCEPT ![r] = sub]
          /\ UNCHANGED <<bridgeVars, histVars>>
  /\ UNCHANGED <<session, policy, tool, verdict, subVars, tabVars, card>>

\* ... and used after it: the send panics if the channel was closed since then
\* (net/http recovers, drops the connection, and the entry stays in pending).
Send(r) ==
  /\ At(r, "send")
  /\ LET t == target[r] IN
     \/ /\ t \in shut
        /\ GoTo(r, "done") /\ verdict' = [verdict EXCEPT ![r] = "none"]
        /\ UNCHANGED <<chan, bridgeVars, histVars>>
     \/ /\ t \notin shut /\ Len(chan[t]) < ChanCap
        /\ GoTo(r, "wait") /\ chan' = [chan EXCEPT ![t] = Append(@, r)]
        /\ UNCHANGED <<verdict, bridgeVars, histVars>>
     \/ /\ t \notin shut /\ Len(chan[t]) >= ChanCap
        /\ AutoDeny(r) /\ UNCHANGED <<chan, verdict>>
  /\ target' = [target EXCEPT ![r] = None]
  /\ UNCHANGED <<session, policy, tool, subVars, conn, asks, shown, card>>

Finish(r, v) == GoTo(r, "done") /\ verdict' = [verdict EXCEPT ![r] = v]

\* handleAsk's select takes any ready case: the decision, ...
Decided(r) ==
  /\ At(r, "wait") /\ resolved[r] # None /\ Finish(r, resolved[r])
  /\ resolved' = [resolved EXCEPT ![r] = None]
  /\ UNCHANGED <<session, policy, tool, target, pending, subVars, tabVars, card, histVars>>

\* Deviation: no timer.
ExpireNever(r) ==
  /\ Step(r, "wait", "expired") /\ resolved[r] # None
  /\ UNCHANGED <<session, policy, tool, target, verdict, bridgeVars, subVars, tabVars, card, histVars>>

\* ... the AskTimeout timer, or the end of the hook's connection.
Expire(r) ==
  /\ Step(r, "wait", "expired")
  /\ UNCHANGED <<session, policy, tool, target, verdict, bridgeVars, subVars, tabVars, card, histVars>>

HangUp(r) ==
  /\ Step(r, "wait", "hungup")
  /\ UNCHANGED <<session, policy, tool, target, verdict, bridgeVars, subVars, tabVars, card, histVars>>

\* Deviation: a timeout lets the call through.
GiveUpOpen(r) ==
  /\ \/ At(r, "expired") /\ Finish(r, "allow")
     \/ At(r, "hungup") /\ Finish(r, "none")
  /\ pending' = pending \ {r} /\ resolved' = [resolved EXCEPT ![r] = None]
  /\ UNCHANGED <<session, policy, tool, target, subVars, tabVars, card, histVars>>

\* Both forget the request, whether or not somebody has resolved it meanwhile.
GiveUp(r) ==
  /\ \/ At(r, "expired") /\ Finish(r, "timeout")
     \/ At(r, "hungup") /\ Finish(r, "none")
  /\ pending' = pending \ {r} /\ resolved' = [resolved EXCEPT ![r] = None]
  /\ UNCHANGED <<session, policy, tool, target, subVars, tabVars, card, histVars>>

-----------------------------------------------------------------------------
(* The browser tabs *)

\* Deviation: the previous channel stays open.
ConnectBeside(t) ==
  /\ conn[t] = "off" /\ session = "open"
  /\ conn' = [conn EXCEPT ![t] = "on"]
  /\ sub' = t
  /\ UNCHANGED <<session, policy, hookVars, bridgeVars, shut, chan, asks, shown, card, histVars>>

\* SubscribeAsks: the new channel takes over, the previous one is closed.
Connect(t) ==
  /\ conn[t] = "off" /\ session = "open"
  /\ conn' = [conn EXCEPT ![t] = "on"]
  /\ sub' = t /\ shut' = shut \cup ({sub} \ {None})
  /\ UNCHANGED <<session, policy, hookVars, bridgeVars, chan, asks, shown, card, histVars>>

\* The loop returns: unsubscribe (unless taken over), stop forwardAsks.
Disconnect(t) ==
  /\ conn[t] = "on"
  /\ conn' = [conn EXCEPT ![t] = "gone"]
  /\ IF sub = t THEN sub' = None /\ shut' = shut \cup {t} ELSE UNCHANGED subVars
  /\ chan' = [chan EXCEPT ![t] = <<>>] /\ asks' = [asks EXCEPT ![t] = <<>>]
  /\ shown' = [shown EXCEPT ![t] = {}]
  /\ UNCHANGED <<session, policy, hookVars, bridgeVars, card, histVars>>

\* Deviation: forwardAsks stops as soon as the channel is closed.
ForwardWhileOpen(t) ==
  /\ conn[t] = "on" /\ chan[t] # <<>> /\ Len(asks[t]) < AsksCap /\ t \notin shut
  /\ asks' = [asks EXCEPT ![t] = Append(@, Head(chan[t]))]
  /\ chan' = [chan EXCEPT ![t] = Tail(@)]
  /\ UNCHANGED <<session, policy, hookVars, bridgeVars, subVars, conn, shown, card, histVars>>

\* forwardAsks drains the channel, also after it was closed.
Forward(t) ==
  /\ conn[t] = "on" /\ chan[t] # <<>> /\ Len(asks[t]) < AsksCap
  /\ asks' = [asks EXCEPT ![t] = Append(@, Head(chan[t]))]
  /\ chan' = [chan EXCEPT ![t] = Tail(@)]
  /\ UNCHANGED <<session, policy, hookVars, bridgeVars, subVars, conn, shown, card, histVars>>

\* The main loop shows the card, or denies if the session has vanished.
Show(t) ==
  /\ conn[t] = "on" /\ asks[t] # <<>>
  /\ LET r == Head(asks[t]) IN
     IF session = "open"
     THEN shown' = [shown EXCEPT ![t] = @ \cup {r}] /\ UNCHANGED <<bridgeVars, histVars>>
     ELSE Resolve(r, "deny") /\ UNCHANGED <<shown, consent>>
  /\ asks' = [asks EXCEPT ![t] = Tail(@)]
  /\ UNCHANGED <<session, policy, hookVars, subVars, conn, chan, card>>

\* dispatchToolDecision: the claude state records the answer, in time or not.
Recorded(r, d) == card' = [card EXCEPT ![r] = d]

\* Deviation: the frame's decision does not reach the bridge.
AnswerAllows(t, r, d) ==
  /\ conn[t] = "on" /\ r \in shown[t]
  /\ Resolve(r, "allow") /\ consent' = IF d = "allow" THEN consent \cup {r} ELSE consent
  /\ Recorded(r, d)
  /\ shown' = [shown EXCEPT ![t] = @ \ {r}]
  /\ UNCHANGED <<session, policy, hookVars, subVars, conn, chan, asks>>

\* A tool_decision frame: handleToolDecision ignores what Resolve returns.
Answer(t, r, d) ==
  /\ conn[t] = "on" /\ r \in shown[t]
  /\ Resolve(r, d) /\ consent' = IF d = "allow" THEN consent \cup {r} ELSE consent
  /\ Recorded(r, d)
  /\ shown' = [shown EXCEPT ![t] = @ \ {r}]
  /\ UNCHANGED <<session, policy, hookVars, subVars, conn, chan, asks>>

\* enter_claude sets the bypass flag; Manager.Close removes the session.
SetBypass ==
  /\ policy # "recap" /\ policy' = IF policy = "ask" THEN "bypass" ELSE "ask"
  /\ session = "open"
  /\ UNCHANGED <<session, hookVars, bridgeVars, subVars, tabVars, card, histVars>>

CloseSession ==
  /\ session = "open" /\ session' = "closed" /\ policy' = "ask"
  /\ UNCHANGED <<hookVars, bridgeVars, subVars, tabVars, card, histVars>>

-----------------------------------------------------------------------------

Init ==
  /\ session = "open" /\ policy \in {"ask", "bypass", "recap"}
  /\ hpc = [r \in Requests |-> "new"] /\ tool = [r \in Requests |-> "plain"]
  /\ target = [r \in Requests |-> None] /\ verdict = [r \in Requests |-> None]
  /\ pending = {} /\ resolved = [r \in Requests |-> None]
  /\ sub = None /\ shut = {}
  /\ conn = [t \in Tabs |-> "off"] /\ shown = [t \in Tabs |-> {}]
  /\ chan = [t \in Tabs |-> <<>>] /\ asks = [t \in Tabs |-> <<>>]
  /\ card = [r \in Requests |-> None]
  /\ consent = {} /\ answers = [r \in Requests |-> 0]

OnAsk(r)     == Lookup(r) \/ Rules(r) \/ Route(r) \/ Send(r)
HandleAsk(r) == OnAsk(r) \/ Decided(r) \/ Expire(r) \/ GiveUp(r)

Next ==
  \/ SetBypass \/ CloseSession
  \/ \E r \in Requests : Post(r) \/ HandleAsk(r) \/ HangUp(r)
  \/ \E t \in Tabs : Connect(t) \/ Disconnect(t) \/ Forward(t) \/ Show(t)
  \/ \E t \in Tabs, r \in Requests, d \in {"allow", "deny"} : Answer(t, r, d)

Spec == Init /\ [][Next]_vars

\* Goroutines are scheduled and AskTimeout passes; people need not do anything.
Progress ==
  \/ \E r \in Requests : HandleAsk(r)
  \/ \E t \in Tabs : Forward(t) \/ Show(t)

FairSpec == Spec /\ WF_vars(Progress)

-----------------------------------------------------------------------------
(* Properties *)

Decision == {"allow", "deny"}

TypeOK ==
  /\ session \in {"open", "closed"} /\ policy \in {"ask", "bypass", "recap"}
  /\ hpc \in [Requests -> {"new", "lookup", "rules", "route", "send", "wait",
                            "expired", "hungup", "done"}]
  /\ tool \in [Requests -> Kinds]
  /\ target \in [Requests -> Tabs \cup {None}]
  /\ pending \subseteq Requests /\ resolved \in [Requests -> Decision \cup {None}]
  /\ verdict \in [Requests -> Decision \cup {"timeout", "none", None}]
  /\ sub \in Tabs \cup {None} /\ shut \subseteq Tabs
  /\ conn \in [Tabs -> {"off", "on", "gone"}] /\ shown \in [Tabs -> SUBSET Requests]
  /\ chan \in [Tabs -> Seq(Requests)] /\ asks \in [Tabs -> Seq(Requests)]
  /\ card \in [Requests -> Decision \cup {None}]
  /\ consent \subseteq Requests /\ answers \in [Requests -> 0..2]

\* A subscription is open and belongs to a live tab; every other tab that ever
\* subscribed has a closed channel, so no request waits in a queue nobody reads.
SubIsLive ==
  /\ sub # None => conn[sub] = "on" /\ sub \notin shut
  /\ \A t \in Tabs : conn[t] # "off" /\ t # sub => t \in shut

\* A request answered once, by one person and in time, ends as that person
\* decided, and the card in the claude state says the same.
LoneAnswerIsObeyed ==
  \A r \in Requests :
    card[r] # None /\ answers[r] = 1 /\ verdict[r] \in Decision => verdict[r] = card[r]

\* What the bridge has done with a call, from its handler's place and verdict.
Outcome(p, v) ==
  IF p = "new" THEN "new"
  ELSE IF p # "done" THEN "asked" ELSE IF v = "timeout" THEN "deny" ELSE v

Call == [r \in Requests |-> Outcome(hpc[r], verdict[r])]

Gate == INSTANCE ToolGate WITH call <- Call

\* Every call ends at most once, and is let through only by consent.
RefinesToolGate == Gate!Spec

\* Every posted call ends: an answer, a rule, the timeout or the hang-up.
EveryAskEnds == \A r \in Requests : At(r, "lookup") ~> At(r, "done")

\* A request sent to a tab is shown there or denied because the session went,
\* unless the tab goes: a takeover by another tab loses nothing.
QueuedIsShown ==
  \A t \in Tabs, r \in Requests :
    (\E i \in 1..Len(chan[t]) : chan[t][i] = r)
      ~> (r \in shown[t] \/ answers[r] > 0 \/ conn[t] = "gone")

=============================================================================
