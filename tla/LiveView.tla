------------------------------ MODULE LiveView ------------------------------
(* The live view of a run or a trigger: events appended to the store, stream  *)
(* wiring (events/wiring/streamWiring.ts), a stream adapter (memory, or the   *)
(* gateway of the Redis adapter; the Postgres one has the same shape), the    *)
(* WebSocket handlers (app/server/api/_flows/ws.ts and _triggers/ws.ts), and  *)
(* the page of one browser (useFlowWebSocket, useTriggerWebSocket,            *)
(* useFlowRunTimeline, useFlowState).                                         *)
(*                                                                            *)
(* A connection is a peer, numbered in order; messages of a peer keep their   *)
(* order each way and are lost when it breaks. A handler of the server is cut *)
(* where it waits for the network: the reply to SUBSCRIBE and the answer of   *)
(* the store. Unsubscribing waits for nothing.                                *)
EXTENDS Integers, Sequences

CONSTANTS Topics,        \* runs (or triggers) a page may show
          Script,        \* Topics -> the events its stream is to get, in order
          Modes,         \* kinds of session: [service, backend, updates, alone], with
                         \* the updates of the statistics (0: no page shows them) and
                         \* whether one server alone has the events of a run
          HistoryLimit,  \* stream.read(..., { limit: 100 })
          MaxRetries,    \* maxRetries of the page
          MaxRequests,   \* times a page subscribes to a topic
          MaxFaults      \* connections broken or refused, restarts of the server

Stats == "stats"         \* the topic of the statistics; a version number each
None == "none"
Keys == Topics \union {Stats}
Peers == 1 .. MaxFaults + 1

ASSUME LiveViewAssumption ==
  /\ Stats \notin Topics /\ None \notin Topics
  /\ Modes \subseteq [service : {"flows", "triggers"}, backend : {"memory", "redis"}, updates : Nat,
                alone : BOOLEAN]
  /\ HistoryLimit \in Nat /\ MaxRetries \in Nat /\ MaxRequests \in Nat /\ MaxFaults \in Nat

VARIABLES
  service, backend, updates, alone,   \* chosen once
  log, pub,            \* per topic, events appended to the store; which are published
  gateway,             \* per topic: [known, live, handles]
  context,             \* per peer: [state, subs], the server's side of it
  tasks,               \* subscribe handlers waiting for the network
  up, down,            \* per peer, messages to the server; to the page
  sock, cur, auto,     \* the page's socket, its peer, whether it reconnects
  retry, timer,
  watching, view,      \* currentSubscription and what its page shows
  stats,               \* [want, pending, on, shown] of the statistics
  raced,               \* a call met a SUBSCRIBE of its topic under way
  requests, faults     \* bounded

vars == <<service, backend, updates, alone, log, pub, gateway, context, tasks, up, down, sock, cur,
          auto, retry, timer, watching, view, stats, raced, requests, faults>>
server == <<gateway, context, tasks, raced>>
page == <<watching, view, stats>>
link == <<sock, cur, auto, retry, timer>>
chosen == <<service, backend, updates, alone>>
bounds == <<requests, faults>>

-----------------------------------------------------------------------------
(* What useFlowState makes of the events of a run with one step and one await *)
Unseen == [flow |-> "running", started |-> FALSE, step |-> None, await |-> None]

ReduceFlow(s, e) ==
  CASE e = "start" -> [s EXCEPT !.flow = "running", !.started = TRUE]
    [] e = "completed" -> [s EXCEPT !.flow = "completed"]
    [] e = "failed" -> [s EXCEPT !.flow = "failed"]
    [] e = "cancel" -> [s EXCEPT !.flow = "canceled"]
    [] e = "stalled" -> [s EXCEPT !.flow = "stalled"]

(* A step that ended is not shown running again by its own step.started.      *)
ReduceStep(s, e) ==
  CASE e = "step.started" ->
         [s EXCEPT !.step = IF @ \in {"completed", "failed", "timeout"} THEN @ ELSE "running"]
    [] e = "step.completed" -> [s EXCEPT !.step = "completed"]
    [] e = "step.failed" -> [s EXCEPT !.step = "failed"]
    [] e = "step.retry" -> [s EXCEPT !.step = "retrying"]

ReduceAwait(s, e) ==
  CASE e = "await.registered" -> [s EXCEPT !.await = "waiting"]
    [] e = "await.resolved" -> [s EXCEPT !.await = "completed"]
    [] e = "await.timeout" -> [s EXCEPT !.await = "timeout"]

FlowTypes == {"start", "completed", "failed", "cancel", "stalled"}
StepTypes == {"step.started", "step.completed", "step.failed", "step.retry"}
AwaitTypes == {"await.registered", "await.resolved", "await.timeout"}

Reduce(s, e) ==
  CASE e \in FlowTypes -> ReduceFlow(s, e)
    [] e \in StepTypes -> ReduceStep(s, e)
    [] e \in AwaitTypes -> ReduceAwait(s, e)

ASSUME ScriptAssumption ==
  Script \in [Topics -> Seq(FlowTypes \union StepTypes \union AwaitTypes)]

Shown(s) ==
  IF s.flow = "running" /\ s.started /\ s.await = "waiting" /\ s.step \notin {"running", "retrying"}
  THEN [flow |-> "awaiting", step |-> s.step, await |-> s.await]
  ELSE [flow |-> s.flow, step |-> s.step, await |-> s.await]

(* flow.stalled is in no list of the types the stream wiring publishes.       *)
Published(t, i) == Script[t][i] # "stalled"

-----------------------------------------------------------------------------
(* The page's side of a connection                                            *)
(* and whether an event was of another run, and whether the last history came *)
(* after events that it does not have.                                        *)
NothingShown == [seen |-> {}, foreign |-> FALSE, late |-> FALSE, state |-> Unseen]

(* What onEvent does: nothing compares the event's topic with what is watched *)
ShowEvent(v, t, i) ==
  [seen |-> IF t = watching THEN v.seen \union {i} ELSE v.seen,
   foreign |-> v.foreign \/ t # watching,
   late |-> v.late,
   state |-> IF service = "flows" THEN Reduce(v.state, Script[t][i]) ELSE v.state]

\* Faulty: the history is applied newest first.
ReduceFirstDescending(s, t, n) ==
  LET after[m \in 0 .. n] == IF m = 0 THEN s ELSE Reduce(after[m - 1], Script[t][n + 1 - m])
  IN  after[n]

(* What the first n events of a topic, one after another, make of a state.    *)
ReduceFirst(s, t, n) ==
  LET after[m \in 0 .. n] == IF m = 0 THEN s ELSE Reduce(after[m - 1], Script[t][m])
  IN  after[n]

(* onHistory: a run's page adds the events, a trigger's replaces its list.    *)
ShowHistory(v, t, n) ==
  LET before == IF service = "flows" THEN v ELSE NothingShown IN
  [seen |-> IF t = watching THEN before.seen \union 1 .. n ELSE before.seen,
   foreign |-> before.foreign \/ (t # watching /\ n > 0),
   late |-> \E i \in before.seen : i > n,
   state |-> IF service = "flows" THEN ReduceFirst(before.state, t, n) ELSE before.state]

ToServer(kind, t, n) == [kind |-> kind, topic |-> t, n |-> n]
Send(messages) == IF sock = "open" THEN [up EXCEPT ![cur] = @ \o messages] ELSE up

(* connect(): a new socket, unless there is one open or being opened          *)
Connect(reconnects) ==
  IF sock \in {"open", "connecting"} THEN UNCHANGED link
  ELSE /\ cur < MaxFaults + 1
       /\ cur' = cur + 1 /\ sock' = "connecting" /\ auto' = reconnects
       /\ UNCHANGED <<retry, timer>>

Subscribe(t) ==
  /\ requests < MaxRequests /\ requests' = requests + 1
  /\ up' = Send((IF watching = None THEN <<>> ELSE <<ToServer("unsubscribe", watching, 0)>>)
                  \o <<ToServer("subscribe", t, requests + 1)>>)
  /\ watching' = t
  /\ view' = NothingShown
  /\ Connect(TRUE)
  /\ UNCHANGED <<chosen, log, pub, server, down, stats, faults>>

SubscribeRun(t) == service = "flows" /\ Subscribe(t)
SubscribeTrigger(t) == service = "triggers" /\ Subscribe(t)

Unsubscribe ==
  /\ watching # None
  /\ up' = Send(<<ToServer("unsubscribe", watching, 0)>>)
  /\ watching' = None
  /\ UNCHANGED <<chosen, log, pub, server, down, link, view, stats, bounds>>

UnsubscribeRun == service = "flows" /\ Unsubscribe
UnsubscribeTrigger == service = "triggers" /\ Unsubscribe

(* subscribeStats: with what the server was last heard of, or once connected. *)
(* The page of a flow passes no options: a connection it opens stays down.    *)
SubscribeStats ==
  /\ ~stats.want /\ updates > 0
  /\ requests < MaxRequests /\ requests' = requests + 1
  /\ up' = IF stats.on THEN up ELSE Send(<<ToServer("subscribe.stats", Stats, requests + 1)>>)
  /\ stats' = [stats EXCEPT !.want = TRUE, !.pending = @ \/ sock # "open"]
  /\ Connect(FALSE)
  /\ UNCHANGED <<chosen, log, pub, server, down, watching, view, faults>>

SubscribeFlowStats == service = "flows" /\ SubscribeStats
SubscribeTriggerStats == service = "triggers" /\ SubscribeStats

UnsubscribeStats ==
  /\ stats.want
  /\ up' = Send(<<ToServer("unsubscribe.stats", Stats, 0)>>)
  /\ stats' = [stats EXCEPT !.want = FALSE, !.on = FALSE]
  /\ UNCHANGED <<chosen, log, pub, server, down, link, watching, view, bounds>>

UnsubscribeFlowStats == service = "flows" /\ UnsubscribeStats
UnsubscribeTriggerStats == service = "triggers" /\ UnsubscribeStats

\* Faulty: the flow is subscribed to only on the first connection, the statistics never.
OnOpenForgets ==
  /\ sock = "connecting"
  /\ sock' = "open" /\ retry' = 0 /\ timer' = FALSE
  /\ up' = IF cur > 1 \/ watching = None THEN up
           ELSE [up EXCEPT ![cur] = <<ToServer("subscribe", watching, requests)>>]
  /\ stats' = [stats EXCEPT !.pending = FALSE]
  /\ context' = [context EXCEPT ![cur].state = "open"]
  /\ UNCHANGED <<chosen, log, pub, gateway, tasks, raced, down, cur, auto, watching, view, bounds>>

(* onopen: both subscriptions are sent again                                  *)
OnOpen ==
  /\ sock = "connecting"
  /\ sock' = "open" /\ retry' = 0 /\ timer' = FALSE
  /\ up' = [up EXCEPT ![cur] =
              (IF watching = None THEN <<>> ELSE <<ToServer("subscribe", watching, requests)>>) \o
              (IF stats.want \/ stats.pending THEN <<ToServer("subscribe.stats", Stats, requests)>> ELSE <<>>)]
  /\ stats' = [stats EXCEPT !.pending = FALSE]
  /\ context' = [context EXCEPT ![cur].state = "open"]
  /\ UNCHANGED <<chosen, log, pub, gateway, tasks, raced, down, cur, auto, watching, view, bounds>>

OnOpenFlows == service = "flows" /\ OnOpen
OnOpenTriggers == service = "triggers" /\ OnOpen

\* Faulty: one attempt less.
OnCloseRetriesLess ==
  /\ sock' = "closed"
  /\ timer' = (auto /\ retry + 1 < MaxRetries)
  /\ retry' = IF timer' THEN retry + 1 ELSE retry
  /\ UNCHANGED <<cur, auto>>

(* onclose with a code other than 1000, then attemptReconnect                 *)
OnClose ==
  /\ sock' = "closed"
  /\ timer' = (auto /\ retry < MaxRetries)
  /\ retry' = IF timer' THEN retry + 1 ELSE retry
  /\ UNCHANGED <<cur, auto>>

OnCloseFlows == service = "flows" /\ OnClose
OnCloseTriggers == service = "triggers" /\ OnClose

Reconnect ==
  /\ timer
  /\ IF sock = "closed" /\ (watching # None \/ stats.want)
     THEN /\ cur < MaxFaults + 1
          /\ cur' = cur + 1 /\ sock' = "connecting"
     ELSE UNCHANGED <<cur, sock>>
  /\ timer' = FALSE
  /\ UNCHANGED <<chosen, log, pub, server, up, down, auto, retry, page, bounds>>

ReconnectFlows == service = "flows" /\ Reconnect
ReconnectTriggers == service = "triggers" /\ Reconnect

(* onmessage                                                                  *)
Receive ==
  /\ sock = "open" /\ down[cur] # <<>>
  /\ LET m == Head(down[cur]) IN
     /\ view' = CASE m.kind = "event" /\ watching # None -> ShowEvent(view, m.topic, m.n)
                  [] m.kind = "history" /\ watching # None -> ShowHistory(view, m.topic, m.n)
                  [] OTHER -> view
     /\ stats' = CASE m.kind \in {"initial", "update"} -> [stats EXCEPT !.shown = m.n]
                   [] m.kind = "stats.subscribed" -> [stats EXCEPT !.on = TRUE]
                   [] m.kind = "stats.unsubscribed" -> [stats EXCEPT !.on = FALSE]
                   [] OTHER -> stats
  /\ down' = [down EXCEPT ![cur] = Tail(@)]
  /\ UNCHANGED <<chosen, log, pub, server, up, link, watching, bounds>>

ReceiveFlows == service = "flows" /\ Receive
ReceiveTriggers == service = "triggers" /\ Receive

-----------------------------------------------------------------------------
(* The gateway: one set of handlers per topic, shared by all peers            *)
Handles(t) == gateway[t].handles
NoHandler == [p \in Peers |-> 0]

(* unsubscribe(): the last handler of a topic takes its set away.             *)
WithoutHandle(gw, t, p) ==
  LET left == [gw[t].handles EXCEPT ![p] = @ - 1] IN
  [gw EXCEPT ![t] = IF left = NoHandler
                    THEN [@ EXCEPT !.known = FALSE, !.live = FALSE, !.handles = left]
                    ELSE [@ EXCEPT !.handles = left]]

WithHandle(gw, t, p) == [gw EXCEPT ![t].handles[p] = @ + 1]

(* A set of handlers is there before Redis confirms SUBSCRIBE. Whoever comes  *)
(* next does not wait for it, and whoever goes may take the set away: the two *)
(* have raced.                                                                *)
WithSet(gw, t) == [gw EXCEPT ![t].known = TRUE]
Unconfirmed(t) == gateway[t].known /\ ~gateway[t].live

MemorySubscribe(gw, t, p) ==
  WithHandle([gw EXCEPT ![t] = [@ EXCEPT !.known = TRUE, !.live = TRUE]], t, p)

Least(a, b) == IF a < b THEN a ELSE b
InHistory(t) == IF t = Stats THEN log[Stats] ELSE Least(log[t], HistoryLimit)

(* What a handler sends once it has read: the history of a run, or the        *)
(* statistics and that they are subscribed.                                   *)
Snapshot(t, n) ==
  IF t = Stats
  THEN <<[kind |-> "initial", topic |-> t, n |-> n],
         [kind |-> "stats.subscribed", topic |-> t, n |-> 0]>>
  ELSE <<[kind |-> "history", topic |-> t, n |-> n]>>

Reachable(p) == p = cur /\ sock = "open"
ToPage(p, messages) == IF Reachable(p) THEN [down EXCEPT ![p] = @ \o messages] ELSE down

(* The message handler's part up to its first wait for the network. With the  *)
(* memory adapters it waits for none.                                         *)
HandleSubscribe(p, m) ==
  LET t == m.topic
      held == t \in context[p].subs
      gw == IF held THEN WithoutHandle(gateway, t, p) ELSE gateway
      holds == [context EXCEPT ![p].subs = @ \union {t}]
      Waits(pc) == tasks' = tasks \union {[p |-> p, topic |-> t, n |-> m.n, pc |-> pc, got |-> 0]}
  IN CASE backend = "memory" ->
            /\ gateway' = MemorySubscribe(gw, t, p)
            /\ context' = holds
            /\ down' = ToPage(p, Snapshot(t, InHistory(t)))
            /\ UNCHANGED <<tasks, raced>>
       [] backend = "redis" /\ gw[t].known ->
            /\ gateway' = WithHandle(gw, t, p)
            /\ context' = holds
            /\ Waits("read")
            /\ raced' = (raced \/ Unconfirmed(t))
            /\ UNCHANGED down
       [] OTHER ->
            /\ gateway' = WithSet(gw, t)
            /\ Waits("subscribe")
            /\ raced' = (raced \/ Unconfirmed(t))
            /\ UNCHANGED <<context, down>>

HandleSubscribeRun(p, m) == service = "flows" /\ m.kind = "subscribe" /\ HandleSubscribe(p, m)
HandleSubscribeTrigger(p, m) ==
  service = "triggers" /\ m.kind = "subscribe" /\ HandleSubscribe(p, m)

(* subscribe.stats is refused while it is subscribed.                         *)
HandleSubscribeStats(p, m) ==
  IF Stats \in context[p].subs THEN UNCHANGED <<server, down>>
  ELSE HandleSubscribe(p, m)

HandleSubscribeFlowStats(p, m) ==
  service = "flows" /\ m.kind = "subscribe.stats" /\ HandleSubscribeStats(p, m)
HandleSubscribeTriggerStats(p, m) ==
  service = "triggers" /\ m.kind = "subscribe.stats" /\ HandleSubscribeStats(p, m)

HandleUnsubscribe(p, m) ==
  /\ IF m.topic \notin context[p].subs THEN UNCHANGED <<gateway, context, down, raced>>
     ELSE /\ gateway' = WithoutHandle(gateway, m.topic, p)
          /\ raced' = (raced \/ Unconfirmed(m.topic))
          /\ context' = [context EXCEPT ![p].subs = @ \ {m.topic}]
          /\ down' = IF m.topic = Stats
                     THEN ToPage(p, <<[kind |-> "stats.unsubscribed", topic |-> Stats, n |-> 0]>>)
                     ELSE down
  /\ UNCHANGED tasks

HandleUnsubscribeRun(p, m) == service = "flows" /\ m.kind = "unsubscribe" /\ HandleUnsubscribe(p, m)
HandleUnsubscribeTrigger(p, m) ==
  service = "triggers" /\ m.kind = "unsubscribe" /\ HandleUnsubscribe(p, m)
HandleUnsubscribeFlowStats(p, m) ==
  service = "flows" /\ m.kind = "unsubscribe.stats" /\ HandleUnsubscribe(p, m)
HandleUnsubscribeTriggerStats(p, m) ==
  service = "triggers" /\ m.kind = "unsubscribe.stats" /\ HandleUnsubscribe(p, m)

Handle(p) ==
  /\ up[p] # <<>> /\ context[p].state = "open"
  /\ LET m == Head(up[p]) IN
       \/ HandleSubscribeRun(p, m)
       \/ HandleSubscribeTrigger(p, m)
       \/ HandleSubscribeFlowStats(p, m)
       \/ HandleSubscribeTriggerStats(p, m)
       \/ HandleUnsubscribeRun(p, m)
       \/ HandleUnsubscribeTrigger(p, m)
       \/ HandleUnsubscribeFlowStats(p, m)
       \/ HandleUnsubscribeTriggerStats(p, m)
  /\ up' = [up EXCEPT ![p] = Tail(@)]
  /\ UNCHANGED <<chosen, log, pub, link, page, bounds>>

(* One connection to Redis: what waits for the same topic is answered in the  *)
(* order it was asked.                                                        *)
IsNext(k) == ~ \E j \in tasks : j.p = k.p /\ j.topic = k.topic /\ j.pc = k.pc /\ j.n < k.n

(* Redis confirms SUBSCRIBE. If the peer has closed meanwhile, its handle     *)
(* stays in the set: nobody will take it out.                                 *)
Subscribed(k) ==
  /\ k.pc = "subscribe" /\ IsNext(k)
  /\ gateway' = WithHandle([gateway EXCEPT ![k.topic].live = TRUE], k.topic, k.p)
  /\ context' = IF context[k.p].state = "open"
                THEN [context EXCEPT ![k.p].subs = @ \union {k.topic}]
                ELSE context
  /\ tasks' = (tasks \ {k}) \union {[k EXCEPT !.pc = "read"]}
  /\ UNCHANGED <<chosen, log, pub, up, down, link, page, bounds, raced>>

(* The store reads, and its answer reaches the handler, which sends it.       *)
ReadHistory(k) ==
  /\ k.pc = "read" /\ IsNext(k)
  /\ tasks' = (tasks \ {k}) \union {[k EXCEPT !.pc = "send", !.got = InHistory(k.topic)]}
  /\ UNCHANGED <<chosen, log, pub, gateway, context, up, down, link, page, bounds, raced>>

SendHistory(k) ==
  /\ k.pc = "send" /\ IsNext(k)
  /\ down' = ToPage(k.p, Snapshot(k.topic, k.got))
  /\ tasks' = tasks \ {k}
  /\ UNCHANGED <<chosen, log, pub, gateway, context, up, link, page, bounds, raced>>

(* close: the handler unsubscribes whatever the context holds by then.        *)
ClosePeer(p) ==
  /\ context[p].state = "open" /\ ~Reachable(p)
  /\ gateway' = [t \in Keys |-> IF t \in context[p].subs THEN WithoutHandle(gateway, t, p)[t]
                                ELSE gateway[t]]
  /\ context' = [context EXCEPT ![p] = [state |-> "closed", subs |-> {}]]
  /\ raced' = (raced \/ \E t \in context[p].subs : Unconfirmed(t))
  /\ UNCHANGED <<chosen, log, pub, tasks, up, down, link, page, bounds>>

ClosePeerFlows(p) == service = "flows" /\ ClosePeer(p)
ClosePeerTriggers(p) == service = "triggers" /\ ClosePeer(p)

-----------------------------------------------------------------------------
(* The run: the wiring appends an event, then publishes it. Those of a run are *)
(* one after another on one server (the promise chain of flowWiring.ts); two   *)
(* servers that share a store may append before the other has published.       *)
AppendEvent(t) ==
  /\ alone => pub[t] = 1 .. log[t]
  /\ log[t] < IF t = Stats THEN updates ELSE Len(Script[t])
  /\ log' = [log EXCEPT ![t] = @ + 1]
  /\ UNCHANGED <<chosen, pub, server, up, down, link, page, bounds>>

(* A handler per handle; a message on the topic only if there is one          *)
Deliver(t, kind, i) ==
  LET copies == IF gateway[t].live /\ cur # 0 THEN gateway[t].handles[cur] ELSE 0 IN
  IF cur # 0
  THEN down' = ToPage(cur, [c \in 1 .. copies |-> [kind |-> kind, topic |-> t, n |-> i]])
  ELSE UNCHANGED down

Publish(t, i) ==
  /\ i \in 1 .. log[t] /\ i \notin pub[t]
  /\ pub' = [pub EXCEPT ![t] = @ \union {i}]
  /\ UNCHANGED <<chosen, log, server, up, link, page, bounds>>

PublishFlowEvent(t, i) ==
  /\ service = "flows" /\ t \in Topics /\ Publish(t, i)
  /\ IF Published(t, i) THEN Deliver(t, "event", i) ELSE UNCHANGED down
PublishTriggerEvent(t, i) ==
  service = "triggers" /\ t \in Topics /\ Publish(t, i) /\ Deliver(t, "event", i)
PublishFlowStats(t, i) ==
  service = "flows" /\ t = Stats /\ Publish(t, i) /\ Deliver(t, "update", i)
PublishTriggerStats(t, i) ==
  service = "triggers" /\ t = Stats /\ Publish(t, i) /\ Deliver(t, "update", i)

(* A connection breaks, is refused, or is closed by a server that restarts.   *)
CloseSocket == OnCloseFlows \/ OnCloseTriggers

Drop ==
  /\ sock \in {"open", "connecting"}
  /\ faults < MaxFaults /\ faults' = faults + 1
  /\ CloseSocket
  /\ up' = [up EXCEPT ![cur] = <<>>] /\ down' = [down EXCEPT ![cur] = <<>>]
  /\ UNCHANGED <<chosen, log, pub, server, page, requests>>

NoContext == [state |-> "none", subs |-> {}]
NoSet == [known |-> FALSE, live |-> FALSE, handles |-> NoHandler]

(* What is appended and not published.                                        *)
Unpublished == UNION {{t} \X {i \in 1 .. log[t] : i \notin pub[t]} : t \in Keys}

(* The server of the page restarts. What it had yet to publish nobody will:    *)
(* that counts as published; other servers go on with theirs.                  *)
Restart ==
  /\ sock = "open"
  /\ faults < MaxFaults /\ faults' = faults + 1
  /\ CloseSocket
  /\ up' = [p \in Peers |-> <<>>] /\ down' = [p \in Peers |-> <<>>]
  /\ context' = [p \in Peers |-> NoContext]
  /\ gateway' = [t \in Keys |-> NoSet]
  /\ tasks' = {}
  /\ \E lost \in SUBSET Unpublished :
       /\ alone => lost = Unpublished
       /\ pub' = [t \in Keys |-> pub[t] \union {i \in 1 .. log[t] : <<t, i>> \in lost}]
  /\ UNCHANGED <<chosen, log, page, raced, requests>>

-----------------------------------------------------------------------------
Init ==
  /\ \E m \in Modes : /\ service = m.service /\ backend = m.backend
                       /\ updates = m.updates /\ alone = m.alone
  /\ log = [t \in Keys |-> 0] /\ pub = [t \in Keys |-> {}]
  /\ gateway = [t \in Keys |-> NoSet]
  /\ context = [p \in Peers |-> NoContext]
  /\ tasks = {} /\ raced = FALSE
  /\ up = [p \in Peers |-> <<>>] /\ down = up
  /\ sock = None /\ cur = 0 /\ auto = FALSE
  /\ retry = 0 /\ timer = FALSE
  /\ watching = None /\ view = NothingShown
  /\ stats = [want |-> FALSE, pending |-> FALSE, on |-> FALSE, shown |-> 0]
  /\ requests = 0 /\ faults = 0

PageStep ==
  \/ \E t \in Topics : SubscribeRun(t) \/ SubscribeTrigger(t)
  \/ UnsubscribeRun \/ UnsubscribeTrigger
  \/ SubscribeFlowStats \/ SubscribeTriggerStats
  \/ UnsubscribeFlowStats \/ UnsubscribeTriggerStats
  \/ OnOpenFlows \/ OnOpenTriggers
  \/ ReconnectFlows \/ ReconnectTriggers
  \/ ReceiveFlows \/ ReceiveTriggers

ServerStep ==
  \/ \E p \in Peers : Handle(p) \/ ClosePeerFlows(p) \/ ClosePeerTriggers(p)
  \/ \E k \in tasks : Subscribed(k) \/ ReadHistory(k) \/ SendHistory(k)
  \/ \E t \in Keys : AppendEvent(t)
  \/ \E t \in Keys : \E i \in 1 .. log[t] :
       \/ PublishFlowEvent(t, i) \/ PublishTriggerEvent(t, i)
       \/ PublishFlowStats(t, i) \/ PublishTriggerStats(t, i)

Next == PageStep \/ ServerStep \/ Drop \/ Restart

Spec == Init /\ [][Next]_vars

(* Bound: nothing is followed once a call has met a SUBSCRIBE under way.      *)
NotRaced == ~raced

-----------------------------------------------------------------------------
(* Nothing of what the page watches is under way.                             *)
Settled ==
  /\ sock = "open" /\ watching # None
  /\ up[cur] = <<>> /\ down[cur] = <<>>
  /\ \A k \in tasks : k.p # cur
  /\ pub[watching] = 1 .. log[watching]
  /\ log[watching] <= HistoryLimit
  /\ ~raced
  /\ service = "flows" \/ backend = "memory"

(* No event is missed: a page whose subscription is settled shows every event *)
(* of what it watches that is published at all, whatever was appended while   *)
(* it was subscribing, reconnecting or waiting for its history (the handler   *)
(* subscribes before it reads).                                               *)
NothingMissed ==
  Settled => \A i \in 1 .. log[watching] : Published(watching, i) => i \in view.seen

(* Replays and overlaps of history and live events do no harm: a settled page *)
(* that was sent events of no other run shows the run, its step and its await *)
(* exactly as the events of the run taken once, in order, say. Of a run whose *)
(* events two servers publish this is not true: they may come out of order.   *)
Straight(t) == ReduceFirst(Unseen, t, log[t])
ShowsTheRun ==
  (Settled /\ service = "flows" /\ alone /\ ~view.foreign /\ ~view.late
   /\ \A i \in 1 .. log[watching] : Published(watching, i))
  => Shown(view.state) = Shown(Straight(watching))

(* A page does not stay disconnected: while it wants something and its socket *)
(* is closed, a reconnection is armed, unless the retries are spent or the    *)
(* connection was opened by a page that asked for none.                       *)
NotStranded ==
  (sock = "closed" /\ (watching # None \/ stats.want)) => timer \/ ~auto \/ retry = MaxRetries
=============================================================================
