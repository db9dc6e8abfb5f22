------------------------------ MODULE Triggers ------------------------------
(* One trigger of one instance (events/wiring/triggerWiring.ts,               *)
(* nitro/utils/useTrigger.ts and the API in front of it): the entry of the    *)
(* trigger index in the store, the runtime's copy of it in memory, the cron   *)
(* job of a schedule trigger, and the handlers in flight.                     *)
(*                                                                            *)
(* eventBus.publish is synchronous and waits for no handler: every event      *)
(* starts its handlers at once, each runs to its first await, and then they   *)
(* interleave, each step being an answer of the store and what the handler    *)
(* does with it up to its next await.                                         *)
EXTENDS Integers, FiniteSets

CONSTANTS Flows,        \* flows that may subscribe
          Types,        \* types of the trigger: subset of {"webhook", "schedule"}
          Backends,     \* store adapters: subset of {"memory", "redis", "postgres"}
          Declared,     \* flows that the code subscribes at build time
          MaxEvents,    \* requests and timers that publish events in a run
          MaxTasks,     \* handlers in flight at a time
          MaxFailures,  \* calls of the store or the queue that fail in a run
          MaxCrashes    \* stops of the process in a run

ASSUME TriggersAssumption ==
  /\ Types \subseteq {"webhook", "schedule"}
  /\ Backends \subseteq {"memory", "redis", "postgres"}
  /\ IsFiniteSet(Flows) /\ Declared \subseteq Flows
  /\ MaxEvents \in Nat /\ MaxTasks \in Nat /\ MaxFailures \in Nat /\ MaxCrashes \in Nat

VARIABLES
  type, backend, declared,  \* chosen once; declared: the code defines the trigger
  up,        \* the process: "off", "loaded" (runtime initialized), "on"
  runtime,   \* the entry of TriggerRuntime: [status, subs], no trigger or one
  index,     \* the entry of the trigger index: [status, subs, fires, subscribers]
  job,       \* the scheduler's job in the store: "none", "enabled" or "disabled"
  timer,     \* the scheduler's timer: "none", "live", "stopped"
  loose,     \* live timers the scheduler has no handle of
  tasks,     \* the handlers in flight
  events, failures, crashes,   \* bounded
  fired,     \* trigger.fired events since the trigger was registered
  tried,     \* the last (event, flow) startFlowFromTrigger was called for
  muddled    \* calls on the same data overlapped, or one was cut in the middle

vars == <<type, backend, declared, up, runtime, index, job, timer, loose, tasks,
          events, failures, crashes, fired, tried, muddled>>
chosen == <<type, backend, declared>>
scheduled == <<job, timer, loose>>

-----------------------------------------------------------------------------
NoRuntime == [status |-> "none", subs |-> {}]
NoEntry == [status |-> "none", subs |-> {}, fires |-> 0, subscribers |-> 0]

HasTrigger == runtime.status # "none"

(* A handler in flight: the event it handles, its next call, the flow it is   *)
(* about, whether the flow was new as it began, and the flows left to start.  *)
Task(id, kind, pc, arg, fresh, todo) ==
  [id |-> id, kind |-> kind, pc |-> pc, arg |-> arg, fresh |-> fresh, todo |-> todo]

Lifecycle == {"registered", "updated", "deleted"}
Changes == {"added", "removed"}
Conflict(t, u) ==
  \/ {t.kind, u.kind} \subseteq Lifecycle
  \/ "deleted" \in {t.kind, u.kind}
  \/ {t.kind, u.kind} \subseteq Changes /\ t.arg = u.arg

(* What the handlers of an event do before their first await.                 *)
Handlers(id, kind, arg) ==
  CASE kind = "registered" -> {Task(id, kind, "add", arg, TRUE, {})}
    [] kind = "updated" -> {Task(id, kind, "update", arg, TRUE, {})}
    [] kind = "deleted" -> {Task(id, kind, "delete", arg, HasTrigger, {})}
    [] kind = "added" -> {Task(id, kind, "update", arg, arg \notin runtime.subs, {})}
    [] kind = "removed" -> {Task(id, kind, "update", arg, TRUE, {})}
    [] kind = "fired" ->
         {Task(id, "stats", "append", arg, TRUE, {})}
         \cup (IF runtime.status = "inactive" \/ runtime.subs = {} THEN {}
               ELSE {Task(id, "fired", "resolve", arg, TRUE, runtime.subs)})

Cut(t) == ~(t.kind \in Lifecycle \cup Changes /\ t.pc \in {"add", "update", "delete"})

(* Publishes a set of [kind, arg] in one synchronous stretch of code.         *)
Publish(evs) ==
  LET new == UNION {Handlers(events + 1, e.kind, e.arg) : e \in evs}
  IN  /\ events + 1 <= MaxEvents /\ Cardinality(tasks \cup new) <= MaxTasks /\ ~muddled
      /\ events' = events + 1
      /\ tasks' = tasks \cup new
      /\ muddled' = (muddled \/ \E t \in tasks, u \in new : Conflict(t, u))

Event(kind, arg) == [kind |-> kind, arg |-> arg]

(* useTrigger: each call publishes one event and changes nothing itself.      *)
RegisterTrigger(status) == {Event(IF HasTrigger THEN "updated" ELSE "registered", status)}
SubscribeTrigger(flows) == {Event("added", f) : f \in flows}
UnsubscribeTrigger(flows) == {Event("removed", f) : f \in flows}
DeleteTrigger == {e \in {Event("deleted", "active")} : HasTrigger}

(* triggerRuntime: the process's own copy, changed by the handlers.           *)
AddTrigger(status) == runtime' = [runtime EXCEPT !.status = status]
RemoveTrigger == runtime' = NoRuntime
AddRuntimeSub(f) == runtime' = [runtime EXCEPT !.subs = @ \cup {f}]
RemoveRuntimeSub(f) == runtime' = [runtime EXCEPT !.subs = @ \ {f}]

Init ==
  /\ type \in Types /\ backend \in Backends /\ declared \in BOOLEAN
  /\ up = "off" /\ runtime = NoRuntime /\ index = NoEntry
  /\ job = "none" /\ timer = "none" /\ loose = 0
  /\ tasks = {} /\ events = 0 /\ failures = 0 /\ crashes = 0
  /\ fired = 0 /\ tried = {} /\ muddled = FALSE

-----------------------------------------------------------------------------
(* Requests.                                                                  *)

(* POST /api/_triggers: refuses a name the runtime knows, registers, and      *)
(* subscribes the flows without waiting for the registration.                 *)
Post(flows) ==
  /\ up = "on" /\ ~HasTrigger
  /\ Publish(RegisterTrigger("active") \cup SubscribeTrigger(flows))
  /\ UNCHANGED <<chosen, up, runtime, index, scheduled, failures, crashes, fired, tried>>

(* PATCH: the status, then the subscriptions that are no longer, or newly, in *)
(* the list.                                                                  *)
Patch(status, flows) ==
  LET current == runtime.subs
  IN  /\ up = "on" /\ HasTrigger
      /\ Publish(RegisterTrigger(status)
                 \cup UnsubscribeTrigger(current \ flows)
                 \cup SubscribeTrigger(flows \ current))
      /\ UNCHANGED <<chosen, up, runtime, index, scheduled, failures, crashes, fired, tried>>

Delete ==
  /\ up = "on" /\ HasTrigger
  /\ Publish(DeleteTrigger)
  /\ UNCHANGED <<chosen, up, runtime, index, scheduled, failures, crashes, fired, tried>>

Fired == Publish({Event("fired", "active")}) /\ fired' = fired + 1

(* emitTrigger: only of an active trigger (or one nobody registered).         *)
EmitTrigger == runtime.status = "active" /\ Fired

(* The webhook route; emitTrigger awaits the key-value store only for a large *)
(* payload, before anything is published.                                     *)
WebhookCall ==
  /\ up = "on" /\ type = "webhook" /\ EmitTrigger
  /\ UNCHANGED <<chosen, up, runtime, index, scheduled, failures, crashes, tried>>

(* A timer of the scheduler runs its handler while the job's config is known. *)
CronFires ==
  /\ up = "on" /\ type = "schedule" /\ timer # "none" /\ (timer = "live" \/ loose > 0)
  /\ Fired
  /\ UNCHANGED <<chosen, up, runtime, index, scheduled, failures, crashes, tried>>

-----------------------------------------------------------------------------
(* Handlers.                                                                  *)

Ends(t) == tasks' = tasks \ {t}
Goes(t, pc) == tasks' = (tasks \ {t}) \cup {[t EXCEPT !.pc = pc]}
Quiet == UNCHANGED <<chosen, up, events, failures, crashes, fired, tried, muddled>>

(* scheduleTrigger begins with unschedule, whose first part is synchronous.   *)
StopTimer == timer' = "none" /\ UNCHANGED <<job, loose>>
ThenSchedule(t) ==
  IF type = "schedule" THEN Goes(t, "unpersist") /\ StopTimer
  ELSE Ends(t) /\ UNCHANGED scheduled

AddEntry(t) ==
  /\ t.kind = "registered" /\ t.pc = "add"
  /\ index' = [status |-> "active", fires |-> 0, subscribers |-> 0,
               subs |-> IF backend = "memory" THEN {} ELSE index.subs]
  /\ AddTrigger("active")
  /\ ThenSchedule(t) /\ Quiet

(* updateWithRetry throws if the entry is not there (IndexStore.tla).         *)
Throws(t) == index.status = "none" /\ Ends(t) /\ UNCHANGED <<runtime, index, scheduled>>

UpdateEntry(t) ==
  /\ t.kind = "updated" /\ t.pc = "update" /\ Quiet
  /\ \/ Throws(t)
     \/ /\ index.status # "none"
        /\ index' = [index EXCEPT !.status = t.arg]
        /\ IF HasTrigger THEN AddTrigger(t.arg) /\ ThenSchedule(t)
           ELSE Ends(t) /\ UNCHANGED <<runtime, scheduled>>

\* Faulty: the runtime is told before it is known that there is an entry.
AddSubscriptionEager(t) ==
  /\ t.kind = "added" /\ t.pc = "update" /\ Quiet
  /\ AddRuntimeSub(t.arg)
  /\ \/ index.status = "none" /\ Ends(t) /\ UNCHANGED <<index, scheduled>>
     \/ /\ index.status # "none"
        /\ index' = [index EXCEPT !.subs = @ \cup {t.arg}]
        /\ IF t.fresh THEN Goes(t, "increment") ELSE Ends(t)
        /\ UNCHANGED scheduled

AddSubscription(t) ==
  /\ t.kind = "added" /\ t.pc = "update" /\ Quiet
  /\ \/ Throws(t)
     \/ /\ index.status # "none"
        /\ index' = [index EXCEPT !.subs = @ \cup {t.arg}]
        /\ IF t.fresh THEN Goes(t, "increment") /\ UNCHANGED runtime
           ELSE AddRuntimeSub(t.arg) /\ Ends(t)
        /\ UNCHANGED scheduled

CountSubscription(t) ==
  /\ t.kind = "added" /\ t.pc = "increment" /\ Quiet
  /\ \/ Throws(t)
     \/ /\ index.status # "none"
        /\ index' = [index EXCEPT !.subscribers = @ + 1]
        /\ AddRuntimeSub(t.arg) /\ Ends(t)
        /\ UNCHANGED scheduled

(* The null of subscription.removed: Redis deletes the field of that name     *)
(* only, and the fields below it stay (Merge in IndexStore).                 *)
NullSubscription(subs, f) == IF backend = "redis" THEN subs ELSE subs \ {f}

RemoveSubscription(t) ==
  /\ t.kind = "removed" /\ t.pc = "update" /\ Quiet
  /\ \/ Throws(t)
     \/ /\ index.status # "none"
        /\ index' = [index EXCEPT !.subs = NullSubscription(@, t.arg)]
        /\ Goes(t, "decrement")
        /\ UNCHANGED <<runtime, scheduled>>

UncountSubscription(t) ==
  /\ t.kind = "removed" /\ t.pc = "decrement" /\ Quiet
  /\ \/ Throws(t)
     \/ /\ index.status # "none"
        /\ index' = [index EXCEPT !.subscribers = @ - 1]
        /\ RemoveRuntimeSub(t.arg)
        /\ Ends(t)
        /\ UNCHANGED scheduled

DeleteEntry(t) ==
  /\ t.kind = "deleted" /\ t.pc = "delete" /\ Quiet
  /\ index' = NoEntry
  /\ Goes(t, "stream")
  /\ UNCHANGED <<runtime, scheduled>>

\* Faulty: the timer of the trigger is not canceled.
DeleteStreamChecksLate(t) ==
  /\ t.kind = "deleted" /\ t.pc = "stream"
  /\ RemoveTrigger
  /\ fired' = 0
  /\ Ends(t)
  /\ UNCHANGED <<chosen, up, index, scheduled, events, failures, crashes, tried, muddled>>

DeleteStream(t) ==
  /\ t.kind = "deleted" /\ t.pc = "stream"
  /\ RemoveTrigger
  /\ fired' = 0
  /\ IF type = "schedule" /\ t.fresh THEN Goes(t, "unpersist") /\ StopTimer
     ELSE Ends(t) /\ UNCHANGED scheduled
  /\ UNCHANGED <<chosen, up, index, events, failures, crashes, tried, muddled>>

(* The rest of unschedule: the job leaves the store.                          *)
Unpersist(t) ==
  /\ t.pc = "unpersist" /\ Quiet
  /\ job' = "none"
  /\ IF t.kind = "deleted" THEN Ends(t) ELSE Goes(t, "persist")
  /\ UNCHANGED <<runtime, index, timer, loose>>

(* schedule: persistJob, then a timer that runs if the trigger is active; a   *)
(* timer another call has armed in between loses its handle.                  *)
PersistJob(t) ==
  /\ t.pc = "persist" /\ Quiet
  /\ job' = IF t.arg = "active" THEN "enabled" ELSE "disabled"
  /\ timer' = IF t.arg = "active" THEN "live" ELSE "stopped"
  /\ loose' = IF timer = "live" THEN loose + 1 ELSE loose
  /\ Ends(t)
  /\ UNCHANGED <<runtime, index>>

(* handlePersistence appends and republishes; handleTriggerStats then updates *)
(* lastFiredAt and increments totalFires.                                     *)
AppendFired(t) ==
  /\ t.kind = "stats" /\ t.pc = "append" /\ Quiet
  /\ Goes(t, "stats")
  /\ UNCHANGED <<runtime, index, scheduled>>

UpdateFiredAt(t) ==
  /\ t.kind = "stats" /\ t.pc = "stats" /\ Quiet
  /\ \/ Throws(t)
     \/ /\ index.status # "none"
        /\ Goes(t, "fires")
        /\ UNCHANGED <<runtime, index, scheduled>>

CountFired(t) ==
  /\ t.kind = "stats" /\ t.pc = "fires" /\ Quiet
  /\ \/ Throws(t)
     \/ /\ index.status # "none"
        /\ index' = [index EXCEPT !.fires = @ + 1]
        /\ Ends(t)
        /\ UNCHANGED <<runtime, scheduled>>

(* handleTriggerFired: the flows subscribed as the event arrived, one by one. *)
ResolvePayload(t) ==
  /\ t.kind = "fired" /\ t.pc = "resolve" /\ Quiet
  /\ IF t.todo = {} THEN Ends(t) ELSE Goes(t, "start")
  /\ UNCHANGED <<runtime, index, scheduled>>

AfterStart(t, f) ==
  LET left == t.todo \ {f}
  IN  tasks' = (tasks \ {t}) \cup (IF left = {} THEN {} ELSE {[t EXCEPT !.todo = left]})

\* Faulty: the first flow that cannot be started ends the loop.
StartFlowUncaught(t) ==
  /\ t.kind = "fired" /\ t.pc = "start"
  /\ \E f \in t.todo :
       /\ tried' = {<<t.id, f>>}
       /\ \/ AfterStart(t, f) /\ UNCHANGED failures
          \/ failures < MaxFailures /\ failures' = failures + 1 /\ Ends(t)
  /\ UNCHANGED <<chosen, up, runtime, index, scheduled, events, crashes, fired, muddled>>

(* startFlowFromTrigger: the entry step is enqueued, then flow.start          *)
(* published; a failure is logged and the next flow goes on.                  *)
StartFlow(t) ==
  /\ t.kind = "fired" /\ t.pc = "start"
  /\ \E f \in t.todo :
       /\ AfterStart(t, f)
       /\ tried' = {<<t.id, f>>}
       /\ \/ UNCHANGED failures
          \/ failures < MaxFailures /\ failures' = failures + 1
  /\ UNCHANGED <<chosen, up, runtime, index, scheduled, events, crashes, fired, muddled>>

(* The store rejects a call: handleOrchestration's catch ends the handler.    *)
Fails(t) ==
  /\ failures < MaxFailures /\ failures' = failures + 1
  /\ t.pc # "start"
  /\ Ends(t)
  /\ muddled' = (muddled \/ Cut(t))
  /\ UNCHANGED <<chosen, up, runtime, index, scheduled, events, crashes, fired, tried>>

-----------------------------------------------------------------------------
Crash ==
  /\ up # "off" /\ crashes < MaxCrashes
  /\ crashes' = crashes + 1
  /\ up' = "off"
  /\ muddled' = (muddled \/ \E t \in tasks : Cut(t))
  /\ tasks' = {}
  /\ index' = IF backend = "memory" THEN NoEntry ELSE index
  /\ job' = IF backend = "memory" THEN "none" ELSE job
  /\ fired' = IF backend = "memory" THEN 0 ELSE fired
  /\ runtime' = NoRuntime /\ timer' = "none" /\ loose' = 0
  /\ UNCHANGED <<chosen, events, failures, tried>>

(* initialize loads the index, and the scheduler recovers its enabled jobs.   *)
Loaded == [status |-> index.status, subs |-> index.subs]

Boot ==
  /\ up = "off" /\ up' = "loaded"
  /\ runtime' = Loaded
  /\ timer' = IF job = "enabled" THEN "live" ELSE "none"
  /\ UNCHANGED <<chosen, index, job, loose, tasks, events, failures, crashes, fired, tried, muddled>>

(* The plugin publishes what the code declares and the runtime does not know. *)
RegisterDeclared ==
  LET unknown == (IF HasTrigger THEN {} ELSE {Event("registered", "active")})
                 \cup SubscribeTrigger(Declared \ runtime.subs)
  IN  /\ up = "loaded" /\ up' = "on"
      /\ IF declared /\ unknown # {} THEN Publish(unknown)
         ELSE UNCHANGED <<tasks, events, muddled>>
      /\ UNCHANGED <<chosen, runtime, index, scheduled, failures, crashes, fired, tried>>

Handle(t) ==
  \/ AddEntry(t) \/ UpdateEntry(t) \/ AddSubscription(t) \/ CountSubscription(t)
  \/ RemoveSubscription(t) \/ UncountSubscription(t) \/ DeleteEntry(t) \/ DeleteStream(t)
  \/ Unpersist(t) \/ PersistJob(t)
  \/ AppendFired(t) \/ UpdateFiredAt(t) \/ CountFired(t)
  \/ ResolvePayload(t) \/ StartFlow(t) \/ Fails(t)

Request ==
  \/ \E flows \in SUBSET Flows : Post(flows)
  \/ \E status \in {"active", "inactive"}, flows \in SUBSET Flows : Patch(status, flows)
  \/ Delete \/ WebhookCall \/ CronFires

HandleAny == \E t \in tasks : Handle(t)
Next == Request \/ HandleAny \/ Crash \/ Boot \/ RegisterDeclared

Spec == Init /\ [][Next]_vars

(* Every call of the store and the queue is answered or fails; a process that *)
(* stopped is tried again.                                                  *)
FairSpec == Spec /\ WF_vars(HandleAny) /\ WF_vars(Boot \/ RegisterDeclared)

-----------------------------------------------------------------------------
(* Types, and what the properties rest on: while no calls have overlapped,    *)
(* each handler in flight accounts for what runtime, index and timer differ.  *)

Statuses == {"none", "active", "inactive"}
Copies == [status : Statuses, subs : SUBSET Flows]
EntryType == [status : Statuses, subs : SUBSET Flows, fires : Int, subscribers : Int]
Kinds == Lifecycle \cup Changes \cup {"stats", "fired"}
StepsOf(kind) ==
  CASE kind = "registered" -> {"add", "unpersist", "persist"}
    [] kind = "updated" -> {"update", "unpersist", "persist"}
    [] kind = "deleted" -> {"delete", "stream", "unpersist"}
    [] kind = "added" -> {"update", "increment"}
    [] kind = "removed" -> {"update", "decrement"}
    [] kind = "stats" -> {"append", "stats", "fires"}
    [] kind = "fired" -> {"resolve", "start"}
PCs == {"add", "update", "delete", "stream", "unpersist", "persist", "increment", "decrement",
        "append", "stats", "fires", "resolve", "start"}
TaskType == [id : Nat, kind : Kinds, pc : PCs, arg : Flows \cup Statuses,
             fresh : BOOLEAN, todo : SUBSET Flows]

TypeOK ==
  /\ type \in Types /\ backend \in Backends
  /\ up \in {"off", "loaded", "on"} /\ runtime \in Copies /\ index \in EntryType
  /\ job \in {"none", "enabled", "disabled"} /\ timer \in {"none", "live", "stopped"}
  /\ loose \in Nat /\ events \in Nat /\ fired \in Nat /\ muddled \in BOOLEAN
  /\ tasks \subseteq TaskType

\* What a handler in flight was published with.
WellFormed(t) ==
  /\ t.id <= events /\ t.pc \in StepsOf(t.kind)
  /\ t.kind \in Changes => t.arg \in Flows
  /\ t.kind \in Lifecycle => t.arg \in {"active", "inactive"}
  /\ t.kind = "registered" => t.arg = "active"
  /\ t.kind = "deleted" => t.fresh
  /\ t.pc \in {"unpersist", "persist"} => type = "schedule"

\* The handlers that count a fire.
Counting == {t \in tasks : t.kind = "stats"}

Handling ==
  /\ tasks # {} => up = "on"
  /\ \A t \in tasks : WellFormed(t)
  /\ \A t, u \in tasks : t.id = u.id /\ t.kind = "stats" /\ u.kind = "stats" => t = u
  /\ IsFiniteSet(Counting)

\* The handlers in flight that write the same data are one.
Apart == \A t, u \in tasks : Conflict(t, u) => t = u

Deleting == \E t \in tasks : t.pc = "stream"

\* The status in memory is that in the store, and that the handlers know.
StatusFollows ==
  /\ index.status = "none" => index = NoEntry
  /\ up # "off" /\ ~Deleting =>
       /\ runtime.status = index.status
       /\ index.status = "none" => runtime = NoRuntime
  /\ \A t \in tasks :
       /\ t.pc = "add" => index.status = "none"
       /\ t.pc = "stream" => index = NoEntry
       /\ t.pc \in {"unpersist", "persist"} =>
            runtime.status = IF t.kind = "deleted" THEN "none" ELSE t.arg

\* The timer and the job follow the status unless they are being replaced.
Active(status) == type = "schedule" /\ status = "active"
Rearming == \E t \in tasks : t.pc \in {"unpersist", "persist"}
TimersInStep ==
  /\ loose = 0
  /\ up = "off" => timer = "none" /\ (job = "enabled" <=> Active(index.status))
  /\ up # "off" /\ ~Rearming =>
       /\ timer = "live" <=> Active(runtime.status)
       /\ job = "enabled" <=> Active(runtime.status)
  /\ \A t \in tasks :
       /\ t.pc \in {"unpersist", "persist"} => timer = "none"
       /\ t.pc = "persist" => job = "none"

\* A subscription is in memory and in the store alike, and counted, but for those
\* that a handler has half changed.
Halfway(f) == \E t \in tasks : t.pc \in {"increment", "decrement"} /\ t.arg = f
SubscriptionsInStep ==
  backend # "redis" =>
    /\ up = "off" => index.subscribers = Cardinality(index.subs)
    /\ up # "off" /\ ~Deleting =>
         /\ index.subscribers = Cardinality(runtime.subs)
         /\ \A f \in Flows : ~Halfway(f) => (f \in runtime.subs <=> f \in index.subs)
    /\ \A t \in tasks :
         /\ t.pc = "increment" => t.arg \in index.subs \ runtime.subs
         /\ t.pc = "decrement" => t.arg \in runtime.subs \ index.subs
         /\ t.kind = "added" /\ t.pc = "update" => (t.fresh <=> t.arg \notin runtime.subs)
         /\ t.kind = "removed" /\ t.pc = "update" => t.arg \in runtime.subs

\* The fires that are not counted yet have a handler in flight.
FiresInStep ==
  /\ ~Deleting => index.fires + Cardinality(Counting) = fired
  /\ index.status = "none" => Counting = {}

InStep == ~muddled => Apart /\ StatusFollows /\ TimersInStep /\ SubscriptionsInStep /\ FiresInStep

-----------------------------------------------------------------------------
(* Properties                                                                 *)

Settled == up = "on" /\ tasks = {} /\ ~muddled

(* The runtime and the index agree whenever no handler is in flight, and the  *)
(* subscriber count is the number of subscriptions: a restart changes nothing,*)
(* and the increments of totalFires lose none of the other updates' fires,    *)
(* unless calls about the same flow overlapped or one was cut between its     *)
(* writes.  Not with Redis, where an unsubscription stays in the index.       *)
SettledAgrees ==
  Settled /\ backend # "redis"
    => /\ runtime = Loaded
       /\ index.subscribers = Cardinality(index.subs)
       /\ index.fires = fired

(* A schedule trigger has exactly one live timer while it is active and none  *)
(* otherwise, and the job in the store, which a restart recovers, says so.    *)
TimersFollow ==
  Settled
    => LET active == type = "schedule" /\ runtime.status = "active"
       IN  /\ timer = "live" <=> active
           /\ job = "enabled" <=> active
           /\ loose = 0

(* A fire tries every flow that was subscribed as it was handled, also those  *)
(* after one whose entry step could not be enqueued, unless the process stops.*)
FiresReachAllFlows ==
  [][\A t \in tasks : t.pc = "start"
       => LET left == {u \in tasks' : u.pc = "start" /\ u.id = t.id}
          IN  up' = "off" \/ \A f \in t.todo :
                <<t.id, f>> \in tried' \/ \E u \in left : f \in u.todo]_vars
=============================================================================
