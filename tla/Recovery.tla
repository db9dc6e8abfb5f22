------------------------------- MODULE Recovery -------------------------------
(***************************************************************************)
(* The runs of one flow over stops and restarts of the server: what the run *)
(* index, the statistics and the scheduler say of them, and what the startup *)
(* recovery (events/utils/stallDetector.ts) makes of it, with the event and *)
(* schedule awaits and the calls of the flows API that change a run from    *)
(* outside.                                                                *)
(*                                                                         *)
(* The flow is an entry step and one step behind an awaitBefore.  The store, *)
(* the queue and the scheduler's jobs outlive the process; the event chain,  *)
(* the armed timers, the event subscriptions and what is under way do not.   *)
(* FlowRun cuts the handlers of one event into their awaits; here an event  *)
(* is persisted in one step and orchestrated in the next, so that a stop may *)
(* fall between the two.  Deadlines are not clock times: a deadline has      *)
(* passed or has not.                                                       *)
(***************************************************************************)
EXTENDS Integers, FiniteSets, Sequences

CONSTANTS
  Runs,        \* run ids
  Kinds,       \* what the awaitBefore may be: "time", "schedule" or "event"
  Actions,     \* its timeoutAction: "fail" or "continue"
  MaxChain,    \* bound: with so many events of a run unhandled its workers wait
  MaxUpsets    \* bound: stops of the process, calls of cancelFlow, restartFlow and
               \* clear-history, and matching events on the bus

ASSUME RecoveryAssumption ==
  /\ Runs # {} /\ IsFiniteSet(Runs)
  /\ Kinds \subseteq {"time", "schedule", "event"} /\ Kinds # {}
  /\ Actions \subseteq {"fail", "continue"} /\ Actions # {}
  /\ MaxUpsets \in Nat /\ MaxChain \in Nat \ {0}

Statuses == {"running", "awaiting", "completed", "failed", "canceled", "stalled"}
ActiveStatuses == {"running", "awaiting"}
\* wait is the await's entry in awaitingSteps, bare the one under the step's name.
Entries == [status : Statuses, wait : {"none", "awaiting", "resolved"},
            bare : {"none", "resolved", "timeout"}]
Absent == [status |-> "absent", wait |-> "none", bare |-> "none"]

Steps == {"entry", "step"}
StartOf == [entry |-> "entry.started", step |-> "step.started"]
CompletionOf == [entry |-> "entry.completed", step |-> "step.completed"]
StallOf == [entry |-> "entry.stalled", step |-> "step.stalled"]
EndsOf == [entry |-> {"entry.completed", "entry.stalled"},
           step |-> {"step.completed", "step.failed", "step.stalled"}]
TerminalTypes == {"flow.completed", "flow.failed"}
StartTypes == {StartOf[s] : s \in Steps}
FinishTypes == {"entry.completed", "step.completed", "step.failed"}
EventTypes == TerminalTypes \cup FinishTypes \cup
  {"flow.start", "flow.cancel", "flow.stalled", "entry.started", "step.started",
   "entry.stalled", "step.stalled", "await.registered", "await.resolved", "await.timeout"}

\* An event on the bus; was is the previousStatus a cancellation carries.
Event(type) == [type |-> type, was |-> "none"]
Cancellation(status) == [type |-> "flow.cancel", was |-> status]

WorkNames == {"entry", "register", "step"}
WorkStates == {"none", "waiting", "active", "done"}
NoWork == [w \in WorkNames |-> "none"]

JobsOf(r) == {"stall", "wait"} \X {r}
Jobs == UNION {JobsOf(r) : r \in Runs}
Markers == {"timer", "recovery"}
NotMarking == [r \in Runs |-> [m \in Markers |-> "no"]]
NoCounts == [running |-> 0, awaiting |-> 0]
NothingRead == [r \in {} |-> Absent]

VARIABLES
  config,    \* [kind, action]: the configured await; action is read of events only
  phase,     \* where the process is: down, booting, recovering or up
  index,     \* [Runs -> entry]: the run index
  stream,    \* [Runs -> set of types]: what each run's stream holds
  stats,     \* the flow's running and awaiting counters
  work,      \* [Runs -> [WorkNames -> state]]: the jobs in the queue
  jobs,      \* the persisted one-time jobs of the scheduler
  armed,     \* those with a timer in this process
  firing,    \* those whose handler runs or ran and that are to be unscheduled
  due,       \* those whose time came while the server was down
  chain,     \* [Runs -> Seq(events)]: the run's processing chain
  persisted, \* the runs whose first event of the chain is persisted
  extending, \* .. and whose stall timeout is unscheduled, to be scheduled again
  subs,      \* the runs whose event subscription this process holds
  resolving, \* [Runs -> Nat]: event awaits between unschedule and publish
  marking,   \* [Runs -> [Markers -> status]]: markAsStalled between read and write
  todo,      \* what runStartupRecovery read and has not looked at yet
  found,     \* the counts it made of what it read
  upsets     \* how many stops, calls and matching events there were

store == <<index, stream, stats>>
scheduler == <<jobs, armed, firing, due>>
bus == <<chain, persisted, extending>>
awaits == <<subs, resolving>>
recovery == <<marking, todo, found>>
vars == <<config, phase, index, stream, stats, work, jobs, armed, firing, due, chain, persisted,
          extending, subs, resolving, marking, todo, found, upsets>>

Init ==
  /\ config \in {c \in [kind : Kinds, action : Actions] : c.kind = "event" \/ c.action = "fail"}
  /\ phase = "up"
  /\ index = [r \in Runs |-> Absent]
  /\ stream = [r \in Runs |-> {}]
  /\ stats = NoCounts
  /\ work = [r \in Runs |-> NoWork]
  /\ jobs = {} /\ armed = {} /\ firing = {} /\ due = {}
  /\ chain = [r \in Runs |-> <<>>] /\ persisted = {} /\ extending = {}
  /\ subs = {} /\ resolving = [r \in Runs |-> 0]
  /\ marking = NotMarking /\ todo = NothingRead /\ found = NoCounts
  /\ upsets = 0

-----------------------------------------------------------------------------
(* The bus, the queue and the scheduler. *)

Listening == phase \in {"recovering", "up"}

\* An event published before flow wiring subscribes reaches nobody.
Publish(r, e) ==
  /\ chain' = [chain EXCEPT ![r] = IF Listening THEN Append(@, e) ELSE @]
  /\ UNCHANGED <<persisted, extending>>

\* enqueue with a job id: a job with that id is left as it is.
Enqueue(r, ws) ==
  work' = [work EXCEPT ![r] =
             [w \in WorkNames |-> IF w \in ws /\ @[w] = "none" THEN "waiting" ELSE @[w]]]

\* schedule: an id that is scheduled already is replaced.
Schedule(j) ==
  /\ jobs' = jobs \cup {j} /\ armed' = armed \cup {j} /\ due' = due \ {j}
  /\ UNCHANGED firing

Unschedule(js) ==
  /\ jobs' = jobs \ js /\ armed' = armed \ js /\ due' = due \ js
  /\ UNCHANGED firing

\* The time of an armed job comes, or came while the server was down.
Fire(j) ==
  /\ j \in armed
  /\ armed' = armed \ {j} /\ firing' = firing \cup {j} /\ due' = due \ {j}
  /\ UNCHANGED jobs

\* One more of what the environment does.
Upset == upsets < MaxUpsets /\ upsets' = upsets + 1

\* What useFlow().isRunning takes for an active run, and what the handlers go on with.
IsRunning(r) == index[r].status \in ActiveStatuses
Open(r) == index[r].status \notin {"canceled", "absent"}

-----------------------------------------------------------------------------
(* startFlow, cancelFlow, restartFlow, clear-history. *)

\* The entry job is enqueued, and flow.start published.
StartFlow(r) ==
  /\ phase = "up" /\ work[r]["entry"] = "none"
  /\ Enqueue(r, {"entry"})
  /\ Publish(r, Event("flow.start"))
  /\ UNCHANGED <<config, phase, store, scheduler, awaits, recovery, upsets>>

\* The API's callers know a run from the index.
Call(r) ==
  /\ phase = "up" /\ index[r] # Absent /\ Upset

\* cancelFlow cancels, whatever status it reads for the statistics.
CancelFlow(r) ==
  /\ Call(r)
  /\ Publish(r, Cancellation(index[r].status))
  /\ UNCHANGED <<config, phase, store, work, scheduler, awaits, recovery>>

\* restartFlow cancels an active run and starts another, which is like this one and
\* not followed.
RestartFlow(r) ==
  /\ Call(r)
  /\ IF IsRunning(r) THEN Publish(r, Cancellation(index[r].status)) ELSE UNCHANGED bus
  /\ UNCHANGED <<config, phase, store, work, scheduler, awaits, recovery>>

\* clear-history deletes the streams of the listed runs and their entries, whatever
\* their status.
ClearHistory(r) ==
  /\ Call(r)
  /\ stream' = [stream EXCEPT ![r] = {}]
  /\ index' = [index EXCEPT ![r] = Absent]
  /\ UNCHANGED <<config, phase, stats, work, scheduler, bus, awaits, recovery>>

-----------------------------------------------------------------------------
(* The workers. *)

Take(r, w, from, to) ==
  /\ phase = "up" /\ work[r][w] = from /\ Len(chain[r]) < MaxChain
  /\ work' = [work EXCEPT ![r][w] = to]

\* A step's job is taken and announced ..
StartStep(r, w) ==
  /\ Take(r, w, "waiting", "active")
  /\ Publish(r, Event(StartOf[w]))
  /\ UNCHANGED <<config, phase, store, scheduler, awaits, recovery, upsets>>

\* .. and when its handler has returned, announced as done.
CompleteStep(r, w) ==
  /\ Take(r, w, "active", "done")
  /\ Publish(r, Event(CompletionOf[w]))
  /\ UNCHANGED <<config, phase, store, scheduler, awaits, recovery, upsets>>

\* awaitRegisterHandler: a time or schedule await is scheduled ..
ScheduleWait(r) ==
  /\ config.kind # "event"
  /\ Take(r, "register", "waiting", "active")
  /\ Schedule(<<"wait", r>>)
  /\ UNCHANGED <<config, phase, store, bus, awaits, recovery, upsets>>

\* .. and then announced.
AnnounceWait(r) ==
  /\ config.kind # "event"
  /\ Take(r, "register", "active", "done")
  /\ Publish(r, Event("await.registered"))
  /\ UNCHANGED <<config, phase, store, scheduler, awaits, recovery, upsets>>

\* An event await subscribes and is announced ..
SubscribeWait(r) ==
  /\ config.kind = "event"
  /\ Take(r, "register", "waiting", "active")
  /\ subs' = subs \cup {r}
  /\ Publish(r, Event("await.registered"))
  /\ UNCHANGED <<config, phase, store, scheduler, resolving, recovery, upsets>>

\* .. and then gets its timeout scheduled.
ScheduleTimeout(r) ==
  /\ config.kind = "event"
  /\ Take(r, "register", "active", "done")
  /\ Schedule(<<"wait", r>>)
  /\ UNCHANGED <<config, phase, store, bus, awaits, recovery, upsets>>

-----------------------------------------------------------------------------
(* The ends of the awaits, the stall timeout. *)

\* A matching event: the handler of the subscription goes on to the unscheduling.
EventArrives(r) ==
  /\ r \in subs /\ Upset
  /\ resolving' = [resolving EXCEPT ![r] = @ + 1]
  /\ UNCHANGED <<config, phase, store, work, scheduler, bus, subs, recovery>>

\* resolveEventAwait unschedules the timeout, publishes, and the subscription ends.
ResolveEventAwait(r) ==
  /\ resolving[r] > 0
  /\ resolving' = [resolving EXCEPT ![r] = @ - 1]
  /\ Unschedule({<<"wait", r>>})
  /\ Publish(r, Event("await.resolved"))
  /\ subs' = subs \ {r}
  /\ UNCHANGED <<config, phase, store, work, recovery, upsets>>

\* A time or schedule await resolves; an event await times out, and ends the
\* subscription if this process has it.
WaitFires(r) ==
  /\ Fire(<<"wait", r>>)
  /\ Publish(r, Event(IF config.kind = "event" THEN "await.timeout" ELSE "await.resolved"))
  /\ subs' = subs \ {r}
  /\ UNCHANGED <<config, phase, store, work, resolving, recovery, upsets>>

\* markAsStalled reads the status ..
ReadStatus(r, m) == marking' = [marking EXCEPT ![r][m] = IF IsRunning(r) THEN index[r].status ELSE "no"]

StallFires(r) ==
  /\ marking[r]["timer"] = "no"
  /\ Fire(<<"stall", r>>)
  /\ ReadStatus(r, "timer")
  /\ UNCHANGED <<config, phase, store, work, bus, awaits, todo, found, upsets>>

\* findStalledSteps: begun, and neither completed, failed nor stalled.
StalledSteps(r) == {s \in Steps : StartOf[s] \in stream[r] /\ EndsOf[s] \cap stream[r] = {}}

\* .. and writes it; index.update throws if the entry is gone.
MarkAsStalled(r, m) ==
  /\ marking[r][m] # "no"
  /\ marking' = [marking EXCEPT ![r][m] = "no"]
  /\ IF index[r] = Absent
       THEN UNCHANGED <<index, stream>>
       ELSE /\ index' = [index EXCEPT ![r].status = "stalled"]
            /\ stream' = [stream EXCEPT ![r] =
                 @ \cup {"flow.stalled"} \cup {StallOf[s] : s \in StalledSteps(r)}]
  /\ UNCHANGED <<config, phase, stats, work, scheduler, bus, awaits, todo, found, upsets>>

\* When its handler is done a one-time job is unscheduled, whatever it is by now.
FinishJob(j) ==
  /\ j \in firing
  /\ j[1] = "stall" => marking[j[2]]["timer"] = "no"
  /\ firing' = firing \ {j}
  /\ jobs' = jobs \ {j} /\ armed' = armed \ {j} /\ due' = due \ {j}
  /\ UNCHANGED <<config, phase, store, work, bus, awaits, recovery, upsets>>

\* Time passes while the server is down.
Elapse(j) ==
  /\ phase = "down" /\ j \in jobs \ due
  /\ due' = due \cup {j}
  /\ UNCHANGED <<config, phase, store, work, jobs, armed, firing, bus, awaits, recovery, upsets>>

-----------------------------------------------------------------------------
(* Flow wiring: an event is persisted and counted, then orchestrated. *)

Move(from, to) == [stats EXCEPT ![from] = @ - 1, ![to] = @ + 1]

\* handleFlowStats of the persisted event.
CountEvent(e) ==
  CASE e.type = "flow.start" -> [stats EXCEPT !.running = @ + 1]
    [] e.type \in TerminalTypes -> [stats EXCEPT !.running = @ - 1]
    [] e.type = "flow.cancel" /\ e.was = "awaiting" -> [stats EXCEPT !.awaiting = @ - 1]
    [] e.type = "flow.cancel" /\ e.was # "awaiting" -> [stats EXCEPT !.running = @ - 1]
    [] e.type = "await.registered" -> Move("running", "awaiting")
    [] e.type \in {"await.resolved", "await.timeout"} -> Move("awaiting", "running")
    [] OTHER -> stats

Persist(r) ==
  /\ Listening /\ chain[r] # <<>> /\ r \notin persisted
  /\ stream' = [stream EXCEPT ![r] = @ \cup {Head(chain[r]).type}]
  /\ stats' = CountEvent(Head(chain[r]))
  /\ persisted' = persisted \cup {r}
  /\ UNCHANGED <<config, phase, index, work, scheduler, chain, extending, awaits, recovery,
                 upsets>>

\* The first event of the chain is handled; what it makes the wiring publish goes
\* to the end.
Handle(r, types, published) ==
  /\ r \in persisted /\ Head(chain[r]).type \in types
  /\ chain' = [chain EXCEPT ![r] = Tail(@) \o published]
  /\ persisted' = persisted \ {r} /\ extending' = extending \ {r}
  /\ UNCHANGED <<config, phase, stream, stats, awaits, recovery, upsets>>

OnFlowStart(r) ==
  /\ Handle(r, {"flow.start"}, <<>>)
  /\ index' = [index EXCEPT ![r] = [status |-> "running", wait |-> "none", bare |-> "none"]]
  /\ Schedule(<<"stall", r>>)
  /\ UNCHANGED work

\* updateWithRetry throws without an entry, and then nothing is unscheduled.
OnFlowCancel(r) ==
  /\ Handle(r, {"flow.cancel"}, <<>>)
  /\ IF index[r] = Absent
       THEN UNCHANGED <<index, scheduler>>
       ELSE /\ index' = [index EXCEPT ![r].status = "canceled"]
            /\ Unschedule(JobsOf(r))
  /\ UNCHANGED work

OnTerminal(r) ==
  /\ Handle(r, TerminalTypes, <<>>)
  /\ Unschedule(JobsOf(r))
  /\ UNCHANGED <<index, work>>

\* Every step event extends the stall timeout: it is unscheduled ..
UnscheduleStall(r) ==
  /\ r \in persisted \ extending /\ Head(chain[r]).type \in StartTypes \cup FinishTypes
  /\ extending' = extending \cup {r}
  /\ Unschedule({<<"stall", r>>})
  /\ UNCHANGED <<config, phase, store, work, chain, persisted, awaits, recovery, upsets>>

\* .. and scheduled again, which is all that a step's start does.
OnStarted(r) ==
  /\ r \in extending
  /\ Handle(r, StartTypes, <<>>)
  /\ Schedule(<<"stall", r>>)
  /\ UNCHANGED <<index, work>>

\* checkAndTriggerPendingSteps: what the step behind the await gets next, given
\* the state of the await.
Pending(r, wait) ==
  IF \/ index[r] = Absent \/ "flow.cancel" \in stream[r]
     \/ "entry.completed" \notin stream[r] \/ "step.completed" \in stream[r]
  THEN {}
  ELSE CASE wait = "none" -> {"register"}
         [] wait = "resolved" -> {"step"}
         [] OTHER -> {}

\* analyzeFlowCompletion, and what the awaits make of it.
Analysis(r) ==
  CASE "flow.cancel" \in stream[r] -> "canceled"
    [] "step.failed" \in stream[r] -> "failed"
    [] {"entry.completed", "step.completed"} \subseteq stream[r] -> "completed"
    [] OTHER -> "running"

Verdict(r) ==
  IF index[r].bare = "timeout" THEN "failed"
  ELSE IF index[r].wait = "awaiting" THEN "awaiting" ELSE Analysis(r)

\* A verdict is published once; it may be in the chain already.
Publishes(r) ==
  /\ Open(r) /\ Verdict(r) \in {"completed", "failed"}
  /\ TerminalTypes \cap stream[r] = {}
  /\ \A n \in DOMAIN chain[r] : chain[r][n].type \notin TerminalTypes

OnFinished(r) ==
  /\ r \in extending
  /\ Handle(r, FinishTypes,
            IF Publishes(r) THEN <<Event(IF Verdict(r) = "completed" THEN "flow.completed"
                                         ELSE "flow.failed")>> ELSE <<>>)
  /\ Schedule(<<"stall", r>>)
  /\ Enqueue(r, IF Head(chain[r]).type = "step.failed" THEN {} ELSE Pending(r, index[r].wait))
  /\ index' = IF Open(r) THEN [index EXCEPT ![r].status = Verdict(r)] ELSE index

\* Faulty: an awaiting run gives up its stall timeout.
OnAwaitRegisteredUnwatched(r) ==
  /\ Handle(r, {"await.registered"}, <<>>)
  /\ IF Open(r)
       THEN /\ index' = [index EXCEPT ![r].status = "awaiting", ![r].wait = "awaiting"]
            /\ Unschedule({<<"stall", r>>})
       ELSE UNCHANGED <<index, scheduler>>
  /\ UNCHANGED work

OnAwaitRegistered(r) ==
  /\ Handle(r, {"await.registered"}, <<>>)
  /\ IF Open(r)
       THEN index' = [index EXCEPT ![r].status = "awaiting", ![r].wait = "awaiting"]
       ELSE UNCHANGED index
  /\ UNCHANGED <<work, scheduler>>

OnAwaitResolved(r) ==
  /\ Handle(r, {"await.resolved"}, <<>>)
  /\ IF Open(r)
       THEN /\ index' = [index EXCEPT ![r].wait = "resolved"]
            /\ Enqueue(r, Pending(r, "resolved"))
       ELSE UNCHANGED <<index, work>>
  /\ UNCHANGED scheduler

\* The entry of a timeout is written under the bare step name; a failing one also
\* fails the step.
OnAwaitTimeout(r) ==
  /\ LET fails == index[r].status \notin {"canceled", "absent"} /\ config.action = "fail"
         goesOn == index[r].status \notin {"canceled", "absent"} /\ config.action = "continue"
     IN  /\ Handle(r, {"await.timeout"}, IF fails THEN <<Event("step.failed")>> ELSE <<>>)
         /\ index' = [index EXCEPT ![r].bare =
                        IF fails THEN "timeout" ELSE IF goesOn THEN "resolved" ELSE @]
  /\ UNCHANGED <<work, scheduler>>

-----------------------------------------------------------------------------
(* Stop and start. *)

\* What is in memory is gone; the queue delivers the jobs of its workers again, and
\* a job that has fired and is still there is overdue.
Crash ==
  /\ phase # "down" /\ Upset
  /\ phase' = "down"
  /\ work' = [r \in Runs |-> [w \in WorkNames |->
       IF work[r][w] = "active" THEN "waiting" ELSE work[r][w]]]
  /\ armed' = {} /\ firing' = {}
  /\ chain' = [r \in Runs |-> <<>>] /\ persisted' = {} /\ extending' = {}
  /\ subs' = {} /\ resolving' = [r \in Runs |-> 0]
  /\ marking' = NotMarking /\ todo' = NothingRead /\ found' = NoCounts
  /\ due' = due \cup ((jobs \cap firing) \ armed)
  /\ UNCHANGED <<config, store, jobs>>

\* Faulty: an overdue job is dropped, whatever it is.
BootDropsOverdue ==
  /\ phase = "down"
  /\ phase' = "booting"
  /\ jobs' = jobs \ due /\ armed' = jobs \ due /\ due' = {}
  /\ UNCHANGED <<config, store, work, firing, bus, awaits, recovery, upsets>>

\* The scheduler is started before flow wiring.  recoverJob arms the jobs again,
\* the overdue ones to fire at once, and drops the overdue timeouts of events.
Boot ==
  /\ phase = "down"
  /\ phase' = "booting"
  /\ LET dropped == {j \in jobs \cap due : config.kind = "event" /\ j[1] = "wait"}
     IN  jobs' = jobs \ dropped /\ armed' = jobs \ dropped /\ due' = due \ dropped
  /\ UNCHANGED <<config, store, work, firing, bus, awaits, recovery, upsets>>

\* Flow wiring subscribes, and runStartupRecovery reads the run index.
CountOf(status) == Cardinality({r \in Runs : index[r].status = status})

ReadRuns ==
  /\ phase = "booting"
  /\ phase' = "recovering"
  /\ todo' = [r \in {r \in Runs : index[r] # Absent} |-> index[r]]
  /\ found' = [running |-> CountOf("running"), awaiting |-> CountOf("awaiting")]
  /\ UNCHANGED <<config, store, work, scheduler, bus, awaits, marking, upsets>>

\* The deadline in the index has passed or not: a time await's has when its job is
\* due, fired or gone, and only then; the others' come from other settings than their jobs'
\* (the index falls back to 24 hours), so either may be.
Overdue(r) ==
  IF config.kind = "time" THEN {~(<<"wait", r>> \in armed \ due)} ELSE BOOLEAN

Recovering == \E r \in Runs : marking[r]["recovery"] # "no"

\* Faulty: whether the run waits is not looked at.
RecoverRunHasty(r) ==
  /\ phase = "recovering" /\ r \in DOMAIN todo /\ ~Recovering
  /\ todo' = [q \in DOMAIN todo \ {r} |-> todo[q]]
  /\ IF todo[r].status \in ActiveStatuses THEN ReadStatus(r, "recovery") ELSE UNCHANGED marking
  /\ UNCHANGED <<config, phase, store, work, scheduler, bus, awaits, found, upsets>>

\* One run after the other, as they were read: those that are active and wait for
\* nothing, or too long, are marked.
RecoverRun(r) ==
  /\ phase = "recovering" /\ r \in DOMAIN todo /\ ~Recovering
  /\ todo' = [q \in DOMAIN todo \ {r} |-> todo[q]]
  /\ \E overdue \in Overdue(r) :
       LET valid == todo[r].wait = "awaiting" /\ ~overdue
       IN  /\ IF todo[r].status \in ActiveStatuses /\ ~valid
                THEN ReadStatus(r, "recovery") ELSE UNCHANGED marking
           /\ index' = IF todo[r].status = "running" /\ valid
                         THEN [index EXCEPT ![r].status = "awaiting"] ELSE index
  /\ UNCHANGED <<config, phase, stream, stats, work, scheduler, bus, awaits, found, upsets>>

\* validateFlowStats writes the counts of what was read, and the workers start.
ValidateStats ==
  /\ phase = "recovering" /\ DOMAIN todo = {} /\ ~Recovering
  /\ phase' = "up"
  /\ stats' = found
  /\ found' = NoCounts
  /\ UNCHANGED <<config, index, stream, work, scheduler, bus, awaits, marking, todo, upsets>>

-----------------------------------------------------------------------------
Wiring(r) ==
  \/ Persist(r) \/ OnFlowStart(r) \/ OnFlowCancel(r) \/ OnTerminal(r)
  \/ UnscheduleStall(r) \/ OnStarted(r) \/ OnFinished(r)
  \/ OnAwaitRegistered(r) \/ OnAwaitResolved(r) \/ OnAwaitTimeout(r)

Worker(r) ==
  \/ \E w \in Steps : StartStep(r, w) \/ CompleteStep(r, w)
  \/ ScheduleWait(r) \/ AnnounceWait(r) \/ SubscribeWait(r) \/ ScheduleTimeout(r)

Timers(r) == WaitFires(r) \/ StallFires(r) \/ \E m \in Markers : MarkAsStalled(r, m)

Startup == Boot \/ ReadRuns \/ (\E r \in Runs : RecoverRun(r)) \/ ValidateStats

Next ==
  \/ \E r \in Runs : StartFlow(r) \/ CancelFlow(r) \/ RestartFlow(r) \/ ClearHistory(r)
  \/ \E r \in Runs : Worker(r) \/ Wiring(r) \/ Timers(r)
  \/ \E r \in Runs : EventArrives(r) \/ ResolveEventAwait(r)
  \/ \E j \in Jobs : FinishJob(j) \/ Elapse(j)
  \/ Crash \/ Startup

Spec == Init /\ [][Next]_vars

\* The server is started again, workers and timers run, the deadlines of jobs
\* pass, and what was begun goes on.  Nobody has to call anything, and no event
\* has to come.
Fairness ==
  /\ WF_vars(Startup)
  /\ \A r \in Runs :
       /\ WF_vars(Worker(r)) /\ WF_vars(Wiring(r)) /\ WF_vars(Timers(r))
       /\ WF_vars(ResolveEventAwait(r))
  /\ \A j \in Jobs : WF_vars(FinishJob(j))

FairSpec == Spec /\ Fairness

-----------------------------------------------------------------------------
\* Every variable stays within its type.
Messages == [type : EventTypes, was : Statuses \cup {"none", "absent"}]
TypeOK ==
  /\ config \in [kind : Kinds, action : Actions]
  /\ phase \in {"down", "booting", "recovering", "up"}
  /\ index \in [Runs -> Entries \cup {Absent}]
  /\ stream \in [Runs -> SUBSET EventTypes]
  /\ {stats, found} \subseteq [{"running", "awaiting"} -> Int]
  /\ work \in [Runs -> [WorkNames -> WorkStates]]
  /\ armed \cup firing \cup jobs \cup due \subseteq Jobs
  /\ chain \in [Runs -> Seq(Messages)]
  /\ resolving \in [Runs -> Nat]
  /\ marking \in [Runs -> [Markers -> Statuses \cup {"no"}]]
  /\ subs \cup persisted \cup extending \cup DOMAIN todo \subseteq Runs

\* Something is under way for the run, in the chain, in the queue or in memory.
Busy(r) ==
  \/ chain[r] # <<>> \/ resolving[r] > 0
  \/ \E w \in WorkNames : work[r][w] \in {"waiting", "active"}
  \/ \E m \in Markers : marking[r][m] # "no"
  \/ firing \cap JobsOf(r) # {}

\* Its step has not ended, and it was neither canceled nor ever marked as stalled;
\* nor was its history cleared.
Unfinished(r) ==
  /\ "flow.start" \in stream[r]
  /\ stream[r] \cap (EndsOf["step"] \cup {"flow.cancel", "flow.stalled"}) = {}

-----------------------------------------------------------------------------
(* What the properties rest on, run by run. *)

\* Where the chain holds an event of a type.
At(r, type) == {n \in DOMAIN chain[r] : chain[r][n].type = type}

\* A persisted job has a timer, or a handler that will drop it.
Timed == armed \subseteq jobs /\ (phase # "down" => jobs \subseteq armed \cup firing)

\* Before a run is started there is nothing of it.
Untouched(r) ==
  work[r]["entry"] = "none" =>
    /\ work[r]["register"] = "none" /\ work[r]["step"] = "none"
    /\ index[r] = Absent /\ chain[r] = <<>> /\ r \notin persisted
    /\ JobsOf(r) \cap (jobs \cup firing) = {}
    /\ r \notin subs /\ resolving[r] = 0

\* flow.start is published once, before all else, and makes the entry.
StartsFirst(r) ==
  /\ At(r, "flow.start") \subseteq {1}
  /\ At(r, "flow.start") # {} =>
       /\ index[r] = Absent /\ <<"stall", r>> \notin jobs \cup firing
       /\ work[r]["entry"] # "none" /\ work[r]["register"] = "none"
       /\ \A type \in TerminalTypes : At(r, type) = {}

\* The entry step is completed once, and only its completion leads to the await.
AwaitBegun(r) ==
  \/ work[r]["register"] # "none" \/ index[r].bare = "timeout"
  \/ <<"wait", r>> \in jobs \/ At(r, "await.timeout") # {}
EntryFirst(r) ==
  /\ \A m, n \in At(r, "entry.completed") : m = n
  /\ At(r, "entry.completed") # {} \/ "entry.completed" \in stream[r] \/ AwaitBegun(r)
       => work[r]["entry"] = "done"
  /\ "entry.completed" \in stream[r] =>
       At(r, "entry.completed") = {} \/ (1 \in At(r, "entry.completed") /\ r \in persisted)
  /\ AwaitBegun(r) => At(r, "entry.completed") = {}

\* A persisted event is in the stream, unless that was cleared.
HeadKept(r) ==
  r \in persisted =>
    /\ chain[r] # <<>>
    /\ Head(chain[r]).type \in stream[r] \/ "flow.start" \notin stream[r]

\* No verdict is published for an unfinished run.
VerdictEnds(r) == \A type \in TerminalTypes : At(r, type) # {} => ~Unfinished(r)

\* An unfinished run with an entry is active.
Live(r) == Unfinished(r) /\ index[r] # Absent
KeptActive(r) == Live(r) => IsRunning(r)

\* A stall timeout that has fired and marks nothing has no run to watch.
FiredInVain(r) ==
  <<"stall", r>> \in firing /\ marking[r]["timer"] = "no" => ~Live(r)

\* What the startup recovery has read is still so, as far as it goes by it: nobody
\* starts a run, and no worker goes on, before it is done.
WorkerTypes == {"flow.start", "await.registered"} \cup StartTypes \cup {CompletionOf[s] : s \in Steps}
Rereads(r) ==
  /\ phase \in {"down", "booting"} => chain[r] = <<>>
  /\ phase = "recovering" => \A type \in WorkerTypes : At(r, type) = {}
  /\ r \in DOMAIN todo =>
       /\ phase = "recovering" /\ index[r] # Absent
       /\ index[r].wait = "awaiting" => todo[r].wait = "awaiting"

RunInv(r) ==
  /\ Untouched(r) /\ StartsFirst(r) /\ EntryFirst(r) /\ HeadKept(r) /\ VerdictEnds(r)
  /\ KeptActive(r) /\ FiredInVain(r) /\ Rereads(r)

RecoveryInv == Timed /\ \A r \in Runs : RunInv(r)

-----------------------------------------------------------------------------
(* Why a stop between the unscheduling of a stall timeout and its scheduling *)
(* does no harm: the startup recovery marks the run.                         *)

\* The await's timer runs, or will run when the server is started.
TimerRuns(r) == <<"wait", r>> \in (IF phase = "down" THEN jobs ELSE armed) \ due

\* The recovery, in whatever state it is, marks the run.
Lapsed(r) == config.kind = "time" /\ ~TimerRuns(r)
ToBeMarked(r) ==
  /\ index[r].wait # "awaiting" \/ Lapsed(r)
  /\ \/ phase \in {"down", "booting"}
     \/ phase = "recovering" /\ marking[r]["recovery"] # "no"
     \/ /\ phase = "recovering" /\ r \in DOMAIN todo /\ todo[r].status \in ActiveStatuses
        /\ todo[r].wait # "awaiting" \/ Lapsed(r)

Covered(r) == Live(r) => <<"stall", r>> \in jobs \/ r \in extending \/ ToBeMarked(r)

ExtendsHead(r) ==
  r \in extending => r \in persisted /\ Head(chain[r]).type \in StartTypes \cup FinishTypes

\* The entry step is started before it is completed, and not once its completion has
\* been handled.
EntryOrder(r) ==
  /\ \A m \in At(r, "entry.started"), n \in At(r, "entry.completed") : m < n
  /\ "entry.completed" \in stream[r] \/ AwaitBegun(r) => At(r, "entry.started") = {}

\* The await has resolved, and what comes of it.
Released(r) ==
  \/ index[r].wait = "resolved" \/ At(r, "await.resolved") # {}
  \/ work[r]["step"] # "none" \/ At(r, "step.started") # {}

\* Nothing comes of an await before its registration is enqueued.
RegisterFirst(r) ==
  work[r]["register"] = "none" =>
    /\ ~Released(r) /\ index[r].wait # "awaiting" /\ At(r, "await.registered") = {}
    /\ r \notin subs /\ resolving[r] = 0 /\ <<"wait", r>> \notin jobs

\* A time await is announced when its registration is done, resolves when its timer is
\* gone, and a registration that a stop has interrupted leaves it unannounced.
TimeWaits(r) ==
  config.kind = "time" =>
    /\ r \notin subs /\ resolving[r] = 0
    /\ At(r, "await.registered") # {} \/ index[r].wait = "awaiting" => work[r]["register"] = "done"
    /\ Live(r) /\ Released(r) => ~TimerRuns(r)
    /\ Live(r) /\ work[r]["register"] = "waiting" =>
         ToBeMarked(r) \/ (phase = "up" /\ ~Released(r) /\ <<"wait", r>> \notin jobs)

\* An event await is announced before it resolves, and not again once it has.
EventWaits(r) ==
  config.kind = "event" =>
    /\ r \in subs \/ resolving[r] > 0 \/ At(r, "await.resolved") # {} =>
         work[r]["register"] \in {"active", "done"}
    /\ \A m \in At(r, "await.registered"), n \in At(r, "await.resolved") : m < n
    /\ Live(r) /\ index[r].wait = "resolved" =>
         /\ At(r, "await.registered") = {}
         /\ work[r]["register"] = "waiting" => ToBeMarked(r)
    /\ Live(r) /\ (work[r]["step"] # "none" \/ At(r, "step.started") # {}) =>
         index[r].wait = "resolved"

WatchInv(r) ==
  /\ Covered(r) /\ ExtendsHead(r) /\ EntryOrder(r) /\ RegisterFirst(r)
  /\ TimeWaits(r) /\ EventWaits(r)

Stopped == phase = "down" => armed = {}
WatchedInv == Stopped /\ \A r \in Runs : WatchInv(r)

-----------------------------------------------------------------------------
\* While the server is up, every unfinished run that the index has active has a
\* timer armed that will move it on, or something under way.
Watched ==
  phase = "up" => \A r \in Runs :
    IsRunning(r) /\ Unfinished(r) => armed \cap JobsOf(r) # {} \/ Busy(r)

\* No run is active and unfinished for ever.
Settles ==
  \A r \in Runs : IsRunning(r) /\ Unfinished(r) ~> ~(IsRunning(r) /\ Unfinished(r))

\* The startup recovery marks no run that a time await keeps waiting, with its timer
\* armed and its time still to come.
RecoverySparesWaits ==
  [][config.kind = "time" => \A r \in Runs :
       marking[r]["recovery"] = "no" /\ marking'[r]["recovery"] # "no" =>
         ~(index[r].wait = "awaiting" /\ <<"wait", r>> \in armed \ due)]_vars
==============================================================================
