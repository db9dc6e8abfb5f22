------------------------------- MODULE FlowRun -------------------------------
(***************************************************************************)
(* One run of one flow, from useFlow().startFlow to its terminal event, as  *)
(* events/wiring/flowWiring.ts orchestrates it together with the job        *)
(* processor (worker/node/runner.ts), the await patterns                    *)
(* (nitro/utils/awaitPatterns), the webhook route and the stall detector.   *)
(*                                                                         *)
(* Every instance of the server has its own in-process event bus and its    *)
(* own promise chain per run (flowProcessingChain), so the events published *)
(* on one instance are handled one after the other, in order.  The stream,  *)
(* the index entry, the job queue and the scheduler are shared.  A handler  *)
(* is cut at its awaits: each action below is what happens between two      *)
(* reads or writes of shared state.                                         *)
(***************************************************************************)
EXTENDS FlowGraph, Integers, FiniteSets

CONSTANTS
  Flow,            \* the analyzed flow: a member of Flows
  AwaitBefore,     \* the steps configured with awaitBefore
  AwaitAfter,      \* the steps configured with awaitAfter
  AwaitType,       \* [AwaitKeys -> {"time", "webhook"}]
  TimeoutAction,   \* [AwaitKeys -> {"fail", "continue", "retry"}]
  Instances,       \* the server instances
  MaxAttempts,     \* opts.attempts of every step job
  Faulty,          \* the steps whose handler may throw
  Silent,          \* the steps whose handler may return with declared events not emitted
  RemoveFinished,  \* removeOnComplete and removeOnFail are set
  EntryAfter,      \* what the entry handler cannot outrun: flow.start being
                   \* "published" or "indexed", or nothing: "any"
  MayStall,        \* the stall timeout may elapse
  MaxCalls,        \* bound: calls of the await webhook
  MaxCancels,      \* bound: calls of cancelFlow
  NoStep,          \* the stepName of an event that has none
  NoInstance       \* the instance of a job no worker has taken

Positions == {"before", "after"}
AwaitKeys == AllSteps \X Positions
\* awaitingSteps also receives entries under the bare step name (await.timeout).
IndexKeys == AllSteps \X (Positions \cup {"bare"})

ASSUME FlowRunAssumption ==
  /\ Flow \in Flows
  /\ Flow.subs[Entry] = {}
  /\ AwaitBefore \subseteq Steps /\ AwaitAfter \subseteq AllSteps
  /\ AwaitType \in [AwaitKeys -> {"time", "webhook"}]
  /\ TimeoutAction \in [AwaitKeys -> {"fail", "continue", "retry"}]
  /\ Instances # {} /\ NoInstance \notin Instances
  /\ NoStep \notin AllSteps
  /\ MaxAttempts \in Nat \ {0}
  /\ Faulty \subseteq AllSteps /\ Silent \subseteq AllSteps
  /\ RemoveFinished \in BOOLEAN /\ MayStall \in BOOLEAN
  /\ EntryAfter \in {"any", "published", "indexed"}
  /\ MaxCalls \in Nat /\ MaxCancels \in Nat

Statuses == {"none", "running", "awaiting", "completed", "failed", "canceled", "stalled"}
AwaitStates == {"none", "awaiting", "resolved", "timeout"}
TerminalTypes == {"flow.completed", "flow.failed"}
AwaitTypes == {"await.registered", "await.resolved", "await.timeout"}
StepTypes == {"step.started", "step.completed", "step.failed", "step.retry"}
EventTypes == {"flow.start", "flow.cancel", "flow.stalled", "emit"}
                 \cup TerminalTypes \cup AwaitTypes \cup StepTypes

\* arg is the part of data the handlers read: the emitted name, the await
\* position, or the previousStatus of a cancellation.
Records ==
  {e \in [type : EventTypes, step : AllSteps \cup {NoStep},
          arg : Events \cup Positions \cup Statuses] :
     /\ e.type \in StepTypes \cup AwaitTypes \cup {"emit"} => e.step \in AllSteps
     /\ e.type = "emit" => e.arg \in Events
     /\ e.type \in AwaitTypes => e.arg \in Positions}
Record(type, step, arg) == [type |-> type, step |-> step, arg |-> arg]
NoRecord == Record("flow.start", NoStep, "none")

\* Queue job ids: `${runId}__${step}` and its suffixes.  The jobs that run the
\* onAwaitResolve and onAwaitTimeout hooks of the user stay where enqueue puts
\* them: they publish nothing and touch no state of the run.
StepJobs == {"step", "resumed"} \X AllSteps
RegisterJobs == {"register-before", "register-after"} \X AllSteps
HookJobs == {"resolve", "timeout"} \X AllSteps
JobIds == StepJobs \cup RegisterJobs \cup HookJobs
JobStates == {"none", "waiting", "active", "done", "failed"}
Jobs == [st : JobStates, att : Nat, at : Instances \cup {NoInstance}, left : SUBSET Events]
NoJob == [st |-> "none", att |-> 0, at |-> NoInstance, left |-> {}]
NewJob == [NoJob EXCEPT !.st = "waiting"]
JobKey(j) == <<j[2], IF j[1] = "register-before" THEN "before" ELSE "after">>

Counters == {"total", "running", "awaiting", "success", "failure", "cancel"}

NoAwaits == [k \in IndexKeys |-> "none"]
NoEntry == [status |-> "none", emitted |-> {}, awaiting |-> NoAwaits]
NoLocal == [entry |-> NoEntry, pending |-> {}, verdict |-> "none", seen |-> FALSE]

VARIABLES
  stream,    \* the persisted events of the run, in append order
  entry,     \* the run's entry in the flow-run index (its metadata)
  stats,     \* the flow's counters in the flow index
  chain,     \* [Instances -> Seq]: events published and not yet handled
  pc,        \* [Instances -> stage]: where the handler of cur stands
  cur,       \* [Instances -> Records]: the event being handled
  local,     \* [Instances -> snapshot]: what the handler read before its last await
  tracker,   \* [Instances -> ..]: publishingTerminalEvents and its 200 ms timer
  jobs,      \* [JobIds -> Jobs]: the queue
  stallJob,  \* the stall-timeout job is scheduled
  timers,    \* the await jobs (resolution or timeout) that are scheduled
  start,     \* how far startFlow has come
  inflight,  \* [AwaitKeys -> Nat]: webhook calls past their checks
  calls,     \* webhook calls made
  canceling, \* the previousStatus a cancelFlow call has read, or "idle"
  cancels,   \* cancelFlow calls made
  stalling   \* the status markAsStalled has read, or "idle"

index == <<stream, entry, stats>>
handler == <<chain, pc, cur, local, tracker>>
scheduled == <<stallJob, timers>>
callers == <<start, inflight, calls, canceling, cancels>>
vars == <<stream, entry, stats, chain, pc, cur, local, tracker, jobs,
          stallJob, timers, start, inflight, calls, canceling, cancels, stalling>>

Init ==
  /\ stream = <<>>
  /\ entry = NoEntry
  /\ stats = [c \in Counters |-> 0]
  /\ chain = [i \in Instances |-> <<>>]
  /\ pc = [i \in Instances |-> "idle"]
  /\ cur = [i \in Instances |-> NoRecord]
  /\ local = [i \in Instances |-> NoLocal]
  /\ tracker = [i \in Instances |-> "off"]
  /\ jobs = [j \in JobIds |-> NoJob]
  /\ stallJob = FALSE
  /\ timers = {}
  /\ start = "no"
  /\ inflight = [k \in AwaitKeys |-> 0]
  /\ calls = 0
  /\ canceling = "idle"
  /\ cancels = 0
  /\ stalling = "idle"

-----------------------------------------------------------------------------
(* The bus, the queue and the counters. *)

Publish(i, e) == chain' = [chain EXCEPT ![i] = Append(@, e)]

Enqueue_AgainBug(ids) ==
  jobs' = [j \in JobIds |-> IF j \in ids /\ jobs[j].st \in {"none", "done"}
                            THEN NewJob ELSE jobs[j]]

\* queue.enqueue with a jobId: a job with that id is left as it is.
Enqueue(ids) ==
  jobs' = [j \in JobIds |-> IF j \in ids /\ jobs[j].st = "none" THEN NewJob ELSE jobs[j]]

Add(counter, n) == [stats EXCEPT ![counter] = @ + n]
Move(from, to) == [stats EXCEPT ![from] = @ - 1, ![to] = @ + 1]

CountEvent_FailedBug(e) ==
  CASE e.type = "flow.start" -> [Add("total", 1) EXCEPT !["running"] = @ + 1]
    [] e.type = "flow.completed" -> Move("running", "success")
    [] e.type = "flow.failed" -> Add("failure", 1)
    [] OTHER -> stats

\* handleFlowStats of a persisted event.  The persisted copy travels through the
\* chain once more before it is counted; the counters are only added to and
\* nothing in a run reads them, so it is counted here as it is persisted.
CountEvent(e) ==
  CASE e.type = "flow.start" -> [Add("total", 1) EXCEPT !["running"] = @ + 1]
    [] e.type = "flow.completed" -> Move("running", "success")
    [] e.type = "flow.failed" -> Move("running", "failure")
    [] e.type = "flow.cancel" ->
         Move(IF e.arg = "awaiting" THEN "awaiting" ELSE "running", "cancel")
    [] e.type = "await.registered" -> Move("running", "awaiting")
    [] e.type \in {"await.resolved", "await.timeout"} -> Move("awaiting", "running")
    [] OTHER -> stats

-----------------------------------------------------------------------------
(* startFlow: the entry job is enqueued first, flow.start published second. *)

StartFlow ==
  /\ start = "no"
  /\ start' = "enqueued"
  /\ Enqueue({<<"step", Entry>>})
  /\ UNCHANGED <<index, handler, scheduled, inflight, calls, canceling, cancels, stalling>>

PublishStart(i) ==
  /\ start = "enqueued"
  /\ start' = "published"
  /\ Publish(i, Record("flow.start", NoStep, "none"))
  /\ UNCHANGED <<index, pc, cur, local, tracker, jobs, scheduled, inflight, calls,
                 canceling, cancels, stalling>>

-----------------------------------------------------------------------------
(* processEventSequentially: persistence, then orchestration, then stats.    *)

EndHandler(i) ==
  /\ pc' = [pc EXCEPT ![i] = "idle"]
  /\ cur' = [cur EXCEPT ![i] = NoRecord]
  /\ local' = [local EXCEPT ![i] = NoLocal]

\* handlePersistence of an ingress event, and the statistics of its persisted copy.
Persist(i) ==
  /\ pc[i] = "idle" /\ chain[i] # <<>>
  /\ LET e == Head(chain[i])
     IN  /\ stream' = Append(stream, e)
         /\ stats' = CountEvent(e)
         /\ cur' = [cur EXCEPT ![i] = e]
         /\ chain' = [chain EXCEPT ![i] = Tail(@)]
         /\ pc' = [pc EXCEPT ![i] = e.type]
  /\ UNCHANGED <<entry, local, tracker, jobs, scheduled, callers, stalling>>

\* handlePersistence of a terminal event: unschedule every job of the run and
\* start the 200 ms timer that clears the tracker.
OnTerminal(i) ==
  /\ pc[i] \in TerminalTypes
  /\ stallJob' = FALSE
  /\ timers' = {}
  /\ tracker' = [tracker EXCEPT ![i] = IF @ = "on" THEN "clearing" ELSE @]
  /\ EndHandler(i)
  /\ UNCHANGED <<index, chain, jobs, callers, stalling>>

ClearTracker(i) ==
  /\ tracker[i] = "clearing"
  /\ tracker' = [tracker EXCEPT ![i] = "off"]
  /\ UNCHANGED <<index, chain, pc, cur, local, jobs, scheduled, callers, stalling>>

-----------------------------------------------------------------------------
(* handleOrchestration, one action per event type. *)

\* index.add replaces whatever metadata the entry had.
OnFlowStart(i) ==
  /\ pc[i] = "flow.start"
  /\ entry' = [NoEntry EXCEPT !.status = "running"]
  /\ stallJob' = TRUE
  /\ EndHandler(i)
  /\ UNCHANGED <<stream, stats, chain, tracker, jobs, timers, callers, stalling>>

\* updateWithRetry throws when there is no entry, and nothing is unscheduled.
OnFlowCancel(i) ==
  /\ pc[i] = "flow.cancel"
  /\ IF entry.status = "none"
       THEN EndHandler(i) /\ UNCHANGED entry
       ELSE /\ entry' = [entry EXCEPT !.status = "canceled"]
            /\ pc' = [pc EXCEPT ![i] = "unschedule"]
            /\ UNCHANGED <<cur, local>>
  /\ UNCHANGED <<stream, stats, chain, tracker, jobs, scheduled, callers, stalling>>

UnscheduleCanceled(i) ==
  /\ pc[i] = "unschedule"
  /\ stallJob' = FALSE
  /\ timers' = {}
  /\ EndHandler(i)
  /\ UNCHANGED <<index, chain, tracker, jobs, callers, stalling>>

\* step.started and step.retry only reschedule the stall timeout, step.completed
\* goes on to the pending steps and step.failed to the completion analysis.
OnStepEvent(i) ==
  /\ pc[i] \in StepTypes
  /\ stallJob' = TRUE
  /\ \/ /\ pc[i] \in {"step.started", "step.retry"}
        /\ EndHandler(i)
     \/ /\ pc[i] \in {"step.completed", "step.failed"}
        /\ pc' = [pc EXCEPT ![i] = IF @ = "step.completed" THEN "trigger" ELSE "analyze"]
        /\ UNCHANGED <<cur, local>>
  /\ UNCHANGED <<index, chain, tracker, jobs, timers, callers, stalling>>

Track_ReplaceBug(emitted, e) == {e}

\* emittedEvents is merged into what the entry holds.
Track(emitted, e) == emitted \cup {e}

\* Without an entry updateWithRetry throws, and the emit is lost to the index.
OnEmit(i) ==
  /\ pc[i] = "emit"
  /\ entry' = IF entry.status = "none" THEN entry
              ELSE [entry EXCEPT !.emitted = Track(@, cur[i].arg)]
  /\ EndHandler(i)
  /\ UNCHANGED <<stream, stats, chain, tracker, jobs, scheduled, callers, stalling>>

\* index.get: an await of a canceled run is dropped.
OnAwaitRegistered(i) ==
  /\ pc[i] = "await.registered"
  /\ IF entry.status \in {"none", "canceled"}
       THEN EndHandler(i)
       ELSE /\ pc' = [pc EXCEPT ![i] = "register"]
            /\ UNCHANGED <<cur, local>>
  /\ UNCHANGED <<index, chain, tracker, jobs, scheduled, callers, stalling>>

\* .. and then updateWithRetry, whatever the status has become.
SetAwaiting(i) ==
  /\ pc[i] = "register"
  /\ entry' = [entry EXCEPT !.status = "awaiting",
                            !.awaiting[<<cur[i].step, cur[i].arg>>] = "awaiting"]
  /\ EndHandler(i)
  /\ UNCHANGED <<stream, stats, chain, tracker, jobs, scheduled, callers, stalling>>

OnAwaitResolved(i) ==
  /\ pc[i] = "await.resolved"
  /\ IF entry.status \in {"none", "canceled"}
       THEN EndHandler(i) /\ UNCHANGED <<entry, jobs>>
       ELSE /\ entry' = [entry EXCEPT !.awaiting[<<cur[i].step, cur[i].arg>>] = "resolved"]
            /\ Enqueue({<<"resolve", cur[i].step>>})
            /\ pc' = [pc EXCEPT ![i] = "trigger"]
            /\ UNCHANGED <<cur, local>>
  /\ UNCHANGED <<stream, stats, chain, tracker, scheduled, callers, stalling>>

\* The awaitingSteps entry written here has the bare step name as its key.
OnAwaitTimeout(i) ==
  /\ pc[i] = "await.timeout"
  /\ LET s == cur[i].step
         action == TimeoutAction[<<s, cur[i].arg>>]
     IN  IF entry.status = "canceled"
         THEN EndHandler(i) /\ UNCHANGED <<entry, jobs, chain>>
         ELSE /\ Enqueue({<<"timeout", s>>})
              /\ \/ /\ action = "fail" /\ entry.status # "none"
                    /\ entry' = [entry EXCEPT !.awaiting[<<s, "bare">>] = "timeout"]
                    /\ Publish(i, Record("step.failed", s, "none"))
                    /\ EndHandler(i)
                 \/ /\ action = "continue" /\ entry.status # "none"
                    /\ entry' = [entry EXCEPT !.awaiting[<<s, "bare">>] = "resolved"]
                    /\ pc' = [pc EXCEPT ![i] = "trigger"]
                    /\ UNCHANGED <<cur, local, chain>>
                 \/ /\ action = "retry" \/ entry.status = "none"  \* retry: not implemented
                    /\ EndHandler(i)
                    /\ UNCHANGED <<entry, chain>>
  /\ UNCHANGED <<stream, stats, tracker, scheduled, callers, stalling>>

-----------------------------------------------------------------------------
(* checkAndTriggerPendingSteps: index.get, then stream.read, then one enqueue  *)
(* after the other, each of them awaited and none of them reading again.      *)

\* The step that emitted e first, as events.find sees it.
FirstEmitter(e) ==
  LET n == CHOOSE n \in DOMAIN stream :
             /\ stream[n].type = "emit" /\ stream[n].arg = e
             /\ \A m \in 1..(n - 1) : ~(stream[m].type = "emit" /\ stream[m].arg = e)
  IN  stream[n].step

IsEmitted(e) == \E n \in DOMAIN stream : stream[n].type = "emit" /\ stream[n].arg = e

IsDependencyAwaiting_RaceBug(s, awaiting) ==
  \E e \in Flow.subs[s] \cap Events :
    IsEmitted(e) /\ awaiting[<<FirstEmitter(e), "after">>] = "awaiting"

\* An emitting step holds its dependents back while its awaitAfter is open, or
\* has yet to be registered although the step has completed.
IsDependencyAwaiting(s, awaiting) ==
  \E e \in Flow.subs[s] \cap Events :
    /\ IsEmitted(e)
    /\ LET d == FirstEmitter(e)
       IN  \/ awaiting[<<d, "after">>] = "awaiting"
           \/ /\ awaiting[<<d, "after">>] # "resolved"
              /\ d \in AwaitAfter /\ d \in CompletedSteps(stream)

PendingSteps(snapshot) ==
  {s \in Steps \ CompletedSteps(stream) :
     /\ snapshot.awaiting[<<s, "before">>] \notin {"awaiting", "timeout"}
     /\ ~IsDependencyAwaiting(s, snapshot.awaiting)
     /\ CanTrigger(Flow, s, snapshot.emitted, CompletedSteps(stream))}

JobOf_UngatedBug(s, snapshot) == <<"step", s>>

\* The job a pending step gets: its awaitBefore registration, or its own run.
JobOf(s, snapshot) ==
  IF snapshot.awaiting[<<s, "before">>] = "resolved" THEN <<"resumed", s>>
  ELSE IF s \in AwaitBefore THEN <<"register-before", s>>
  ELSE <<"step", s>>

MayTrigger_CanceledBug(snapshot) == snapshot.status # "none"

\* No step is triggered without an entry, or with flow.cancel in the stream.
MayTrigger(snapshot) == snapshot.status # "none" /\ ~HasEvent(stream, "flow.cancel")

ReadIndex(i) ==
  /\ pc[i] = "trigger"
  /\ local' = [local EXCEPT ![i].entry = entry]
  /\ pc' = [pc EXCEPT ![i] = "pending"]
  /\ UNCHANGED <<index, chain, cur, tracker, jobs, scheduled, callers, stalling>>

ReadStream(i) ==
  /\ pc[i] = "pending"
  /\ LET snapshot == local[i].entry
     IN  local' = [local EXCEPT ![i].pending =
           IF MayTrigger(snapshot) THEN {JobOf(s, snapshot) : s \in PendingSteps(snapshot)} ELSE {}]
  /\ pc' = [pc EXCEPT ![i] = "enqueue"]
  /\ UNCHANGED <<index, chain, cur, tracker, jobs, scheduled, callers, stalling>>

EnqueuePending(i) ==
  /\ pc[i] = "enqueue"
  /\ \E j \in local[i].pending :
       /\ Enqueue({j})
       /\ local' = [local EXCEPT ![i].pending = @ \ {j}]
  /\ UNCHANGED <<index, chain, pc, cur, tracker, scheduled, callers, stalling>>

EndTrigger(i) ==
  /\ pc[i] = "enqueue" /\ local[i].pending = {}
  /\ IF cur[i].type = "step.completed"
       THEN pc' = [pc EXCEPT ![i] = "analyze"] /\ UNCHANGED <<cur, local>>
       ELSE EndHandler(i)
  /\ UNCHANGED <<index, chain, tracker, jobs, scheduled, callers, stalling>>

-----------------------------------------------------------------------------
(* The completion analysis: stream.read, index.get, updateWithRetry, publish. *)

AnalyzeStream(i) ==
  /\ pc[i] = "analyze"
  /\ local' = [local EXCEPT ![i].verdict = AnalyzeFlowCompletion(Flow, stream),
                            ![i].seen = \E t \in TerminalTypes : HasEvent(stream, t)]
  /\ pc' = [pc EXCEPT ![i] = "decide"]
  /\ UNCHANGED <<index, chain, cur, tracker, jobs, scheduled, callers, stalling>>

SomeAwait(state) == \E k \in IndexKeys : entry.awaiting[k] = state

Overridden_StateBug(verdict) ==
  IF SomeAwait("timeout") THEN "timeout"
  ELSE IF SomeAwait("awaiting") THEN "awaiting" ELSE verdict

\* An open await overrides the analysis, a timed-out one overrides both.
Overridden(verdict) ==
  IF SomeAwait("timeout") THEN "failed"
  ELSE IF SomeAwait("awaiting") THEN "awaiting" ELSE verdict

IsOpen_CanceledBug(status) == TRUE

IsOpen_StalledBug(status) == status \notin {"canceled", "stalled"}

\* The one status that is not overwritten.
IsOpen(status) == status # "canceled"

DecideStatus(i) ==
  /\ pc[i] = "decide"
  /\ IF IsOpen(entry.status)
       THEN /\ local' = [local EXCEPT ![i].verdict = Overridden(@)]
            /\ pc' = [pc EXCEPT ![i] = "write"]
            /\ UNCHANGED cur
       ELSE EndHandler(i)
  /\ UNCHANGED <<index, chain, tracker, jobs, scheduled, callers, stalling>>

AlreadyPublished_StreamBug(i) == tracker[i] # "off"

\* The stream read above holds a terminal event, or this instance is publishing one.
AlreadyPublished(i) == local[i].seen \/ tracker[i] # "off"

WriteStatus(i) ==
  /\ pc[i] = "write"
  /\ LET verdict == local[i].verdict
         publishes == /\ entry.status # "none"
                      /\ verdict \in {"completed", "failed"}
                      /\ ~AlreadyPublished(i)
     IN  /\ entry' = IF entry.status = "none" THEN entry
                     ELSE [entry EXCEPT !.status = verdict]
         /\ IF publishes
              THEN /\ tracker' = [tracker EXCEPT ![i] = "on"]
                   /\ Publish(i, Record(IF verdict = "completed" THEN "flow.completed"
                                        ELSE "flow.failed", NoStep, "none"))
              ELSE UNCHANGED <<tracker, chain>>
  /\ EndHandler(i)
  /\ UNCHANGED <<stream, stats, jobs, scheduled, callers, stalling>>

-----------------------------------------------------------------------------
(* createJobProcessor: a worker of instance i runs a step job.               *)

\* startFlow publishes flow.start as soon as the entry job is enqueued, so an
\* entry handler that awaits anything emits after it; the index entry is made
\* a few store calls later.
MayProceed(j) ==
  j[2] = Entry => CASE EntryAfter = "published" -> start = "published"
                    [] EntryAfter = "indexed" -> entry.status # "none"
                    [] OTHER -> TRUE

StartStep(i, j) ==
  /\ jobs[j].st = "waiting"
  /\ jobs' = [jobs EXCEPT ![j].st = "active", ![j].at = i, ![j].left = Flow.emits[j[2]]]
  /\ Publish(i, Record("step.started", j[2], "none"))
  /\ UNCHANGED <<index, pc, cur, local, tracker, scheduled, callers, stalling>>

\* The handler calls ctx.flow.emit, at most once for each event it declares.
EmitEvent(j, e) ==
  /\ jobs[j].st = "active" /\ e \in jobs[j].left /\ MayProceed(j)
  /\ jobs' = [jobs EXCEPT ![j].left = @ \ {e}]
  /\ Publish(jobs[j].at, Record("emit", j[2], e))
  /\ UNCHANGED <<index, pc, cur, local, tracker, scheduled, callers, stalling>>

CompleteStep_RedeliverBug(j) ==
  /\ jobs[j].st = "active" /\ MayProceed(j)
  /\ jobs[j].left = {} \/ j[2] \in Silent
  /\ Publish(jobs[j].at, Record("step.completed", j[2], "none"))
  /\ jobs' = [jobs EXCEPT ![j] = IF @.att = 0 THEN [NewJob EXCEPT !.att = 1]
                                 ELSE [NoJob EXCEPT !.st = "done"]]
  /\ UNCHANGED <<index, pc, cur, local, tracker, scheduled, callers, stalling>>

\* step.completed is published whenever the handler returns, and what it has emitted
\* is its own affair; then awaitAfter is registered through the queue.
CompleteStep(j) ==
  /\ jobs[j].st = "active" /\ MayProceed(j)
  /\ jobs[j].left = {} \/ j[2] \in Silent
  /\ Publish(jobs[j].at, Record("step.completed", j[2], "none"))
  /\ LET after == <<"register-after", j[2]>>
     IN  jobs' = [jobs EXCEPT
           ![j] = [NoJob EXCEPT !.st = "done"],
           ![after] = IF j[2] \in AwaitAfter /\ @.st = "none" THEN NewJob ELSE @]
  /\ UNCHANGED <<index, pc, cur, local, tracker, scheduled, callers, stalling>>

\* step.retry while attempts remain, step.failed on the last one.
FailStep(j) ==
  /\ jobs[j].st = "active" /\ j[2] \in Faulty /\ MayProceed(j)
  /\ LET retries == jobs[j].att + 1 < MaxAttempts
     IN  /\ Publish(jobs[j].at,
                    Record(IF retries THEN "step.retry" ELSE "step.failed", j[2], "none"))
         /\ jobs' = [jobs EXCEPT ![j] =
              IF retries THEN [NewJob EXCEPT !.att = jobs[j].att + 1]
                         ELSE [NoJob EXCEPT !.st = "failed"]]
  /\ UNCHANGED <<index, pc, cur, local, tracker, scheduled, callers, stalling>>

\* cleanupCompletedJobs and cleanupFailedJobs forget the job, and with it its id.
RemoveJob(j) ==
  /\ RemoveFinished
  /\ jobs[j].st \in {"done", "failed"}
  /\ jobs' = [jobs EXCEPT ![j] = NoJob]
  /\ UNCHANGED <<index, handler, scheduled, callers, stalling>>

-----------------------------------------------------------------------------
(* awaitRegisterHandler: a time await is scheduled and then announced, a      *)
(* webhook await is announced and then gets its timeout scheduled.            *)

Announce(i, k) == Publish(i, Record("await.registered", k[1], k[2]))

RegisterAwait(i, j) ==
  /\ jobs[j].st = "waiting"
  /\ jobs' = [jobs EXCEPT ![j].st = "active", ![j].at = i]
  /\ IF AwaitType[JobKey(j)] = "time"
       THEN timers' = timers \cup {JobKey(j)} /\ UNCHANGED chain
       ELSE Announce(i, JobKey(j)) /\ UNCHANGED timers
  /\ UNCHANGED <<index, pc, cur, local, tracker, stallJob, callers, stalling>>

FinishRegister(j) ==
  /\ jobs[j].st = "active"
  /\ jobs' = [jobs EXCEPT ![j] = [NoJob EXCEPT !.st = "done"]]
  /\ IF AwaitType[JobKey(j)] = "time"
       THEN Announce(jobs[j].at, JobKey(j)) /\ UNCHANGED timers
       ELSE timers' = timers \cup {JobKey(j)} /\ UNCHANGED chain
  /\ UNCHANGED <<index, pc, cur, local, tracker, stallJob, callers, stalling>>

-----------------------------------------------------------------------------
(* The scheduler's timers, the webhook route, cancelFlow, the stall detector. *)

\* A time await resolves, a webhook await times out.
TimerFires(i, k) ==
  /\ k \in timers
  /\ timers' = timers \ {k}
  /\ Publish(i, Record(IF AwaitType[k] = "time" THEN "await.resolved"
                       ELSE "await.timeout", k[1], k[2]))
  /\ UNCHANGED <<index, pc, cur, local, tracker, jobs, stallJob, callers, stalling>>

\* webhook.await.ts: the route reads the index, preferring position "before".
CheckWebhook(k) ==
  /\ calls < MaxCalls
  /\ AwaitType[k] = "webhook"
  /\ entry.status \in {"running", "awaiting"}
  /\ entry.awaiting[k] = "awaiting"
  /\ k[2] = "after" => entry.awaiting[<<k[1], "before">>] # "awaiting"
  /\ calls' = calls + 1
  /\ inflight' = [inflight EXCEPT ![k] = @ + 1]
  /\ UNCHANGED <<index, handler, jobs, scheduled, start, canceling, cancels, stalling>>

\* .. reads the body, and then resolveWebhookAwait unschedules and publishes.
ResolveWebhook(i, k) ==
  /\ inflight[k] > 0
  /\ inflight' = [inflight EXCEPT ![k] = @ - 1]
  /\ timers' = timers \ {k}
  /\ Publish(i, Record("await.resolved", k[1], k[2]))
  /\ UNCHANGED <<index, pc, cur, local, tracker, jobs, stallJob, start, calls,
                 canceling, cancels, stalling>>

\* cancelFlow reads previousStatus for the statistics, and checks nothing.
ReadPreviousStatus ==
  /\ start = "published" /\ cancels < MaxCancels /\ canceling = "idle"
  /\ cancels' = cancels + 1
  /\ canceling' = entry.status
  /\ UNCHANGED <<index, handler, jobs, scheduled, start, inflight, calls, stalling>>

PublishCancel(i) ==
  /\ canceling # "idle"
  /\ canceling' = "idle"
  /\ Publish(i, Record("flow.cancel", NoStep, canceling))
  /\ UNCHANGED <<index, pc, cur, local, tracker, jobs, scheduled, start, inflight,
                 calls, cancels, stalling>>

\* markAsStalled: index.get ..
StallTimeout ==
  /\ MayStall /\ stallJob /\ stalling = "idle"
  /\ stallJob' = FALSE
  /\ stalling' = IF entry.status \in {"running", "awaiting"} THEN entry.status ELSE "idle"
  /\ UNCHANGED <<index, handler, jobs, timers, callers>>

\* .. then index.update, and flow.stalled goes to the stream but not to the bus.
\* (The step.stalled records it adds before are for the display: nothing reads them.)
MarkStalled ==
  /\ stalling # "idle"
  /\ entry' = [entry EXCEPT !.status = "stalled"]
  /\ stream' = Append(stream, Record("flow.stalled", NoStep, stalling))
  /\ stalling' = "idle"
  /\ UNCHANGED <<stats, handler, jobs, scheduled, callers>>

-----------------------------------------------------------------------------
Handle(i) ==
  \/ Persist(i) \/ OnTerminal(i)
  \/ OnFlowStart(i) \/ OnFlowCancel(i) \/ UnscheduleCanceled(i)
  \/ OnStepEvent(i) \/ OnEmit(i)
  \/ OnAwaitRegistered(i) \/ SetAwaiting(i) \/ OnAwaitResolved(i) \/ OnAwaitTimeout(i)
  \/ ReadIndex(i) \/ ReadStream(i) \/ EnqueuePending(i) \/ EndTrigger(i)
  \/ AnalyzeStream(i) \/ DecideStatus(i) \/ WriteStatus(i)

RunStep(j) ==
  \/ \E i \in Instances : StartStep(i, j)
  \/ \E e \in Events : EmitEvent(j, e)
  \/ CompleteStep(j)
  \/ FailStep(j)

RunRegister(j) == (\E i \in Instances : RegisterAwait(i, j)) \/ FinishRegister(j)

Next ==
  \/ StartFlow
  \/ \E i \in Instances : PublishStart(i) \/ Handle(i) \/ ClearTracker(i) \/ PublishCancel(i)
  \/ \E j \in StepJobs : RunStep(j)
  \/ \E j \in RegisterJobs : RunRegister(j)
  \/ \E j \in StepJobs : RemoveJob(j)
  \/ \E i \in Instances, k \in AwaitKeys : TimerFires(i, k) \/ ResolveWebhook(i, k)
  \/ \E k \in AwaitKeys : CheckWebhook(k)
  \/ ReadPreviousStatus \/ StallTimeout \/ MarkStalled

Spec == Init /\ [][Next]_vars

\* The promise chain advances, workers take jobs, handlers return, timers fire.
\* Nothing obliges anybody to call a webhook or to cancel.
Fairness ==
  /\ WF_vars(StartFlow)
  /\ WF_vars(\E i \in Instances : PublishStart(i))
  /\ \A i \in Instances : WF_vars(Handle(i))
  /\ \A j \in StepJobs : WF_vars(RunStep(j))
  /\ \A j \in RegisterJobs : WF_vars(RunRegister(j))
  /\ \A k \in AwaitKeys : WF_vars(\E i \in Instances : TimerFires(i, k))

FairSpec == Spec /\ Fairness

-----------------------------------------------------------------------------
Entries == [status : Statuses, emitted : SUBSET Events, awaiting : [IndexKeys -> AwaitStates]]
Snapshots == [entry : Entries, pending : SUBSET JobIds, verdict : Statuses, seen : BOOLEAN]
Stages == EventTypes \cup {"idle", "unschedule", "register", "trigger", "pending", "enqueue",
                          "analyze", "decide", "write"}

\* Every variable stays within its type.
TypeOK ==
  /\ stream \in Seq(Records)
  /\ entry \in Entries
  /\ stats \in [Counters -> Int]
  /\ chain \in [Instances -> Seq(Records)]
  /\ pc \in [Instances -> Stages]
  /\ cur \in [Instances -> Records]
  /\ local \in [Instances -> Snapshots]
  /\ tracker \in [Instances -> {"off", "on", "clearing"}]
  /\ jobs \in [JobIds -> Jobs]
  /\ stallJob \in BOOLEAN
  /\ timers \subseteq AwaitKeys
  /\ start \in {"no", "enqueued", "published"}
  /\ inflight \in [AwaitKeys -> Nat]
  /\ calls \in Nat /\ cancels \in Nat
  /\ canceling \in Statuses \cup {"idle"}
  /\ stalling \in Statuses \cup {"idle"}

-----------------------------------------------------------------------------
(* What backs every piece of state that leads to an event: the inductive      *)
(* invariant behind ContractSpec.                                             *)

InStream(type, s) == \E n \in DOMAIN stream : stream[n].type = type /\ stream[n].step = s
EmittedEvents == {e \in Events : IsEmitted(e)}
Resolved(s) == \E n \in DOMAIN stream : stream[n] = Record("await.resolved", s, "before")

Ready(s) == Flow.subs[s] \subseteq EmittedEvents \cup CompletedSteps(stream)
Startable(s) == Ready(s) /\ (s \in AwaitBefore => Resolved(s))
Gated(s) == Ready(s) /\ s \in AwaitBefore

SomeTimedOut == \E s \in AllSteps : InStream("await.timeout", s)
MayComplete == \A s \in AllSteps : InStream("step.completed", s) \/ InStream("step.failed", s)
MayFail == SomeTimedOut \/ \E s \in AllSteps : InStream("step.failed", s)

\* Step s has started before the n-th event that instance i has yet to handle.
StartedBefore(i, n, s) ==
  \/ InStream("step.started", s)
  \/ \E m \in DOMAIN chain[i] :
       m < n /\ chain[i][m].type = "step.started" /\ chain[i][m].step = s

EventBacked(i, n, e) ==
  /\ e.type = "step.started" => Startable(e.step)
  /\ e.type \in {"emit", "step.completed"} => StartedBefore(i, n, e.step)
  /\ e.type = "step.failed" => StartedBefore(i, n, e.step) \/ InStream("await.timeout", e.step)
  /\ e.type = "emit" => e.arg \in Flow.emits[e.step]
  /\ e.type \in {"await.registered", "await.resolved"} /\ e.arg = "before" => Gated(e.step)
  /\ e.type = "flow.completed" => MayComplete
  /\ e.type = "flow.failed" => MayFail

ChainBacked == \A i \in Instances : \A n \in DOMAIN chain[i] : EventBacked(i, n, chain[i][n])

JobsBacked ==
  \A s \in AllSteps :
    /\ jobs[<<"step", s>>].st # "none" => Startable(s)
    /\ jobs[<<"resumed", s>>].st # "none" => Startable(s)
    /\ jobs[<<"register-before", s>>].st # "none" => Gated(s)

ActiveBacked ==
  \A j \in StepJobs : jobs[j].st = "active" =>
    /\ jobs[j].left \subseteq Flow.emits[j[2]]
    /\ jobs[j].at \in Instances
    /\ StartedBefore(jobs[j].at, Len(chain[jobs[j].at]) + 1, j[2])

TimersBacked ==
  \A s \in AllSteps :
    <<s, "before">> \in timers \/ inflight[<<s, "before">>] > 0 => Gated(s)

EntryBacked(x) ==
  /\ x.emitted \subseteq EmittedEvents
  /\ \A s \in AllSteps :
       /\ x.awaiting[<<s, "before">>] = "awaiting" => Gated(s)
       /\ x.awaiting[<<s, "before">>] = "resolved" => Resolved(s)
  /\ \A k \in IndexKeys : x.awaiting[k] = "timeout" => SomeTimedOut

IndexBacked == EntryBacked(entry) /\ \A i \in Instances : EntryBacked(local[i].entry)

CurrentMatches ==
  \A i \in Instances :
    /\ pc[i] \in EventTypes => cur[i].type = pc[i]
    /\ pc[i] = "register" => cur[i].type = "await.registered"

CurrentBacked ==
  \A i \in Instances :
    /\ cur[i].type = "emit" => IsEmitted(cur[i].arg)
    /\ cur[i].type = "await.registered" /\ cur[i].arg = "before" => Gated(cur[i].step)
    /\ cur[i].type = "await.resolved" /\ cur[i].arg = "before" => Resolved(cur[i].step)
    /\ cur[i].type = "await.timeout" => InStream("await.timeout", cur[i].step)

\* A job that a handler is to enqueue for a pending step.
JobBacked(j) ==
  /\ j \in {"step", "resumed", "register-before"} \X Steps /\ Ready(j[2])
  /\ j[1] = "resumed" => Resolved(j[2])
  /\ j[1] = "register-before" => j[2] \in AwaitBefore
  /\ j[1] = "step" => j[2] \notin AwaitBefore

LocalBacked ==
  \A i \in Instances :
    /\ \A j \in local[i].pending : JobBacked(j)
    /\ local[i].verdict = "completed" => MayComplete
    /\ local[i].verdict = "failed" => MayFail

\* Every event that waits to be handled, every job, timer, webhook call, index
\* entry, snapshot and verdict rests on events that are in the stream already.
Backed ==
  /\ ChainBacked /\ JobsBacked /\ ActiveBacked /\ TimersBacked
  /\ IndexBacked /\ CurrentMatches /\ CurrentBacked /\ LocalBacked

-----------------------------------------------------------------------------
(* What must hold, and what makes it inductive. *)

Over == \E t \in TerminalTypes : HasEvent(stream, t)

\* Nothing is left to happen to the run, short of somebody calling it.
Quiescent ==
  /\ start = "published" /\ canceling = "idle" /\ stalling = "idle"
  /\ \A i \in Instances : chain[i] = <<>> /\ pc[i] = "idle"
  /\ \A j \in StepJobs \cup RegisterJobs : jobs[j].st \notin {"waiting", "active"}
  /\ timers = {} /\ \A k \in AwaitKeys : inflight[k] = 0

\* The stream keeps the promises of FlowContract.
Contract == INSTANCE FlowContract WITH
  began <- {s \in AllSteps : InStream("step.started", s)},
  emitted <- EmittedEvents,
  resolved <- {s \in AwaitBefore : Resolved(s)},
  done <- CompletedSteps(stream),
  failed <- {s \in AllSteps : InStream("step.failed", s)},
  timedout <- {s \in AllSteps : InStream("await.timeout", s)},
  verdicts <- {t \in TerminalTypes : HasEvent(stream, t)}

ContractSpec == Contract!Spec

\* A run that reached its verdict does not get a second one.
OneTerminalEvent ==
  \A m, n \in DOMAIN stream :
    stream[m].type \in TerminalTypes /\ stream[n].type \in TerminalTypes => m = n

\* With one instance the tracker speaks for a verdict until it is in the stream,
\* and a handler that is about to publish one has seen the stream as it is.
VerdictGuarded ==
  \A i \in Instances :
    /\ \A n \in DOMAIN chain[i] : chain[i][n].type \in TerminalTypes =>
         /\ tracker[i] = "on" /\ ~Over
         /\ \A m \in DOMAIN chain[i] : chain[i][m].type \in TerminalTypes => m = n
    /\ pc[i] \in TerminalTypes => Over
    /\ pc[i] \in {"decide", "write"} /\ Over => local[i].seen

\* No step completes twice.
StepsCompleteOnce ==
  \A m, n \in DOMAIN stream :
    /\ stream[m].type = "step.completed" /\ stream[n].type = "step.completed"
    /\ stream[m].step = stream[n].step
    => m = n

CompletesIn(events, n, s) == events[n].type = "step.completed" /\ events[n].step = s

\* While finished jobs are kept, a step has one job to run it, and that job is done
\* once the step's completion is on its way.
CompletionKept ==
  \A s \in AllSteps :
    /\ jobs[<<"step", s>>].st # "none" => s \notin AwaitBefore
    /\ Resolved(s) \/ jobs[<<"resumed", s>>].st # "none" => s \in AwaitBefore
    /\ \A n \in DOMAIN stream : CompletesIn(stream, n, s) =>
         \E j \in StepJobs : j[2] = s /\ jobs[j].st = "done"
    /\ \A i \in Instances : \A n \in DOMAIN chain[i] : CompletesIn(chain[i], n, s) =>
         /\ \E j \in StepJobs : j[2] = s /\ jobs[j].st = "done"
         /\ \A m \in DOMAIN stream : ~CompletesIn(stream, m, s)
         /\ \A k \in Instances : \A m \in DOMAIN chain[k] :
              CompletesIn(chain[k], m, s) => k = i /\ m = n

\* A run can only be canceled after its entry job was enqueued and its flow.start
\* published.
CancelAfterStart ==
  start # "published" =>
    /\ canceling = "idle" /\ ~HasEvent(stream, "flow.cancel")
    /\ \A i \in Instances : \A n \in DOMAIN chain[i] : chain[i][n].type # "flow.cancel"

\* With one instance no handler holds jobs back that it decided to enqueue before
\* the cancellation came into the stream.
NothingHeldBack ==
  \A i \in Instances : local[i].pending # {} =>
    pc[i] = "enqueue" /\ ~HasEvent(stream, "flow.cancel")

\* With one instance: once the cancellation is in the stream no step is enqueued any
\* more, and no awaitBefore registered.
NoStepAfterCancel ==
  [][HasEvent(stream, "flow.cancel") =>
       \A j \in StepJobs \cup RegisterJobs :
         j[1] # "register-after" /\ jobs[j].st = "none" => jobs'[j].st = "none"]_vars

\* With one instance and no stall timeout: flow.start is handled once, before there
\* is an entry, and the handlers that write a status past an await have seen one
\* that is not canceled.
CancelKept ==
  /\ stalling = "idle"
  /\ start # "published" => entry.status = "none"
  /\ \A i \in Instances :
       /\ pc[i] = "flow.start" => start = "published" /\ entry.status = "none"
       /\ pc[i] = "register" => entry.status # "none"
       /\ pc[i] \in {"register", "write"} => entry.status # "canceled"
       /\ \A n \in DOMAIN chain[i] : chain[i][n].type = "flow.start" =>
            /\ start = "published" /\ entry.status = "none" /\ pc[i] # "flow.start"
            /\ \A m \in DOMAIN chain[i] : chain[i][m].type = "flow.start" => m = n

\* A canceled run stays canceled.
CanceledIsFinal == [][entry.status = "canceled" => entry'.status = "canceled"]_vars

\* While the awaitAfter of the only step that emits it is open, an event starts
\* no step.
AwaitAfterHolds ==
  \A s \in Steps : InStream("step.started", s) =>
    \A e \in Flow.subs[s] \cap Events : \A d \in AwaitAfter :
      {t \in AllSteps : e \in Flow.emits[t]} = {d} =>
        \E n \in DOMAIN stream : stream[n] = Record("await.resolved", d, "after")

\* When nothing is left to happen the index tells the outcome the stream tells.
StatusAgrees ==
  Quiescent /\ Over /\ ~HasEvent(stream, "flow.cancel") =>
    entry.status = IF HasEvent(stream, "flow.completed") THEN "completed" ELSE "failed"

\* When nothing is left to happen a timed-out awaitBefore that is to continue has
\* let its step run.
TimeoutContinues ==
  Quiescent /\ ~HasEvent(stream, "flow.cancel") =>
    \A n \in DOMAIN stream :
      /\ stream[n].type = "await.timeout" /\ stream[n].arg = "before"
      /\ TimeoutAction[<<stream[n].step, "before">>] = "continue"
      => InStream("step.started", stream[n].step)

\* When nothing is left to happen the run has its verdict, is canceled, or waits
\* for a webhook.
NoLimbo ==
  Quiescent => \/ Over \/ HasEvent(stream, "flow.cancel") \/ SomeAwait("awaiting")

\* When nothing is left to happen the counters have let go of the finished run.
StatsSettle ==
  Quiescent /\ Over => stats["running"] = 0 /\ stats["awaiting"] = 0

\* Every run that starts gets its verdict, unless it is canceled.
RunEnds == start = "published" ~> Over \/ HasEvent(stream, "flow.cancel")
==============================================================================
