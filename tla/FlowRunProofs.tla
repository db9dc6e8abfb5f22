--------------------------- MODULE FlowRunProofs ---------------------------
(***************************************************************************)
(* FlowRun is type correct, for every flow, every placement of awaits,     *)
(* every number of instances and of attempts.  With one instance a         *)
(* cancellation stops every enqueue, the run has one verdict, and, unless  *)
(* it may stall, a cancellation is final.  FlowRun implements FlowContract:*)
(* whatever may still put an event into the stream rests on events that    *)
(* are there already (Backed).  The last sections: a step completes once,  *)
(* the entry's awaitAfter is waited for, the counters come back to zero,   *)
(* and no run is left without a verdict.                                   *)
(***************************************************************************)
EXTENDS FlowRun, WellFoundedInduction, TLAPS

-----------------------------------------------------------------------------
(* Type correctness. *)

LEMMA RecordTypes ==
  /\ Record("flow.start", NoStep, "none") \in Records
  /\ \A t \in TerminalTypes : Record(t, NoStep, "none") \in Records
  /\ \A st \in Statuses : /\ Record("flow.cancel", NoStep, st) \in Records
                          /\ Record("flow.stalled", NoStep, st) \in Records
  /\ \A t \in StepTypes, s \in AllSteps : Record(t, s, "none") \in Records
  /\ \A t \in AwaitTypes, s \in AllSteps, p \in Positions : Record(t, s, p) \in Records
  /\ \A s \in AllSteps, e \in Events : Record("emit", s, e) \in Records
BY DEF Record, Records, EventTypes, TerminalTypes, StepTypes, AwaitTypes, Statuses, Positions

LEMMA RecordFields ==
  ASSUME NEW r \in Records
  PROVE  /\ r.type \in EventTypes
         /\ r.type = "emit" => r.step \in AllSteps /\ r.arg \in Events
         /\ r.type \in StepTypes => r.step \in AllSteps
         /\ r.type \in AwaitTypes => r.step \in AllSteps /\ r.arg \in Positions
BY DEF Records

LEMMA JobTypes ==
  /\ \A j \in StepJobs \cup RegisterJobs : j \in JobIds /\ j[2] \in AllSteps
  /\ \A j \in RegisterJobs : JobKey(j) \in AwaitKeys
  /\ \A j \in StepJobs : <<"register-after", j[2]>> \in JobIds
  /\ \A k \in AwaitKeys : k[1] \in AllSteps /\ k[2] \in Positions
  /\ \A s \in AllSteps : Flow.emits[s] \subseteq Events
BY FlowRunAssumption
   DEF StepJobs, RegisterJobs, JobIds, JobKey, AwaitKeys, Positions, Flows, AllSteps

LEMMA NoJobTypes == NoJob \in Jobs /\ NewJob \in Jobs
BY DEF NoJob, NewJob, Jobs, JobStates

LEMMA DefaultTypes == NoEntry \in Entries /\ NoLocal \in Snapshots /\ NoRecord \in Records
<1>1. NoEntry \in Entries
  BY DEF NoEntry, Entries, NoAwaits, Statuses, AwaitStates
<1>2. NoLocal \in Snapshots
  BY <1>1 DEF NoLocal, Snapshots, Statuses
<1> QED BY <1>1, <1>2, RecordTypes DEF NoRecord

LEMMA StageTypes ==
  /\ EventTypes \subseteq Stages
  /\ {"idle", "unschedule", "register", "trigger", "pending", "enqueue", "analyze", "decide",
      "write"} \subseteq Stages \ EventTypes
BY DEF Stages, EventTypes, TerminalTypes, AwaitTypes, StepTypes

LEMMA PublishTypes ==
  ASSUME chain \in [Instances -> Seq(Records)], NEW i, NEW e \in Records, Publish(i, e)
  PROVE  chain' \in [Instances -> Seq(Records)]
<1>1. CASE i \in Instances
  BY <1>1 DEF Publish
<1>2. CASE i \notin Instances
  BY <1>2 DEF Publish
<1> QED BY <1>1, <1>2

LEMMA EnqueueTypes ==
  ASSUME jobs \in [JobIds -> Jobs], NEW ids, Enqueue(ids)
  PROVE  jobs' \in [JobIds -> Jobs]
BY NoJobTypes DEF Enqueue

\* The handler of instance i ends.
LEMMA EndHandlerTypes ==
  ASSUME TypeOK, CurrentMatches, NEW i \in Instances, EndHandler(i)
  PROVE  /\ pc' \in [Instances -> Stages]
         /\ cur' \in [Instances -> Records]
         /\ local' \in [Instances -> Snapshots]
         /\ CurrentMatches'
<1>1. /\ pc' \in [Instances -> Stages]
      /\ cur' \in [Instances -> Records]
      /\ local' \in [Instances -> Snapshots]
  BY DefaultTypes, StageTypes DEF TypeOK, EndHandler
<1>2. CurrentMatches'
  BY StageTypes DEF TypeOK, CurrentMatches, EndHandler
<1> QED BY <1>1, <1>2

\* The handler of instance i goes on to a stage that follows an await.
LEMMA AdvanceTypes ==
  ASSUME TypeOK, CurrentMatches, NEW i \in Instances,
         NEW p \in {"unschedule", "trigger", "pending", "enqueue", "analyze", "decide", "write"},
         pc' = [pc EXCEPT ![i] = p], cur' = cur
  PROVE  pc' \in [Instances -> Stages] /\ CurrentMatches'
<1>1. pc' \in [Instances -> Stages]
  BY StageTypes DEF TypeOK
<1>2. CurrentMatches'
  BY StageTypes DEF TypeOK, CurrentMatches
<1> QED BY <1>1, <1>2

LEMMA HandlerTypes ==
  ASSUME TypeOK, CurrentMatches, NEW i \in Instances, Handle(i)
  PROVE  TypeOK' /\ CurrentMatches'
<1> USE DEF index, handler, scheduled, callers
<1>0. cur[i] \in Records /\ local[i] \in Snapshots /\ pc[i] \in Stages
  BY DEF TypeOK
<1>1. CASE Persist(i)
  <2> DEFINE e == Head(chain[i])
  <2>1. e \in Records /\ e.type \in EventTypes /\ Tail(chain[i]) \in Seq(Records)
    <3>1. chain[i] \in Seq(Records) /\ chain[i] # <<>>
      BY <1>1 DEF TypeOK, Persist
    <3> QED BY <3>1, RecordFields
  <2>2. stream' \in Seq(Records) /\ chain' \in [Instances -> Seq(Records)]
    BY <1>1, <2>1 DEF TypeOK, Persist
  <2>3. stats' \in [Counters -> Int]
    <3>1. stats \in [Counters -> Int]
      BY DEF TypeOK
    <3>2. [Add("total", 1) EXCEPT !["running"] = @ + 1] \in [Counters -> Int]
      BY <3>1 DEF Add, Counters
    <3>3. \A a, b \in Counters : Move(a, b) \in [Counters -> Int]
      BY <3>1 DEF Move
    <3>4. CountEvent(e) \in [Counters -> Int]
      BY <3>1, <3>2, <3>3 DEF CountEvent, Counters
    <3> QED BY <1>1, <3>4 DEF Persist
  <2>4. pc' \in [Instances -> Stages] /\ cur' \in [Instances -> Records]
    BY <1>1, <2>1, StageTypes DEF TypeOK, Persist
  <2>5. CurrentMatches'
    BY <1>1, <2>1, StageTypes DEF TypeOK, CurrentMatches, Persist
  <2> QED BY <1>1, <2>2, <2>3, <2>4, <2>5 DEF TypeOK, Persist
<1>2. CASE OnTerminal(i)
  <2>1. tracker' \in [Instances -> {"off", "on", "clearing"}]
    BY <1>2 DEF TypeOK, OnTerminal
  <2> QED BY <1>2, <2>1, EndHandlerTypes DEF TypeOK, OnTerminal
<1>3. CASE OnFlowStart(i)
  <2>1. entry' \in Entries
    BY <1>3, DefaultTypes DEF OnFlowStart, Entries, Statuses
  <2> QED BY <1>3, <2>1, EndHandlerTypes DEF TypeOK, OnFlowStart
<1>4. CASE OnFlowCancel(i)
  <2>1. entry' \in Entries
    BY <1>4 DEF TypeOK, OnFlowCancel, Entries, Statuses
  <2>2. CASE EndHandler(i)
    BY <1>4, <2>1, <2>2, EndHandlerTypes DEF TypeOK, OnFlowCancel
  <2>3. CASE pc' = [pc EXCEPT ![i] = "unschedule"] /\ UNCHANGED <<cur, local>>
    BY <1>4, <2>1, <2>3, AdvanceTypes DEF TypeOK, OnFlowCancel
  <2> QED BY <1>4, <2>2, <2>3 DEF OnFlowCancel
<1>5. CASE UnscheduleCanceled(i)
  BY <1>5, EndHandlerTypes DEF TypeOK, UnscheduleCanceled
<1>6. CASE OnStepEvent(i)
  <2>1. CASE EndHandler(i)
    BY <1>6, <2>1, EndHandlerTypes DEF TypeOK, OnStepEvent
  <2>2. CASE /\ pc' = [pc EXCEPT ![i] = IF @ = "step.completed" THEN "trigger" ELSE "analyze"]
             /\ UNCHANGED <<cur, local>>
    <3> DEFINE p == IF pc[i] = "step.completed" THEN "trigger" ELSE "analyze"
    <3>1. pc' = [pc EXCEPT ![i] = p]
      BY <2>2 DEF TypeOK
    <3>2. pc' \in [Instances -> Stages] /\ CurrentMatches'
      BY <2>2, <3>1, AdvanceTypes
    <3> QED BY <1>6, <2>2, <3>2 DEF TypeOK, OnStepEvent
  <2> QED BY <1>6, <2>1, <2>2 DEF OnStepEvent
<1>7. CASE OnEmit(i)
  <2>1. cur[i].arg \in Events
    BY <1>0, <1>7, RecordFields DEF CurrentMatches, OnEmit, EventTypes
  <2>2. entry' \in Entries
    BY <1>7, <2>1 DEF TypeOK, OnEmit, Entries, Track
  <2> QED BY <1>7, <2>2, EndHandlerTypes DEF TypeOK, OnEmit
<1>8. CASE OnAwaitRegistered(i)
  <2>1. CASE EndHandler(i)
    BY <1>8, <2>1, EndHandlerTypes DEF TypeOK, OnAwaitRegistered
  <2>2. CASE pc' = [pc EXCEPT ![i] = "register"] /\ UNCHANGED <<cur, local>>
    <3>1. cur[i].type = "await.registered"
      BY <1>8 DEF OnAwaitRegistered, CurrentMatches, EventTypes, AwaitTypes
    <3>2. pc' \in [Instances -> Stages]
      BY <2>2, StageTypes DEF TypeOK
    <3>3. CurrentMatches'
      BY <2>2, <3>1, StageTypes DEF TypeOK, CurrentMatches
    <3> QED BY <1>8, <2>2, <3>2, <3>3 DEF TypeOK, OnAwaitRegistered
  <2> QED BY <1>8, <2>1, <2>2 DEF OnAwaitRegistered
<1>9. CASE SetAwaiting(i)
  <2>1. entry' \in Entries
    BY <1>9 DEF TypeOK, SetAwaiting, Entries, Statuses, AwaitStates
  <2> QED BY <1>9, <2>1, EndHandlerTypes DEF TypeOK, SetAwaiting
<1>10. CASE OnAwaitResolved(i)
  <2>1. CASE EndHandler(i) /\ UNCHANGED <<entry, jobs>>
    BY <1>10, <2>1, EndHandlerTypes DEF TypeOK, OnAwaitResolved
  <2>2. CASE /\ entry' = [entry EXCEPT !.awaiting[<<cur[i].step, cur[i].arg>>] = "resolved"]
             /\ Enqueue({<<"resolve", cur[i].step>>})
             /\ pc' = [pc EXCEPT ![i] = "trigger"]
             /\ UNCHANGED <<cur, local>>
    <3>1. entry' \in Entries
      BY <2>2 DEF TypeOK, Entries, AwaitStates
    <3>2. jobs' \in [JobIds -> Jobs]
      BY <2>2, EnqueueTypes DEF TypeOK
    <3> QED BY <1>10, <2>2, <3>1, <3>2, AdvanceTypes DEF TypeOK, OnAwaitResolved
  <2> QED BY <1>10, <2>1, <2>2 DEF OnAwaitResolved
<1>11. CASE OnAwaitTimeout(i)
  <2> DEFINE s == cur[i].step
  <2>1. s \in AllSteps /\ Record("step.failed", s, "none") \in Records
    BY <1>0, <1>11, RecordFields, RecordTypes
       DEF OnAwaitTimeout, CurrentMatches, EventTypes, AwaitTypes, StepTypes
  <2>2. CASE EndHandler(i) /\ UNCHANGED <<entry, jobs, chain>>
    BY <1>11, <2>2, EndHandlerTypes DEF TypeOK, OnAwaitTimeout
  <2>3. CASE /\ Enqueue({<<"timeout", s>>})
             /\ entry' = [entry EXCEPT !.awaiting[<<s, "bare">>] = "timeout"]
             /\ Publish(i, Record("step.failed", s, "none"))
             /\ EndHandler(i)
    <3>1. entry' \in Entries
      BY <2>3 DEF TypeOK, Entries, AwaitStates
    <3>2. jobs' \in [JobIds -> Jobs] /\ chain' \in [Instances -> Seq(Records)]
      BY <2>1, <2>3, EnqueueTypes, PublishTypes DEF TypeOK
    <3> QED BY <1>11, <2>3, <3>1, <3>2, EndHandlerTypes DEF TypeOK, OnAwaitTimeout
  <2>4. CASE /\ Enqueue({<<"timeout", s>>})
             /\ entry' = [entry EXCEPT !.awaiting[<<s, "bare">>] = "resolved"]
             /\ pc' = [pc EXCEPT ![i] = "trigger"]
             /\ UNCHANGED <<cur, local, chain>>
    <3>1. entry' \in Entries
      BY <2>4 DEF TypeOK, Entries, AwaitStates
    <3>2. jobs' \in [JobIds -> Jobs]
      BY <2>4, EnqueueTypes DEF TypeOK
    <3> QED BY <1>11, <2>4, <3>1, <3>2, AdvanceTypes DEF TypeOK, OnAwaitTimeout
  <2>5. CASE Enqueue({<<"timeout", s>>}) /\ EndHandler(i) /\ UNCHANGED <<entry, chain>>
    <3>1. jobs' \in [JobIds -> Jobs]
      BY <2>5, EnqueueTypes DEF TypeOK
    <3> QED BY <1>11, <2>5, <3>1, EndHandlerTypes DEF TypeOK, OnAwaitTimeout
  <2> QED BY <1>11, <2>2, <2>3, <2>4, <2>5 DEF OnAwaitTimeout
<1>12. CASE ReadIndex(i)
  <2>1. local' \in [Instances -> Snapshots]
    BY <1>12 DEF TypeOK, ReadIndex, Snapshots
  <2> QED BY <1>12, <2>1, AdvanceTypes DEF TypeOK, ReadIndex
<1>13. CASE ReadStream(i)
  <2>1. local' \in [Instances -> Snapshots]
    <3> DEFINE x == local[i].entry
               held == IF MayTrigger(x) THEN {JobOf(s, x) : s \in PendingSteps(x)} ELSE {}
    <3>1. held \subseteq JobIds
      <4>1. \A s \in PendingSteps(x) : JobOf(s, x) \in JobIds
        BY DEF JobOf, PendingSteps, AllSteps, JobIds, StepJobs, RegisterJobs
      <4> QED BY <4>1
    <3>2. local' = [local EXCEPT ![i].pending = held]
      BY <1>13 DEF ReadStream
    <3> HIDE DEF held
    <3> QED BY <3>1, <3>2 DEF TypeOK, Snapshots
  <2> QED BY <1>13, <2>1, AdvanceTypes DEF TypeOK, ReadStream
<1>14. CASE EnqueuePending(i)
  <2>1. PICK j \in local[i].pending :
          Enqueue({j}) /\ local' = [local EXCEPT ![i].pending = @ \ {j}]
    BY <1>14 DEF EnqueuePending
  <2>2. jobs' \in [JobIds -> Jobs]
    BY <2>1, EnqueueTypes DEF TypeOK
  <2>3. local' \in [Instances -> Snapshots]
    BY <2>1 DEF TypeOK, Snapshots
  <2>4. CurrentMatches'
    BY <1>14 DEF CurrentMatches, EnqueuePending
  <2> QED BY <1>14, <2>2, <2>3, <2>4 DEF TypeOK, EnqueuePending
<1>15. CASE EndTrigger(i)
  <2>1. CASE EndHandler(i)
    BY <1>15, <2>1, EndHandlerTypes DEF TypeOK, EndTrigger
  <2>2. CASE pc' = [pc EXCEPT ![i] = "analyze"] /\ UNCHANGED <<cur, local>>
    BY <1>15, <2>2, AdvanceTypes DEF TypeOK, EndTrigger
  <2> QED BY <1>15, <2>1, <2>2 DEF EndTrigger
<1>16. CASE AnalyzeStream(i)
  <2>1. AnalyzeFlowCompletion(Flow, stream) \in Statuses
    BY DEF AnalyzeFlowCompletion, AnalyzeFlow, Statuses
  <2>2. PICK v \in Statuses, b \in BOOLEAN :
          local' = [local EXCEPT ![i].verdict = v, ![i].seen = b]
    <3> DEFINE b == \E t \in TerminalTypes : HasEvent(stream, t)
    <3>1. local' = [local EXCEPT ![i].verdict = AnalyzeFlowCompletion(Flow, stream),
                                 ![i].seen = b]
      BY <1>16 DEF AnalyzeStream
    <3>2. b \in BOOLEAN
      OBVIOUS
    <3> HIDE DEF b
    <3> QED BY <2>1, <3>1, <3>2
  <2>3. local' \in [Instances -> Snapshots]
    BY <2>2 DEF TypeOK, Snapshots
  <2> QED BY <1>16, <2>3, AdvanceTypes DEF TypeOK, AnalyzeStream
<1>17. CASE DecideStatus(i)
  <2>1. CASE EndHandler(i)
    BY <1>17, <2>1, EndHandlerTypes DEF TypeOK, DecideStatus
  <2>2. CASE /\ local' = [local EXCEPT ![i].verdict = Overridden(@)]
             /\ pc' = [pc EXCEPT ![i] = "write"]
             /\ UNCHANGED cur
    <3>1. \A v \in Statuses : Overridden(v) \in Statuses
      BY DEF Overridden, Statuses
    <3>2. local' \in [Instances -> Snapshots]
      BY <2>2, <3>1 DEF TypeOK, Snapshots
    <3> QED BY <1>17, <2>2, <3>2, AdvanceTypes DEF TypeOK, DecideStatus
  <2> QED BY <1>17, <2>1, <2>2 DEF DecideStatus
<1>18. CASE WriteStatus(i)
  <2>1. entry' \in Entries
    BY <1>0, <1>18 DEF TypeOK, WriteStatus, Entries, Snapshots
  <2>2. tracker' \in [Instances -> {"off", "on", "clearing"}]
    BY <1>18 DEF TypeOK, WriteStatus
  <2>3. chain' \in [Instances -> Seq(Records)]
    BY <1>18, RecordTypes, PublishTypes DEF TypeOK, WriteStatus, TerminalTypes
  <2> QED BY <1>18, <2>1, <2>2, <2>3, EndHandlerTypes DEF TypeOK, WriteStatus
<1> QED
  BY <1>1, <1>2, <1>3, <1>4, <1>5, <1>6, <1>7, <1>8, <1>9, <1>10, <1>11, <1>12,
     <1>13, <1>14, <1>15, <1>16, <1>17, <1>18 DEF Handle

\* Nothing but the handlers touches pc, cur and local.
LEMMA OtherTypes ==
  ASSUME TypeOK, CurrentMatches, UNCHANGED <<pc, cur, local>>,
         \/ StartFlow
         \/ \E i \in Instances : PublishStart(i) \/ ClearTracker(i) \/ PublishCancel(i)
         \/ \E j \in StepJobs : RunStep(j) \/ RemoveJob(j)
         \/ \E j \in RegisterJobs : RunRegister(j)
         \/ \E i \in Instances, k \in AwaitKeys : TimerFires(i, k) \/ ResolveWebhook(i, k)
         \/ \E k \in AwaitKeys : CheckWebhook(k)
         \/ ReadPreviousStatus \/ StallTimeout \/ MarkStalled
  PROVE  TypeOK' /\ CurrentMatches'
<1> USE DEF index, handler, scheduled, callers
<1>0. CurrentMatches'
  BY DEF CurrentMatches
<1>1. CASE StartFlow
  <2>1. jobs' \in [JobIds -> Jobs]
    BY <1>1, EnqueueTypes DEF TypeOK, StartFlow
  <2> QED BY <1>0, <1>1, <2>1 DEF TypeOK, StartFlow
<1>2. ASSUME NEW i \in Instances, PublishStart(i)
      PROVE  TypeOK' /\ CurrentMatches'
  <2>1. chain' \in [Instances -> Seq(Records)]
    BY <1>2, RecordTypes, PublishTypes DEF TypeOK, PublishStart
  <2> QED BY <1>0, <1>2, <2>1 DEF TypeOK, PublishStart
<1>3. ASSUME NEW i \in Instances, ClearTracker(i)
      PROVE  TypeOK' /\ CurrentMatches'
  BY <1>0, <1>3 DEF TypeOK, ClearTracker
<1>4. ASSUME NEW i \in Instances, PublishCancel(i)
      PROVE  TypeOK' /\ CurrentMatches'
  <2>1. chain' \in [Instances -> Seq(Records)]
    BY <1>4, RecordTypes, PublishTypes DEF TypeOK, PublishCancel
  <2> QED BY <1>0, <1>4, <2>1 DEF TypeOK, PublishCancel
<1>5. ASSUME NEW j \in StepJobs, NEW i \in Instances, StartStep(i, j)
      PROVE  TypeOK' /\ CurrentMatches'
  <2>1. chain' \in [Instances -> Seq(Records)]
    BY <1>5, RecordTypes, JobTypes, PublishTypes DEF TypeOK, StartStep, StepTypes
  <2>2. jobs' \in [JobIds -> Jobs]
    <3>1. jobs[j] \in Jobs /\ Flow.emits[j[2]] \subseteq Events
      BY JobTypes DEF TypeOK
    <3>2. [jobs[j] EXCEPT !.st = "active", !.at = i, !.left = Flow.emits[j[2]]] \in Jobs
      BY <3>1 DEF Jobs, JobStates
    <3>3. jobs' = [jobs EXCEPT ![j] = [@ EXCEPT !.st = "active", !.at = i, !.left = Flow.emits[j[2]]]]
      BY <1>5 DEF StartStep
    <3> QED BY <3>2, <3>3, JobTypes DEF TypeOK
  <2> QED BY <1>0, <1>5, <2>1, <2>2 DEF TypeOK, StartStep
<1>6. ASSUME NEW j \in StepJobs, NEW e \in Events, EmitEvent(j, e)
      PROVE  TypeOK' /\ CurrentMatches'
  <2>1. chain' \in [Instances -> Seq(Records)]
    BY <1>6, RecordTypes, JobTypes, PublishTypes DEF TypeOK, EmitEvent
  <2>2. jobs' \in [JobIds -> Jobs]
    BY <1>6, JobTypes DEF TypeOK, EmitEvent, Jobs
  <2> QED BY <1>0, <1>6, <2>1, <2>2 DEF TypeOK, EmitEvent
<1>7. ASSUME NEW j \in StepJobs, CompleteStep(j)
      PROVE  TypeOK' /\ CurrentMatches'
  <2>1. chain' \in [Instances -> Seq(Records)]
    BY <1>7, RecordTypes, JobTypes, PublishTypes DEF TypeOK, CompleteStep, StepTypes
  <2>2. [NoJob EXCEPT !.st = "done"] \in Jobs
    BY DEF NoJob, Jobs, JobStates
  <2>3. jobs' \in [JobIds -> Jobs]
    BY <1>7, <2>2, NoJobTypes, JobTypes DEF TypeOK, CompleteStep
  <2> QED BY <1>0, <1>7, <2>1, <2>3 DEF TypeOK, CompleteStep
<1>8. ASSUME NEW j \in StepJobs, FailStep(j)
      PROVE  TypeOK' /\ CurrentMatches'
  <2>1. chain' \in [Instances -> Seq(Records)]
    BY <1>8, RecordTypes, JobTypes, PublishTypes DEF TypeOK, FailStep, StepTypes
  <2>2. [NoJob EXCEPT !.st = "failed"] \in Jobs
    BY DEF NoJob, Jobs, JobStates
  <2>3. [NewJob EXCEPT !.att = jobs[j].att + 1] \in Jobs
    <3>1. jobs[j].att + 1 \in Nat
      BY JobTypes DEF TypeOK, Jobs
    <3> QED BY <3>1, NoJobTypes DEF Jobs
  <2>4. jobs' \in [JobIds -> Jobs]
    BY <1>8, <2>2, <2>3, JobTypes DEF TypeOK, FailStep
  <2> QED BY <1>0, <1>8, <2>1, <2>4 DEF TypeOK, FailStep
<1>9. ASSUME NEW j \in StepJobs, RemoveJob(j)
      PROVE  TypeOK' /\ CurrentMatches'
  BY <1>0, <1>9, NoJobTypes DEF TypeOK, RemoveJob
<1>10. ASSUME NEW j \in RegisterJobs, NEW i \in Instances, RegisterAwait(i, j)
       PROVE  TypeOK' /\ CurrentMatches'
  <2>1. JobKey(j) \in AwaitKeys /\ Record("await.registered", JobKey(j)[1], JobKey(j)[2]) \in Records
    BY JobTypes, RecordTypes DEF AwaitTypes
  <2>2. chain' \in [Instances -> Seq(Records)]
    BY <1>10, <2>1, PublishTypes DEF TypeOK, RegisterAwait, Announce
  <2>3. jobs' \in [JobIds -> Jobs]
    <3>1. jobs[j] \in Jobs
      BY JobTypes DEF TypeOK
    <3>2. [jobs[j] EXCEPT !.st = "active", !.at = i] \in Jobs
      BY <3>1 DEF Jobs, JobStates
    <3>3. jobs' = [jobs EXCEPT ![j] = [@ EXCEPT !.st = "active", !.at = i]]
      BY <1>10 DEF RegisterAwait
    <3> QED BY <3>2, <3>3, JobTypes DEF TypeOK
  <2> QED BY <1>0, <1>10, <2>1, <2>2, <2>3 DEF TypeOK, RegisterAwait
<1>11. ASSUME NEW j \in RegisterJobs, FinishRegister(j)
       PROVE  TypeOK' /\ CurrentMatches'
  <2>1. JobKey(j) \in AwaitKeys /\ Record("await.registered", JobKey(j)[1], JobKey(j)[2]) \in Records
    BY JobTypes, RecordTypes DEF AwaitTypes
  <2>2. chain' \in [Instances -> Seq(Records)]
    BY <1>11, <2>1, PublishTypes DEF TypeOK, FinishRegister, Announce
  <2>3. [NoJob EXCEPT !.st = "done"] \in Jobs
    BY DEF NoJob, Jobs, JobStates
  <2>4. jobs' \in [JobIds -> Jobs]
    BY <1>11, <2>3, JobTypes DEF TypeOK, FinishRegister
  <2> QED BY <1>0, <1>11, <2>1, <2>2, <2>4 DEF TypeOK, FinishRegister
<1>12. ASSUME NEW i \in Instances, NEW k \in AwaitKeys, TimerFires(i, k)
       PROVE  TypeOK' /\ CurrentMatches'
  <2>1. chain' \in [Instances -> Seq(Records)]
    BY <1>12, RecordTypes, JobTypes, PublishTypes DEF TypeOK, TimerFires, AwaitTypes
  <2> QED BY <1>0, <1>12, <2>1 DEF TypeOK, TimerFires
<1>13. ASSUME NEW i \in Instances, NEW k \in AwaitKeys, ResolveWebhook(i, k)
       PROVE  TypeOK' /\ CurrentMatches'
  <2>1. chain' \in [Instances -> Seq(Records)]
    BY <1>13, RecordTypes, JobTypes, PublishTypes DEF TypeOK, ResolveWebhook, AwaitTypes
  <2>2. inflight' \in [AwaitKeys -> Nat]
    BY <1>13 DEF TypeOK, ResolveWebhook
  <2> QED BY <1>0, <1>13, <2>1, <2>2 DEF TypeOK, ResolveWebhook
<1>14. ASSUME NEW k \in AwaitKeys, CheckWebhook(k)
       PROVE  TypeOK' /\ CurrentMatches'
  BY <1>0, <1>14 DEF TypeOK, CheckWebhook
<1>15. CASE ReadPreviousStatus
  BY <1>0, <1>15 DEF TypeOK, ReadPreviousStatus, Entries
<1>16. CASE StallTimeout
  BY <1>0, <1>16 DEF TypeOK, StallTimeout, Entries
<1>17. CASE MarkStalled
  <2>1. stream' \in Seq(Records)
    BY <1>17, RecordTypes DEF TypeOK, MarkStalled
  <2>2. entry' \in Entries
    BY <1>17 DEF TypeOK, MarkStalled, Entries, Statuses
  <2> QED BY <1>0, <1>17, <2>1, <2>2 DEF TypeOK, MarkStalled
<1> QED
  BY <1>1, <1>2, <1>3, <1>4, <1>5, <1>6, <1>7, <1>8, <1>9, <1>10, <1>11, <1>12,
     <1>13, <1>14, <1>15, <1>16, <1>17 DEF RunStep, RunRegister

\* The steps of Next, seen as those of the handlers and the others.
LEMMA NextSplit ==
  ASSUME Next
  PROVE  \/ \E i \in Instances : Handle(i)
         \/ /\ UNCHANGED <<pc, cur, local>>
            /\ \/ StartFlow
               \/ \E i \in Instances : PublishStart(i) \/ ClearTracker(i) \/ PublishCancel(i)
               \/ \E j \in StepJobs : RunStep(j) \/ RemoveJob(j)
               \/ \E j \in RegisterJobs : RunRegister(j)
               \/ \E i \in Instances, k \in AwaitKeys : TimerFires(i, k) \/ ResolveWebhook(i, k)
               \/ \E k \in AwaitKeys : CheckWebhook(k)
               \/ ReadPreviousStatus \/ StallTimeout \/ MarkStalled
BY DEF Next, RunStep, RunRegister, index, handler, scheduled, callers, StartFlow, PublishStart,
       ClearTracker, PublishCancel, StartStep, EmitEvent, CompleteStep, FailStep, RemoveJob,
       RegisterAwait, FinishRegister, TimerFires, ResolveWebhook, CheckWebhook,
       ReadPreviousStatus, StallTimeout, MarkStalled

LEMMA InitTypes == Init => TypeOK /\ CurrentMatches
<1> SUFFICES ASSUME Init PROVE TypeOK /\ CurrentMatches
  OBVIOUS
<1>1. TypeOK
  <2>1. [j \in JobIds |-> NoJob] \in [JobIds -> Jobs]
    BY NoJobTypes
  <2>2. "idle" \in Stages
    BY StageTypes
  <2>3. /\ stream \in Seq(Records) /\ chain \in [Instances -> Seq(Records)]
        /\ stats \in [Counters -> Int] /\ inflight \in [AwaitKeys -> Nat]
    BY DEF Init
  <2>4. /\ pc \in [Instances -> Stages] /\ cur \in [Instances -> Records]
        /\ local \in [Instances -> Snapshots] /\ jobs \in [JobIds -> Jobs]
        /\ tracker \in [Instances -> {"off", "on", "clearing"}]
    BY <2>1, <2>2, DefaultTypes DEF Init
  <2> QED BY <2>3, <2>4, DefaultTypes DEF Init, TypeOK
<1>2. CurrentMatches
  BY StageTypes DEF Init, CurrentMatches
<1> QED BY <1>1, <1>2

LEMMA TypeStep == TypeOK /\ CurrentMatches /\ [Next]_vars => TypeOK' /\ CurrentMatches'
<1> SUFFICES ASSUME TypeOK, CurrentMatches, [Next]_vars PROVE TypeOK' /\ CurrentMatches'
  OBVIOUS
<1>1. CASE Next
  BY <1>1, NextSplit, HandlerTypes, OtherTypes
<1>2. CASE UNCHANGED vars
  BY <1>2 DEF vars, TypeOK, CurrentMatches
<1> QED BY <1>1, <1>2

\* Every variable stays within its type, and a handler keeps working on the event
\* whose type brought it to its stage.
THEOREM TypeCorrect == Spec => [](TypeOK /\ CurrentMatches)
BY InitTypes, TypeStep, PTL DEF Spec

-----------------------------------------------------------------------------
(* Who publishes what. *)

\* The action that publishes e on instance i, for the types the invariants tell
\* apart.
Publisher(i, e) ==
  /\ e.type \in TerminalTypes => WriteStatus(i)
  /\ e.type = "flow.cancel" => PublishCancel(i)
  /\ e.type = "flow.start" => PublishStart(i)
  /\ e.type = "step.completed" =>
       \E j \in StepJobs : CompleteStep(j) /\ jobs[j].at = i /\ j[2] = e.step
  /\ e.type = "emit" =>
       \E j \in StepJobs : EmitEvent(j, e.arg) /\ jobs[j].at = i /\ j[2] = e.step
  /\ e.type \in {"step.failed", "step.retry"} =>
       \/ \E j \in StepJobs :
            /\ FailStep(j) /\ jobs[j].at = i /\ j[2] = e.step
            /\ e.type = "step.retry" <=> jobs[j].att + 1 < MaxAttempts
       \/ OnAwaitTimeout(i)
  /\ e.type = "step.started" => \E j \in StepJobs : StartStep(i, j) /\ j[2] = e.step
  /\ e.type \in AwaitTypes =>
       \/ \E j \in RegisterJobs : RunRegister(j) /\ JobKey(j) = <<e.step, e.arg>>
       \/ \E k \in AwaitKeys : /\ TimerFires(i, k) \/ ResolveWebhook(i, k)
                             /\ k = <<e.step, e.arg>>

\* A step persists the head of a chain, marks the run stalled, publishes one event
\* or leaves the stream and the chains alone.
EventMoves ==
  \/ \E i \in Instances : Persist(i)
  \/ MarkStalled /\ UNCHANGED chain
  \/ UNCHANGED <<stream, chain>>
  \/ /\ UNCHANGED stream
     /\ \E i \in Instances, e \in Records : Publish(i, e) /\ Publisher(i, e)

LEMMA TypeNames ==
  /\ TerminalTypes \cap (StepTypes \cup AwaitTypes \cup {"flow.start", "flow.cancel", "flow.stalled", "emit"}) = {}
  /\ StepTypes \cap (AwaitTypes \cup {"flow.start", "flow.cancel", "flow.stalled", "emit"}) = {}
  /\ AwaitTypes \cap {"flow.start", "flow.cancel", "flow.stalled", "emit"} = {}
BY DEF TerminalTypes, StepTypes, AwaitTypes

\* Off the instances, Publish changes nothing.
LEMMA NobodyPublishes ==
  ASSUME TypeOK, NEW i \in Instances \cup {NoInstance}, NEW e \in Records, Publish(i, e)
  PROVE  i \in Instances \/ UNCHANGED chain
BY DEF Publish, TypeOK

LEMMA WhoPublishes ==
  ASSUME TypeOK, CurrentMatches, Next
  PROVE  EventMoves
<1> USE DEF index, handler, scheduled, callers
<1>1. ASSUME NEW i \in Instances, Handle(i)
      PROVE  EventMoves
  <2>1. CASE Persist(i)
    BY <2>1 DEF EventMoves
  <2>2. CASE WriteStatus(i)
    <3>1. PICK t \in TerminalTypes :
             UNCHANGED chain \/ Publish(i, Record(t, NoStep, "none"))
      BY <2>2 DEF WriteStatus, TerminalTypes
    <3>2. Record(t, NoStep, "none") \in Records /\ Publisher(i, Record(t, NoStep, "none"))
      BY <2>2, RecordTypes, TypeNames DEF Publisher, Record, TerminalTypes
    <3> QED BY <2>2, <3>1, <3>2 DEF EventMoves, WriteStatus
  <2>3. CASE OnAwaitTimeout(i)
    <3> DEFINE e == Record("step.failed", cur[i].step, "none")
    <3>1. cur[i] \in Records /\ cur[i].step \in AllSteps
      <4>1. cur[i] \in Records
        BY DEF TypeOK
      <4> QED BY <2>3, <4>1, RecordFields
              DEF OnAwaitTimeout, CurrentMatches, EventTypes, AwaitTypes
    <3>2. e \in Records
      BY <3>1, RecordTypes DEF StepTypes
    <3>3. Publisher(i, e)
      BY <2>3 DEF Publisher, Record, TerminalTypes, AwaitTypes
    <3>4. UNCHANGED chain \/ Publish(i, e)
      BY <2>3 DEF OnAwaitTimeout
    <3>5. UNCHANGED stream
      BY <2>3 DEF OnAwaitTimeout
    <3> QED BY <3>2, <3>3, <3>4, <3>5 DEF EventMoves
  <2>4. CASE UNCHANGED <<stream, chain>>
    BY <2>4 DEF EventMoves
  <2> QED
    BY <1>1, <2>1, <2>2, <2>3, <2>4
       DEF Handle, OnTerminal, OnFlowStart, OnFlowCancel, UnscheduleCanceled, OnStepEvent,
           OnEmit, OnAwaitRegistered, SetAwaiting, OnAwaitResolved, ReadIndex, ReadStream,
           EnqueuePending, EndTrigger, AnalyzeStream, DecideStatus
<1>2. ASSUME NEW i \in Instances, PublishStart(i)
      PROVE  EventMoves
  <2>1. Publisher(i, Record("flow.start", NoStep, "none"))
    BY <1>2 DEF Publisher, Record, TerminalTypes, AwaitTypes
  <2> QED BY <1>2, <2>1, RecordTypes DEF EventMoves, PublishStart
<1>3. ASSUME NEW i \in Instances, PublishCancel(i)
      PROVE  EventMoves
  <2>1. Publisher(i, Record("flow.cancel", NoStep, canceling))
    BY <1>3 DEF Publisher, Record, TerminalTypes, AwaitTypes
  <2>2. canceling \in Statuses
    BY <1>3 DEF TypeOK, PublishCancel
  <2> QED BY <1>3, <2>1, <2>2, RecordTypes DEF EventMoves, PublishCancel
<1>4. ASSUME NEW j \in StepJobs, RunStep(j)
      PROVE  EventMoves
  <2>1. j[2] \in AllSteps /\ jobs[j].at \in Instances \cup {NoInstance}
    BY JobTypes DEF TypeOK, Jobs
  <2>2. CASE CompleteStep(j)
    <3> DEFINE e == Record("step.completed", j[2], "none")
    <3>1. e \in Records /\ Publish(jobs[j].at, e) /\ UNCHANGED stream
      BY <2>1, <2>2, RecordTypes DEF CompleteStep, StepTypes
    <3>2. Publisher(jobs[j].at, e)
      BY <2>2 DEF Publisher, Record, TerminalTypes, AwaitTypes
    <3> QED BY <2>1, <3>1, <3>2, NobodyPublishes DEF EventMoves
  <2>3. ASSUME NEW i \in Instances, StartStep(i, j)
        PROVE  EventMoves
    <3> DEFINE e == Record("step.started", j[2], "none")
    <3>1. e \in Records /\ Publish(i, e) /\ UNCHANGED stream
      BY <2>1, <2>3, RecordTypes DEF StartStep, StepTypes
    <3>2. Publisher(i, e)
      BY <2>3 DEF Publisher, Record, TerminalTypes, AwaitTypes
    <3> QED BY <3>1, <3>2 DEF EventMoves
  <2>4. ASSUME NEW x \in Events, EmitEvent(j, x)
        PROVE  EventMoves
    <3> DEFINE e == Record("emit", j[2], x)
    <3>1. e \in Records /\ Publish(jobs[j].at, e) /\ UNCHANGED stream
      BY <2>1, <2>4, RecordTypes DEF EmitEvent
    <3>2. Publisher(jobs[j].at, e)
      BY <2>4 DEF Publisher, Record, TerminalTypes, AwaitTypes
    <3> QED BY <2>1, <3>1, <3>2, NobodyPublishes DEF EventMoves
  <2>5. CASE FailStep(j)
    <3>1. PICK t \in {"step.retry", "step.failed"} :
             /\ Publish(jobs[j].at, Record(t, j[2], "none"))
             /\ t = "step.retry" <=> jobs[j].att + 1 < MaxAttempts
      BY <2>5 DEF FailStep
    <3>2. Record(t, j[2], "none") \in Records
      BY <2>1, RecordTypes DEF StepTypes
    <3>3. Publisher(jobs[j].at, Record(t, j[2], "none"))
      BY <2>5, <3>1 DEF Publisher, Record, TerminalTypes, AwaitTypes
    <3>4. UNCHANGED stream
      BY <2>5 DEF FailStep
    <3> QED BY <2>1, <3>1, <3>2, <3>3, <3>4, NobodyPublishes DEF EventMoves
  <2> QED BY <1>4, <2>2, <2>3, <2>4, <2>5 DEF RunStep
<1>5. ASSUME NEW j \in RegisterJobs, RunRegister(j)
      PROVE  EventMoves
  <2> DEFINE e == Record("await.registered", JobKey(j)[1], JobKey(j)[2])
  <2>1. e \in Records
    BY JobTypes, RecordTypes DEF AwaitTypes
  <2>2. jobs[j].at \in Instances \cup {NoInstance}
    BY JobTypes DEF TypeOK, Jobs
  <2>0. JobKey(j) = <<JobKey(j)[1], JobKey(j)[2]>>
    BY DEF JobKey
  <2>3. \A i : Publisher(i, e)
    BY <1>5, <2>0 DEF Publisher, Record, TerminalTypes
  <2>4. /\ UNCHANGED stream
        /\ UNCHANGED chain \/ \E i \in Instances \cup {NoInstance} : Publish(i, e)
    BY <1>5, <2>2 DEF RunRegister, RegisterAwait, FinishRegister, Announce
  <2> QED BY <2>1, <2>3, <2>4, NobodyPublishes DEF EventMoves
<1>6. ASSUME NEW i \in Instances, NEW k \in AwaitKeys, TimerFires(i, k) \/ ResolveWebhook(i, k)
      PROVE  EventMoves
  <2>1. PICK t \in AwaitTypes \ {"await.registered"} : Publish(i, Record(t, k[1], k[2]))
    BY <1>6 DEF TimerFires, ResolveWebhook, AwaitTypes
  <2>2. Record(t, k[1], k[2]) \in Records
    BY JobTypes, RecordTypes
  <2>3. Publisher(i, Record(t, k[1], k[2]))
    <3>1. k = <<k[1], k[2]>>
      BY DEF AwaitKeys
    <3> QED BY <1>6, <3>1, TypeNames DEF Publisher, Record, StepTypes
  <2>4. UNCHANGED stream
    BY <1>6 DEF TimerFires, ResolveWebhook
  <2> QED BY <2>1, <2>2, <2>3, <2>4 DEF EventMoves
<1>7. CASE MarkStalled
  BY <1>7 DEF EventMoves, MarkStalled
<1>8. CASE UNCHANGED <<stream, chain>>
  BY <1>8 DEF EventMoves
<1> QED
  BY <1>1, <1>2, <1>3, <1>4, <1>5, <1>6, <1>7, <1>8
     DEF Next, StartFlow, ClearTracker, RemoveJob, CheckWebhook, ReadPreviousStatus, StallTimeout

LEMMA PublishAdds ==
  ASSUME TypeOK, NEW i \in Instances, NEW e \in Records, Publish(i, e)
  PROVE  /\ \A k \in Instances : \A n \in DOMAIN chain[k] :
              n \in DOMAIN chain'[k] /\ chain'[k][n] = chain[k][n]
         /\ \A k \in Instances : \A n \in DOMAIN chain'[k] :
              \/ n \in DOMAIN chain[k] /\ chain'[k][n] = chain[k][n]
              \/ k = i /\ n = Len(chain[i]) + 1 /\ chain'[k][n] = e
<1>1. chain[i] \in Seq(Records) /\ chain'[i] = Append(chain[i], e)
  BY DEF TypeOK, Publish
<1>2. \A k \in Instances \ {i} : chain'[k] = chain[k]
  BY DEF TypeOK, Publish
<1> QED BY <1>1, <1>2

LEMMA PersistMoves ==
  ASSUME TypeOK, NEW i \in Instances, Persist(i)
  PROVE  /\ 1 \in DOMAIN chain[i] /\ chain[i][1] \in Records
         /\ pc[i] = "idle" /\ pc'[i] = chain[i][1].type
         /\ \A n \in DOMAIN stream : n \in DOMAIN stream' /\ stream'[n] = stream[n]
         /\ Len(stream) + 1 \in DOMAIN stream' /\ stream'[Len(stream) + 1] = chain[i][1]
         /\ \A n \in DOMAIN stream' : n \in DOMAIN stream \/ n = Len(stream) + 1
         /\ \A n \in DOMAIN chain'[i] :
              n + 1 \in DOMAIN chain[i] /\ chain'[i][n] = chain[i][n + 1]
         /\ \A k \in Instances \ {i} : chain'[k] = chain[k] /\ pc'[k] = pc[k]
<1>1. chain[i] \in Seq(Records) /\ chain[i] # <<>> /\ stream \in Seq(Records)
  BY DEF TypeOK, Persist
<1>2. /\ stream' = Append(stream, chain[i][1]) /\ chain'[i] = Tail(chain[i])
      /\ pc[i] = "idle" /\ pc'[i] = chain[i][1].type
  BY <1>1 DEF TypeOK, Persist
<1>3. \A k \in Instances \ {i} : chain'[k] = chain[k] /\ pc'[k] = pc[k]
  BY DEF TypeOK, Persist
<1> QED BY <1>1, <1>2, <1>3

LEMMA StallMoves ==
  ASSUME TypeOK, MarkStalled
  PROVE  /\ \A n \in DOMAIN stream : n \in DOMAIN stream' /\ stream'[n] = stream[n]
         /\ \A n \in DOMAIN stream' :
              \/ n \in DOMAIN stream
              \/ n = Len(stream) + 1 /\ stream'[n].type = "flow.stalled"
<1>1. stalling \in Statuses /\ stream \in Seq(Records)
  BY DEF TypeOK, MarkStalled
<1>2. PICK e \in Records : e.type = "flow.stalled" /\ stream' = Append(stream, e)
  <2>1. Record("flow.stalled", NoStep, stalling) \in Records
    BY <1>1, RecordTypes
  <2>2. Record("flow.stalled", NoStep, stalling).type = "flow.stalled"
    BY DEF Record
  <2> QED BY <2>1, <2>2 DEF MarkStalled
<1> QED BY <1>1, <1>2

\* How the stage of a handler and the tracker move, but for the persistence.
LEMMA StageMoves ==
  ASSUME TypeOK, NEW i \in Instances, Next, ~Persist(i)
  PROVE  /\ pc'[i] \in EventTypes => pc'[i] = pc[i]
         /\ pc'[i] \in {"decide", "write"} =>
              \/ AnalyzeStream(i)
              \/ pc[i] \in {"decide", "write"} /\ local'[i].seen = local[i].seen
         /\ \/ tracker'[i] \in {"on", tracker[i]}
            \/ tracker[i] = "clearing"
            \/ pc[i] \in TerminalTypes
<1> USE DEF index, handler, scheduled, callers
<1> DEFINE Moves ==
      /\ pc'[i] \in EventTypes => pc'[i] = pc[i]
      /\ pc'[i] \in {"decide", "write"} =>
           \/ AnalyzeStream(i)
           \/ pc[i] \in {"decide", "write"} /\ local'[i].seen = local[i].seen
      /\ \/ tracker'[i] \in {"on", tracker[i]}
         \/ tracker[i] = "clearing"
         \/ pc[i] \in TerminalTypes
<1>0. /\ pc \in [Instances -> Stages] /\ local \in [Instances -> Snapshots]
      /\ tracker \in [Instances -> {"off", "on", "clearing"}]
  BY DEF TypeOK
<1>e. "idle" \notin EventTypes
  BY StageTypes
<1>1. ASSUME NEW k \in Instances, Handle(k)
      PROVE  Moves
  <2>1. CASE k # i
    <3>1. pc'[i] = pc[i] /\ local'[i] = local[i] /\ tracker'[i] = tracker[i]
      BY <1>0, <1>1, <2>1
         DEF Handle, EndHandler, Persist, OnTerminal, OnFlowStart, OnFlowCancel,
             UnscheduleCanceled, OnStepEvent, OnEmit, OnAwaitRegistered, SetAwaiting,
             OnAwaitResolved, OnAwaitTimeout, ReadIndex, ReadStream, EnqueuePending,
             EndTrigger, AnalyzeStream, DecideStatus, WriteStatus
    <3> QED BY <3>1
  <2>2. CASE k = i
    <3> USE <1>0, <1>e, StageTypes DEF EndHandler
    <3>1. CASE OnTerminal(i)
      BY <3>1 DEF OnTerminal
    <3>2. CASE OnFlowStart(i) \/ OnFlowCancel(i) \/ UnscheduleCanceled(i) \/ OnEmit(i)
      BY <3>2 DEF OnFlowStart, OnFlowCancel, UnscheduleCanceled, OnEmit
    <3>3. CASE OnStepEvent(i)
      BY <3>3 DEF OnStepEvent
    <3>4. CASE OnAwaitRegistered(i) \/ SetAwaiting(i) \/ OnAwaitResolved(i) \/ OnAwaitTimeout(i)
      BY <3>4 DEF OnAwaitRegistered, SetAwaiting, OnAwaitResolved, OnAwaitTimeout
    <3>5. CASE ReadIndex(i) \/ ReadStream(i) \/ EnqueuePending(i) \/ EndTrigger(i)
      BY <3>5 DEF ReadIndex, ReadStream, EnqueuePending, EndTrigger
    <3>6. CASE AnalyzeStream(i)
      BY <3>6 DEF AnalyzeStream
    <3>7. CASE DecideStatus(i)
      BY <3>7 DEF DecideStatus, Snapshots
    <3>8. CASE WriteStatus(i)
      BY <3>8 DEF WriteStatus
    <3> QED
      BY <1>1, <2>2, <3>1, <3>2, <3>3, <3>4, <3>5, <3>6, <3>7, <3>8 DEF Handle
  <2> QED BY <2>1, <2>2
<1>2. ASSUME NEW k \in Instances, ClearTracker(k)
      PROVE  Moves
  BY <1>0, <1>2 DEF ClearTracker
<1>3. CASE UNCHANGED <<pc, local, tracker>>
  BY <1>3
<1> QED
  BY <1>1, <1>2, <1>3
     DEF Next, RunStep, RunRegister, StartFlow, PublishStart, PublishCancel, StartStep, EmitEvent,
         CompleteStep, FailStep, RemoveJob, RegisterAwait, FinishRegister, TimerFires,
         ResolveWebhook, CheckWebhook, ReadPreviousStatus, StallTimeout, MarkStalled

-----------------------------------------------------------------------------
(* One verdict, with one instance. *)

LEMMA VerdictInit == Init => VerdictGuarded /\ OneTerminalEvent
BY StageTypes DEF Init, VerdictGuarded, OneTerminalEvent, TerminalTypes

LEMMA VerdictStep ==
  ASSUME NEW i, Instances = {i}
  PROVE  TypeOK /\ CurrentMatches /\ VerdictGuarded /\ OneTerminalEvent /\ [Next]_vars
           => VerdictGuarded' /\ OneTerminalEvent'
<1> SUFFICES ASSUME TypeOK, CurrentMatches, VerdictGuarded, OneTerminalEvent, [Next]_vars
             PROVE  VerdictGuarded' /\ OneTerminalEvent'
  OBVIOUS
<1> DEFINE Terminal(e) == e.type \in TerminalTypes
<1>0. i \in Instances
  OBVIOUS
<1>t. /\ stream \in Seq(Records) /\ chain[i] \in Seq(Records)
  BY DEF TypeOK
<1>o. Over <=> \E n \in DOMAIN stream : Terminal(stream[n])
  BY DEF Over, HasEvent
<1>p. Over' <=> \E n \in DOMAIN stream' : Terminal(stream'[n])
  BY DEF Over, HasEvent
<1>g. /\ \A n \in DOMAIN chain[i] : Terminal(chain[i][n]) =>
           /\ tracker[i] = "on" /\ ~Over
           /\ \A m \in DOMAIN chain[i] : Terminal(chain[i][m]) => m = n
      /\ pc[i] \in TerminalTypes => Over
      /\ pc[i] \in {"decide", "write"} /\ Over => local[i].seen
  BY <1>0 DEF VerdictGuarded
<1>h. ASSUME /\ \A n \in DOMAIN chain'[i] : Terminal(chain'[i][n]) =>
                  /\ tracker'[i] = "on" /\ ~Over'
                  /\ \A m \in DOMAIN chain'[i] : Terminal(chain'[i][m]) => m = n
             /\ pc'[i] \in TerminalTypes => Over'
             /\ pc'[i] \in {"decide", "write"} /\ Over' => local'[i].seen
      PROVE  VerdictGuarded'
  BY <1>h DEF VerdictGuarded
<1>1. CASE Persist(i)
  <2> DEFINE e == chain[i][1]
  <2>1. tracker' = tracker
    BY <1>1 DEF Persist
  <2>2. pc'[i] = e.type /\ e.type \in EventTypes /\ e.type \notin {"decide", "write"}
    BY <1>0, <1>1, PersistMoves, RecordFields, StageTypes
  <2>3. Over' <=> Over \/ Terminal(e)
    BY <1>0, <1>1, <1>o, <1>p, PersistMoves
  <2>4. OneTerminalEvent'
    <3>1. Terminal(e) => ~Over
      BY <1>0, <1>1, <1>g, PersistMoves
    <3> QED BY <1>0, <1>1, <1>o, <3>1, PersistMoves DEF OneTerminalEvent
  <2>5. ASSUME NEW n \in DOMAIN chain'[i], Terminal(chain'[i][n])
        PROVE  /\ tracker'[i] = "on" /\ ~Over'
               /\ \A m \in DOMAIN chain'[i] : Terminal(chain'[i][m]) => m = n
    <3>0. chain'[i] \in Seq(Records)
      BY <1>0, <1>1 DEF TypeOK, Persist
    <3>1. n + 1 \in DOMAIN chain[i] /\ Terminal(chain[i][n + 1]) /\ n + 1 # 1
      BY <1>0, <1>1, <2>5, <3>0, PersistMoves
    <3>2. tracker[i] = "on" /\ ~Over /\ ~Terminal(e)
      BY <1>0, <1>1, <1>g, <3>1, PersistMoves
    <3>3. \A m \in DOMAIN chain'[i] : Terminal(chain'[i][m]) => m + 1 = n + 1
      BY <1>0, <1>1, <1>g, <3>1, PersistMoves
    <3> QED BY <2>1, <2>3, <3>0, <3>2, <3>3
  <2> QED BY <1>h, <2>2, <2>3, <2>4, <2>5
<1>2. CASE Next /\ ~Persist(i)
  <2>1. \A n \in DOMAIN stream : n \in DOMAIN stream' /\ stream'[n] = stream[n]
    BY <1>2, StallMoves, WhoPublishes DEF EventMoves
  <2>2. \A n \in DOMAIN stream' : Terminal(stream'[n]) => n \in DOMAIN stream
    BY <1>2, StallMoves, WhoPublishes DEF EventMoves, TerminalTypes
  <2>3. OneTerminalEvent' /\ (Over' <=> Over)
    BY <1>o, <1>p, <2>1, <2>2 DEF OneTerminalEvent
  <2>4. pc'[i] \in TerminalTypes => Over'
    BY <1>0, <1>2, <1>g, <2>3, StageMoves DEF EventTypes
  <2>5. pc'[i] \in {"decide", "write"} /\ Over' => local'[i].seen
    <3>1. CASE AnalyzeStream(i)
      <4>1. local[i] \in Snapshots /\ local \in [Instances -> Snapshots]
        BY <1>0 DEF TypeOK
      <4>2. local'[i].seen = \E t \in TerminalTypes : HasEvent(stream, t)
        BY <1>0, <3>1, <4>1 DEF AnalyzeStream, Snapshots
      <4> QED BY <2>3, <4>2 DEF Over
    <3>2. CASE pc[i] \in {"decide", "write"} /\ local'[i].seen = local[i].seen
      BY <1>g, <2>3, <3>2
    <3> QED BY <1>0, <1>2, <3>1, <3>2, StageMoves
  <2>6. ASSUME NEW n \in DOMAIN chain'[i], Terminal(chain'[i][n])
        PROVE  /\ tracker'[i] = "on" /\ ~Over'
               /\ \A m \in DOMAIN chain'[i] : Terminal(chain'[i][m]) => m = n
    <3>1. CASE UNCHANGED chain
      <4>1. tracker[i] = "on" /\ ~Over
        BY <1>g, <2>6, <3>1
      <4>2. tracker'[i] = "on"
        BY <1>0, <1>2, <1>g, <4>1, StageMoves
      <4> QED BY <1>g, <2>3, <2>6, <3>1, <4>1, <4>2
    <3>2. ASSUME NEW e \in Records, Publish(i, e), Publisher(i, e)
          PROVE  /\ tracker'[i] = "on" /\ ~Over'
                 /\ \A m \in DOMAIN chain'[i] : Terminal(chain'[i][m]) => m = n
      <4>1. CASE Terminal(e)
        <5>1. WriteStatus(i)
          BY <3>2, <4>1 DEF Publisher
        <5>2. chain' # chain
          BY <1>0, <1>t, <3>2 DEF Publish, TypeOK
        <5>3. ~local[i].seen /\ tracker[i] = "off" /\ tracker'[i] = "on" /\ pc[i] = "write"
          <6>1. pc[i] = "write" /\ ~AlreadyPublished(i) /\ tracker' = [tracker EXCEPT ![i] = "on"]
            BY <5>1, <5>2 DEF WriteStatus
          <6> QED BY <1>0, <6>1 DEF AlreadyPublished, TypeOK
        <5>4. ~Over /\ \A m \in DOMAIN chain[i] : ~Terminal(chain[i][m])
          BY <1>g, <5>3
        <5> QED BY <1>0, <2>3, <2>6, <3>2, <5>3, <5>4, PublishAdds
      <4>2. CASE ~Terminal(e)
        <5>1. n \in DOMAIN chain[i] /\ Terminal(chain[i][n])
          BY <1>0, <2>6, <3>2, <4>2, PublishAdds
        <5>2. tracker'[i] = "on" /\ ~Over
          BY <1>0, <1>2, <1>g, <5>1, StageMoves
        <5>3. \A m \in DOMAIN chain'[i] : Terminal(chain'[i][m]) => m \in DOMAIN chain[i] /\ Terminal(chain[i][m])
          BY <1>0, <3>2, <4>2, PublishAdds
        <5> QED BY <1>g, <2>3, <5>1, <5>2, <5>3
      <4> QED BY <4>1, <4>2
    <3> QED BY <1>2, <3>1, <3>2, WhoPublishes DEF EventMoves
  <2> QED BY <1>h, <2>3, <2>4, <2>5, <2>6
<1>3. CASE UNCHANGED vars
  BY <1>3 DEF vars, VerdictGuarded, OneTerminalEvent, Over, HasEvent
<1> QED BY <1>1, <1>2, <1>3

\* With one instance a run gets at most one terminal event, whatever the flow, the
\* awaits, the failures, the cancellations and the stalls.
THEOREM OneVerdict ==
  ASSUME NEW i, Instances = {i}
  PROVE  Spec => []OneTerminalEvent
BY VerdictInit, VerdictStep, TypeCorrect, PTL DEF Spec

-----------------------------------------------------------------------------
(* Where the jobs of a run come from, and what becomes of them. *)

\* The actions that may put a job j of the run into the queue.
Enqueuer(j) ==
  \/ StartFlow /\ j = <<"step", Entry>>
  \/ \E i \in Instances : EnqueuePending(i) /\ j \in local[i].pending
  \/ \E k \in StepJobs : CompleteStep(k) /\ j = <<"register-after", k[2]>>

LEMMA NoneIsNoJob == NoJob.st = "none" /\ NewJob.st = "waiting"
BY DEF NoJob, NewJob

LEMMA JobNames ==
  /\ \A j \in StepJobs \cup RegisterJobs :
       j \in JobIds /\ j[1] \in {"step", "resumed", "register-before", "register-after"}
  /\ \A j \in StepJobs : j[1] \in {"step", "resumed"} /\ j = <<j[1], j[2]>>
  /\ \A j \in RegisterJobs : j[1] \in {"register-before", "register-after"}
  /\ \A j \in StepJobs, k \in RegisterJobs : j # k
BY DEF StepJobs, RegisterJobs, JobIds

LEMMA JobMoves ==
  ASSUME TypeOK, Next, NEW j \in StepJobs \cup RegisterJobs
  PROVE  /\ jobs[j].st = "none" /\ jobs'[j].st # "none" => Enqueuer(j)
         /\ jobs[j].st = "done" /\ ~RemoveFinished => jobs'[j].st = "done"
<1> USE DEF index, handler, scheduled, callers
<1> DEFINE Moves == /\ jobs[j].st = "none" /\ jobs'[j].st # "none" => Enqueuer(j)
                    /\ jobs[j].st = "done" /\ ~RemoveFinished => jobs'[j].st = "done"
<1>0. j \in JobIds /\ jobs \in [JobIds -> Jobs]
  BY JobTypes DEF TypeOK
<1>1. ASSUME NEW ids, Enqueue(ids), j \in ids => Enqueuer(j)
      PROVE  Moves
  BY <1>0, <1>1 DEF Enqueue
<1>2. CASE UNCHANGED jobs
  BY <1>2
<1>3. CASE StartFlow
  <2>1. Enqueue({<<"step", Entry>>})
    BY <1>3 DEF StartFlow
  <2>2. j \in {<<"step", Entry>>} => Enqueuer(j)
    BY <1>3 DEF Enqueuer
  <2> QED BY <1>1, <2>1, <2>2
<1>4. ASSUME NEW i \in Instances, Handle(i)
      PROVE  Moves
  <2>1. CASE EnqueuePending(i)
    <3>1. PICK k \in local[i].pending : Enqueue({k})
      BY <2>1 DEF EnqueuePending
    <3>2. j \in {k} => Enqueuer(j)
      BY <2>1 DEF Enqueuer
    <3> QED BY <1>1, <3>1, <3>2
  <2>2. CASE OnAwaitResolved(i) \/ OnAwaitTimeout(i)
    <3>1. UNCHANGED jobs \/ \E q \in {"resolve", "timeout"} : Enqueue({<<q, cur[i].step>>})
      BY <2>2 DEF OnAwaitResolved, OnAwaitTimeout
    <3>2. \A q \in {"resolve", "timeout"} : j \notin {<<q, cur[i].step>>}
      BY JobNames
    <3> QED BY <1>1, <1>2, <3>1, <3>2
  <2>3. CASE UNCHANGED jobs
    BY <1>2, <2>3
  <2> QED
    BY <1>4, <2>1, <2>2, <2>3
       DEF Handle, Persist, OnTerminal, OnFlowStart, OnFlowCancel, UnscheduleCanceled,
           OnStepEvent, OnEmit, OnAwaitRegistered, SetAwaiting, ReadIndex, ReadStream,
           EndTrigger, AnalyzeStream, DecideStatus, WriteStatus
<1>5. ASSUME NEW k \in StepJobs, RunStep(k)
      PROVE  Moves
  <2>0. k \in JobIds
    BY JobTypes
  <2>1. ASSUME NEW i \in Instances, StartStep(i, k)
        PROVE  Moves
    BY <1>0, <2>0, <2>1 DEF StartStep
  <2>2. ASSUME NEW e \in Events, EmitEvent(k, e)
        PROVE  Moves
    BY <1>0, <2>0, <2>2 DEF EmitEvent
  <2>3. CASE CompleteStep(k)
    <3>1. CASE j = k
      <4>1. jobs[k].st = "active"
        BY <2>3 DEF CompleteStep
      <4> QED BY <3>1, <4>1
    <3>2. CASE j # k /\ j # <<"register-after", k[2]>>
      <4>1. jobs'[j] = jobs[j]
        BY <1>0, <2>3, <3>2 DEF CompleteStep
      <4> QED BY <4>1
    <3>3. CASE j = <<"register-after", k[2]>>
      <4>1. Enqueuer(j)
        BY <2>3, <3>3 DEF Enqueuer
      <4>2. k # <<"register-after", k[2]>>
        BY JobNames
      <4>3. jobs'[j] = jobs[j] \/ jobs[j].st = "none"
        BY <1>0, <2>3, <3>3, <4>2 DEF CompleteStep
      <4> QED BY <4>1, <4>3
    <3> QED BY <3>1, <3>2, <3>3
  <2>4. CASE FailStep(k)
    BY <1>0, <2>0, <2>4 DEF FailStep
  <2> QED BY <1>5, <2>1, <2>2, <2>3, <2>4 DEF RunStep
<1>6. ASSUME NEW k \in RegisterJobs, RunRegister(k)
      PROVE  Moves
  <2>0. k \in JobIds
    BY JobTypes
  <2>1. ASSUME NEW i \in Instances, RegisterAwait(i, k)
        PROVE  Moves
    BY <1>0, <2>0, <2>1 DEF RegisterAwait
  <2>2. CASE FinishRegister(k)
    BY <1>0, <2>0, <2>2 DEF FinishRegister
  <2> QED BY <1>6, <2>1, <2>2 DEF RunRegister
<1>7. ASSUME NEW k \in StepJobs, RemoveJob(k)
      PROVE  Moves
  BY <1>0, <1>7, JobTypes, NoneIsNoJob DEF RemoveJob
<1> QED
  BY <1>2, <1>3, <1>4, <1>5, <1>6, <1>7
     DEF Next, PublishStart, ClearTracker, PublishCancel, TimerFires, ResolveWebhook,
         CheckWebhook, ReadPreviousStatus, StallTimeout, MarkStalled

-----------------------------------------------------------------------------
(* A cancellation stops the run. *)

\* The events of a chain after a step, and those of the stream.
LEMMA EventsMove ==
  ASSUME TypeOK, CurrentMatches, Next
  PROVE  /\ \A n \in DOMAIN stream' :
              \/ n \in DOMAIN stream /\ stream'[n] = stream[n]
              \/ stream'[n].type = "flow.stalled"
              \/ \E i \in Instances : Persist(i) /\ stream'[n] = chain[i][1] /\ 1 \in DOMAIN chain[i]
         /\ \A i \in Instances : \A n \in DOMAIN chain'[i] :
              \/ n \in DOMAIN chain[i] /\ chain'[i][n] = chain[i][n]
              \/ Persist(i) /\ n + 1 \in DOMAIN chain[i] /\ chain'[i][n] = chain[i][n + 1]
              \/ chain'[i][n] \in Records /\ Publisher(i, chain'[i][n])
<1>1. ASSUME NEW k \in Instances, Persist(k)
      PROVE  /\ \A n \in DOMAIN stream' :
                  \/ n \in DOMAIN stream /\ stream'[n] = stream[n]
                  \/ stream'[n] = chain[k][1] /\ 1 \in DOMAIN chain[k]
             /\ \A i \in Instances : \A n \in DOMAIN chain'[i] :
                  \/ n \in DOMAIN chain[i] /\ chain'[i][n] = chain[i][n]
                  \/ i = k /\ n + 1 \in DOMAIN chain[i] /\ chain'[i][n] = chain[i][n + 1]
  BY <1>1, PersistMoves
<1>2. ASSUME NEW k \in Instances, NEW e \in Records, Publish(k, e), Publisher(k, e)
      PROVE  \A i \in Instances : \A n \in DOMAIN chain'[i] :
               \/ n \in DOMAIN chain[i] /\ chain'[i][n] = chain[i][n]
               \/ i = k /\ chain'[i][n] = e
  BY <1>2, PublishAdds
<1> QED BY <1>1, <1>2, StallMoves, WhoPublishes DEF EventMoves

LEMMA CancelStep ==
  TypeOK /\ CurrentMatches /\ CancelAfterStart /\ [Next]_vars => CancelAfterStart'
<1> SUFFICES ASSUME TypeOK, CurrentMatches, CancelAfterStart, [Next]_vars,
                    start' # "published"
             PROVE  CancelAfterStart'
  BY DEF CancelAfterStart
<1> USE DEF index, handler, scheduled, callers
<1>1. CASE Next
  <2>1. start # "published" /\ ~ReadPreviousStatus /\ \A i \in Instances : ~PublishCancel(i)
    <3>1. start # "published" \/ UNCHANGED start
      BY <1>1 DEF Next, Handle, RunStep, RunRegister, StartFlow, PublishStart, ClearTracker,
         PublishCancel, Persist, OnTerminal, OnFlowStart, OnFlowCancel, UnscheduleCanceled,
         OnStepEvent, OnEmit, OnAwaitRegistered, SetAwaiting, OnAwaitResolved,
         OnAwaitTimeout, ReadIndex, ReadStream, EnqueuePending, EndTrigger, AnalyzeStream,
         DecideStatus, WriteStatus, StartStep, EmitEvent, CompleteStep, FailStep, RemoveJob,
         RegisterAwait, FinishRegister, TimerFires, ResolveWebhook, CheckWebhook,
         ReadPreviousStatus, StallTimeout, MarkStalled
    <3> QED BY <3>1 DEF CancelAfterStart, ReadPreviousStatus, PublishCancel
  <2>2. UNCHANGED canceling
    BY <1>1, <2>1 DEF Next, Handle, RunStep, RunRegister, StartFlow, PublishStart,
         ClearTracker, Persist, OnTerminal, OnFlowStart, OnFlowCancel, UnscheduleCanceled,
         OnStepEvent, OnEmit, OnAwaitRegistered, SetAwaiting, OnAwaitResolved,
         OnAwaitTimeout, ReadIndex, ReadStream, EnqueuePending, EndTrigger, AnalyzeStream,
         DecideStatus, WriteStatus, StartStep, EmitEvent, CompleteStep, FailStep, RemoveJob,
         RegisterAwait, FinishRegister, TimerFires, ResolveWebhook, CheckWebhook,
         StallTimeout, MarkStalled
  <2>3. \A i \in Instances : \A n \in DOMAIN chain'[i] : chain'[i][n].type # "flow.cancel"
    BY <1>1, <2>1, EventsMove DEF CancelAfterStart, Publisher
  <2>4. ~HasEvent(stream, "flow.cancel")'
    <3>1. \A n \in DOMAIN stream' : stream'[n].type # "flow.cancel"
      BY <1>1, <2>1, EventsMove DEF CancelAfterStart, HasEvent
    <3> QED BY <3>1 DEF HasEvent
  <2> QED BY <2>1, <2>2, <2>3, <2>4 DEF CancelAfterStart
<1>2. CASE UNCHANGED vars
  BY <1>2 DEF vars, CancelAfterStart, HasEvent
<1> QED BY <1>1, <1>2

LEMMA CancelInit == Init => CancelAfterStart
BY DEF Init, CancelAfterStart, HasEvent

\* What becomes of the jobs a handler holds back.
LEMMA PendingMoves ==
  ASSUME TypeOK, Next, NEW i \in Instances
  PROVE  \/ local'[i].pending \subseteq local[i].pending
         \/ /\ ReadStream(i) /\ MayTrigger(local[i].entry)
            /\ local'[i].pending = {JobOf(s, local[i].entry) : s \in PendingSteps(local[i].entry)}
<1> USE DEF index, handler, scheduled, callers
<1> DEFINE Moves == \/ local'[i].pending \subseteq local[i].pending
                    \/ /\ ReadStream(i) /\ MayTrigger(local[i].entry)
                       /\ local'[i].pending =
                            {JobOf(s, local[i].entry) : s \in PendingSteps(local[i].entry)}
<1>0. local \in [Instances -> Snapshots] /\ NoLocal.pending = {}
  BY DEF TypeOK, NoLocal
<1>1. ASSUME NEW k \in Instances, Handle(k)
      PROVE  Moves
  <2>1. CASE ReadStream(k)
    <3> DEFINE x == local[k].entry
               held == IF MayTrigger(x) THEN {JobOf(s, x) : s \in PendingSteps(x)} ELSE {}
    <3>1. local' = [local EXCEPT ![k].pending = held]
      BY <2>1 DEF ReadStream
    <3>2. local'[i].pending = local[i].pending \/ (i = k /\ local'[i].pending = held)
      <4> HIDE DEF held
      <4> QED BY <1>0, <3>1 DEF Snapshots
    <3>3. CASE local'[i].pending = local[i].pending
      BY <3>3
    <3>4. CASE i = k /\ local'[i].pending = held /\ MayTrigger(x)
      BY <2>1, <3>4
    <3>5. CASE local'[i].pending = held /\ ~MayTrigger(x)
      BY <3>5
    <3> QED BY <3>2, <3>3, <3>4, <3>5
  <2>2. CASE ReadIndex(k) \/ EnqueuePending(k) \/ AnalyzeStream(k) \/ DecideStatus(k)
    <3>1. CASE ReadIndex(k) \/ AnalyzeStream(k)
      BY <1>0, <3>1 DEF ReadIndex, AnalyzeStream, Snapshots
    <3>2. CASE EnqueuePending(k)
      BY <1>0, <3>2 DEF EnqueuePending, Snapshots
    <3>3. CASE DecideStatus(k)
      BY <1>0, <3>3 DEF DecideStatus, EndHandler, Snapshots
    <3> QED BY <2>2, <3>1, <3>2, <3>3
  <2>3. CASE EndHandler(k) \/ UNCHANGED local
    BY <1>0, <2>3 DEF EndHandler
  <2> QED
    BY <1>1, <2>1, <2>2, <2>3
       DEF Handle, Persist, OnTerminal, OnFlowStart, OnFlowCancel, UnscheduleCanceled,
           OnStepEvent, OnEmit, OnAwaitRegistered, SetAwaiting, OnAwaitResolved,
           OnAwaitTimeout, EndTrigger, WriteStatus
<1>2. CASE UNCHANGED local
  BY <1>2
<1> QED
  BY <1>1, <1>2
     DEF Next, RunStep, RunRegister, StartFlow, PublishStart, ClearTracker, PublishCancel,
         StartStep, EmitEvent, CompleteStep, FailStep, RemoveJob, RegisterAwait, FinishRegister,
         TimerFires, ResolveWebhook, CheckWebhook, ReadPreviousStatus, StallTimeout, MarkStalled

\* While a handler has jobs to enqueue it goes on enqueueing.
LEMMA EnqueueMoves ==
  ASSUME TypeOK, Next, NEW i \in Instances, pc[i] = "enqueue", local[i].pending # {}
  PROVE  pc'[i] = "enqueue" /\ ~Persist(i)
<1> USE DEF index, handler, scheduled, callers
<1>0. pc \in [Instances -> Stages] /\ "enqueue" \notin EventTypes
  BY StageTypes DEF TypeOK
<1>1. ASSUME NEW k \in Instances, Handle(k)
      PROVE  pc'[i] = "enqueue" /\ ~Persist(i)
  <2>1. CASE k = i
    <3>1. EnqueuePending(i)
      BY <1>0, <1>1, <2>1
         DEF Handle, Persist, OnTerminal, OnFlowStart, OnFlowCancel, UnscheduleCanceled,
             OnStepEvent, OnEmit, OnAwaitRegistered, SetAwaiting, OnAwaitResolved,
             OnAwaitTimeout, ReadIndex, ReadStream, EndTrigger, AnalyzeStream, DecideStatus,
             WriteStatus, EventTypes, TerminalTypes, AwaitTypes, StepTypes
    <3> QED BY <3>1 DEF EnqueuePending, Persist
  <2>2. CASE k # i
    BY <1>0, <1>1, <2>2
       DEF Handle, EndHandler, Persist, OnTerminal, OnFlowStart, OnFlowCancel,
           UnscheduleCanceled, OnStepEvent, OnEmit, OnAwaitRegistered, SetAwaiting,
           OnAwaitResolved, OnAwaitTimeout, ReadIndex, ReadStream, EnqueuePending,
           EndTrigger, AnalyzeStream, DecideStatus, WriteStatus
  <2> QED BY <2>1, <2>2
<1>2. CASE UNCHANGED pc
  BY <1>0, <1>2 DEF Persist
<1> QED
  BY <1>1, <1>2
     DEF Next, RunStep, RunRegister, StartFlow, PublishStart, ClearTracker, PublishCancel,
         StartStep, EmitEvent, CompleteStep, FailStep, RemoveJob, RegisterAwait, FinishRegister,
         TimerFires, ResolveWebhook, CheckWebhook, ReadPreviousStatus, StallTimeout, MarkStalled

LEMMA HeldBackStep ==
  ASSUME NEW i, Instances = {i}
  PROVE  TypeOK /\ CurrentMatches /\ NothingHeldBack /\ [Next]_vars => NothingHeldBack'
<1> SUFFICES ASSUME TypeOK, CurrentMatches, NothingHeldBack, [Next]_vars,
                    local'[i].pending # {}
             PROVE  pc'[i] = "enqueue" /\ ~HasEvent(stream, "flow.cancel")'
  BY DEF NothingHeldBack
<1>1. CASE Next
  <2>1. CASE local[i].pending # {}
    <3>1. pc[i] = "enqueue" /\ ~HasEvent(stream, "flow.cancel")
      BY <2>1 DEF NothingHeldBack
    <3>2. pc'[i] = "enqueue" /\ ~Persist(i)
      BY <1>1, <2>1, <3>1, EnqueueMoves
    <3>3. \A n \in DOMAIN stream' : stream'[n].type # "flow.cancel"
      BY <1>1, <3>1, <3>2, EventsMove DEF HasEvent
    <3> QED BY <3>2, <3>3 DEF HasEvent
  <2>2. CASE local[i].pending = {}
    <3>1. ReadStream(i) /\ MayTrigger(local[i].entry)
      BY <1>1, <2>2, PendingMoves
    <3>2. stream' = stream /\ pc'[i] = "enqueue"
      BY <3>1 DEF ReadStream, index, TypeOK
    <3> QED BY <3>1, <3>2 DEF MayTrigger, HasEvent
  <2> QED BY <2>1, <2>2
<1>2. CASE UNCHANGED vars
  BY <1>2 DEF vars, NothingHeldBack, HasEvent
<1> QED BY <1>1, <1>2

\* One instance: once the cancellation is in the stream no step is enqueued and no
\* awaitBefore is registered, whatever the flow.  The check of the stream and the
\* enqueues are separated by awaits, but the handlers of one instance follow each
\* other, and flow.cancel is persisted by one of them.
THEOREM CancelStops ==
  ASSUME NEW i, Instances = {i}
  PROVE  Spec => NoStepAfterCancel
<1> DEFINE Inv == TypeOK /\ CurrentMatches /\ CancelAfterStart /\ NothingHeldBack
<1>1. ASSUME Inv, [Next]_vars
      PROVE  HasEvent(stream, "flow.cancel") =>
               \A j \in StepJobs \cup RegisterJobs :
                 j[1] # "register-after" /\ jobs[j].st = "none" => jobs'[j].st = "none"
  <2> SUFFICES ASSUME HasEvent(stream, "flow.cancel"), NEW j \in StepJobs \cup RegisterJobs,
                      j[1] # "register-after", jobs[j].st = "none", jobs'[j].st # "none"
               PROVE  FALSE
    OBVIOUS
  <2>1. Next
    BY <1>1 DEF vars
  <2>2. Enqueuer(j)
    BY <1>1, <2>1, JobMoves
  <2>3. ~StartFlow
    BY <1>1 DEF StartFlow, CancelAfterStart
  <2>4. \A k \in Instances : local[k].pending = {}
    BY <1>1 DEF NothingHeldBack
  <2> QED BY <2>2, <2>3, <2>4 DEF Enqueuer
<1>2. Init => Inv
  BY InitTypes, CancelInit DEF Init, NothingHeldBack, NoLocal
<1>3. Inv /\ [Next]_vars => Inv'
  BY TypeStep, CancelStep, HeldBackStep
<1> QED BY <1>1, <1>2, <1>3, PTL DEF Spec, NoStepAfterCancel

-----------------------------------------------------------------------------
(* A canceled run stays canceled, with one instance and no stall timeout. *)

\* The steps that change the status of the entry.
LEMMA StatusMoves ==
  ASSUME TypeOK, CurrentMatches, Next
  PROVE  \/ entry'.status = entry.status
         \/ MarkStalled
         \/ \E i \in Instances :
              \/ pc[i] = "flow.start" /\ pc'[i] = "idle"
              \/ pc[i] = "flow.cancel" /\ entry.status # "none" /\ entry'.status = "canceled"
              \/ pc[i] = "register" /\ pc'[i] = "idle"
              \/ pc[i] = "write" /\ pc'[i] = "idle" /\ entry.status # "none"
<1> USE DEF index, handler, scheduled, callers
<1>0. entry \in Entries /\ pc \in [Instances -> Stages]
  BY DEF TypeOK
<1>1. ASSUME NEW i \in Instances, Handle(i)
      PROVE  \/ entry'.status = entry.status
             \/ pc[i] = "flow.start" /\ pc'[i] = "idle"
             \/ pc[i] = "flow.cancel" /\ entry.status # "none" /\ entry'.status = "canceled"
             \/ pc[i] = "register" /\ pc'[i] = "idle"
             \/ pc[i] = "write" /\ pc'[i] = "idle" /\ entry.status # "none"
  <2>1. CASE OnFlowStart(i)
    BY <1>0, <2>1 DEF OnFlowStart, EndHandler
  <2>2. CASE OnFlowCancel(i)
    BY <1>0, <2>2 DEF OnFlowCancel, Entries
  <2>3. CASE OnEmit(i)
    BY <1>0, <2>3 DEF OnEmit, Entries
  <2>4. CASE SetAwaiting(i)
    BY <1>0, <2>4 DEF SetAwaiting, EndHandler
  <2>5. CASE OnAwaitResolved(i)
    BY <1>0, <2>5 DEF OnAwaitResolved, Entries
  <2>6. CASE OnAwaitTimeout(i)
    BY <1>0, <2>6 DEF OnAwaitTimeout, Entries
  <2>7. CASE WriteStatus(i)
    BY <1>0, <2>7 DEF WriteStatus, EndHandler
  <2>8. CASE UNCHANGED entry
    BY <2>8
  <2> QED
    BY <1>1, <2>1, <2>2, <2>3, <2>4, <2>5, <2>6, <2>7, <2>8
       DEF Handle, Persist, OnTerminal, UnscheduleCanceled, OnStepEvent, OnAwaitRegistered,
           ReadIndex, ReadStream, EnqueuePending, EndTrigger, AnalyzeStream, DecideStatus
<1>2. CASE UNCHANGED entry
  BY <1>2
<1> QED
  BY <1>1, <1>2
     DEF Next, RunStep, RunRegister, StartFlow, PublishStart, ClearTracker, PublishCancel,
         StartStep, EmitEvent, CompleteStep, FailStep, RemoveJob, RegisterAwait, FinishRegister,
         TimerFires, ResolveWebhook, CheckWebhook, ReadPreviousStatus, StallTimeout

\* How a handler comes to write a status past an await.
LEMMA WriteMoves ==
  ASSUME TypeOK, NEW i \in Instances, Next
  PROVE  /\ pc'[i] = "register" =>
              \/ pc[i] = "register"
              \/ entry.status \notin {"none", "canceled"} /\ UNCHANGED entry
         /\ pc'[i] = "write" =>
              \/ pc[i] = "write"
              \/ entry.status # "canceled" /\ UNCHANGED entry
<1> USE DEF index, handler, scheduled, callers
<1> DEFINE Moves ==
      /\ pc'[i] = "register" =>
           \/ pc[i] = "register"
           \/ entry.status \notin {"none", "canceled"} /\ UNCHANGED entry
      /\ pc'[i] = "write" =>
           \/ pc[i] = "write"
           \/ entry.status # "canceled" /\ UNCHANGED entry
<1>0. pc \in [Instances -> Stages]
  BY DEF TypeOK
<1>1. ASSUME NEW k \in Instances, Handle(k)
      PROVE  Moves
  <2>1. CASE Persist(k)
    <3>1. pc'[i] = pc[i] \/ pc'[i] \in EventTypes
      BY <2>1, PersistMoves, RecordFields
    <3> QED BY <3>1, StageTypes
  <2>2. CASE OnAwaitRegistered(k)
    BY <1>0, <2>2 DEF OnAwaitRegistered, EndHandler
  <2>3. CASE DecideStatus(k)
    BY <1>0, <2>3 DEF DecideStatus, EndHandler, IsOpen
  <2>4. CASE OnFlowCancel(k) \/ OnStepEvent(k) \/ OnAwaitResolved(k) \/ OnAwaitTimeout(k)
    BY <1>0, <2>4 DEF OnFlowCancel, OnStepEvent, OnAwaitResolved, OnAwaitTimeout, EndHandler
  <2>5. CASE \/ ReadIndex(k) \/ ReadStream(k) \/ EnqueuePending(k) \/ EndTrigger(k)
             \/ AnalyzeStream(k)
    BY <1>0, <2>5 DEF ReadIndex, ReadStream, EnqueuePending, EndTrigger, AnalyzeStream,
                      EndHandler
  <2>6. CASE EndHandler(k)
    BY <1>0, <2>6 DEF EndHandler
  <2> QED
    BY <1>1, <2>1, <2>2, <2>3, <2>4, <2>5, <2>6
       DEF Handle, OnTerminal, OnFlowStart, UnscheduleCanceled, OnEmit, SetAwaiting, WriteStatus
<1>2. CASE UNCHANGED pc
  BY <1>2
<1> QED
  BY <1>1, <1>2
     DEF Next, RunStep, RunRegister, StartFlow, PublishStart, ClearTracker, PublishCancel,
         StartStep, EmitEvent, CompleteStep, FailStep, RemoveJob, RegisterAwait, FinishRegister,
         TimerFires, ResolveWebhook, CheckWebhook, ReadPreviousStatus, StallTimeout, MarkStalled

\* startFlow only goes forward.
LEMMA StartMoves ==
  ASSUME TypeOK, Next
  PROVE  /\ start = "published" => start' = "published"
         /\ \A i \in Instances : PublishStart(i) => start = "enqueued" /\ start' = "published"
         /\ \/ UNCHANGED start
            \/ UNCHANGED <<stream, entry, pc>> /\ start # "published"
BY DEF index, handler, scheduled, callers, Next, Handle, RunStep, RunRegister, StartFlow,
       PublishStart, ClearTracker, PublishCancel, Persist, OnTerminal, OnFlowStart,
       OnFlowCancel, UnscheduleCanceled, OnStepEvent, OnEmit, OnAwaitRegistered,
       SetAwaiting, OnAwaitResolved, OnAwaitTimeout, ReadIndex, ReadStream, EnqueuePending,
       EndTrigger, AnalyzeStream, DecideStatus, WriteStatus, StartStep, EmitEvent,
       CompleteStep, FailStep, RemoveJob, RegisterAwait, FinishRegister, TimerFires,
       ResolveWebhook, CheckWebhook, ReadPreviousStatus, StallTimeout, MarkStalled

LEMMA KeptInit == Init => CancelKept
BY DEF Init, CancelKept, NoEntry

\* While CancelKept holds a step leaves a canceled entry canceled.
LEMMA CanceledStays ==
  ASSUME TypeOK, CurrentMatches, CancelKept, Next, entry.status = "canceled"
  PROVE  entry'.status = "canceled"
BY StatusMoves DEF CancelKept, MarkStalled

LEMMA KeptStep ==
  ASSUME NEW i, Instances = {i}, ~MayStall
  PROVE  TypeOK /\ CurrentMatches /\ CancelKept /\ [Next]_vars => CancelKept'
<1> SUFFICES ASSUME TypeOK, CurrentMatches, CancelKept, [Next]_vars
             PROVE  CancelKept'
  OBVIOUS
<1> DEFINE Starts(e) == e.type = "flow.start"
<1>0. i \in Instances /\ chain[i] \in Seq(Records)
  BY DEF TypeOK
<1>g. /\ stalling = "idle"
      /\ start # "published" => entry.status = "none"
      /\ pc[i] = "flow.start" => start = "published" /\ entry.status = "none"
      /\ pc[i] = "register" => entry.status # "none"
      /\ pc[i] \in {"register", "write"} => entry.status # "canceled"
      /\ \A n \in DOMAIN chain[i] : Starts(chain[i][n]) =>
           /\ start = "published" /\ entry.status = "none" /\ pc[i] # "flow.start"
           /\ \A m \in DOMAIN chain[i] : Starts(chain[i][m]) => m = n
  BY <1>0 DEF CancelKept
<1>1. CASE Next
  <2>1. UNCHANGED stalling /\ ~MarkStalled
    BY <1>1, <1>g
       DEF index, handler, scheduled, callers, Next, Handle, RunStep, RunRegister,
           StartFlow, PublishStart, ClearTracker, PublishCancel, Persist, OnTerminal,
           OnFlowStart, OnFlowCancel, UnscheduleCanceled, OnStepEvent, OnEmit,
           OnAwaitRegistered, SetAwaiting, OnAwaitResolved, OnAwaitTimeout, ReadIndex,
           ReadStream, EnqueuePending, EndTrigger, AnalyzeStream, DecideStatus, WriteStatus,
           StartStep, EmitEvent, CompleteStep, FailStep, RemoveJob, RegisterAwait,
           FinishRegister, TimerFires, ResolveWebhook, CheckWebhook, ReadPreviousStatus,
           StallTimeout, MarkStalled
  <2>2. \/ entry'.status = entry.status
        \/ pc[i] = "flow.start" /\ pc'[i] = "idle"
        \/ pc[i] = "flow.cancel" /\ entry.status # "none" /\ entry'.status = "canceled"
        \/ pc[i] = "register" /\ pc'[i] = "idle"
        \/ pc[i] = "write" /\ pc'[i] = "idle" /\ entry.status # "none"
    BY <1>0, <1>1, <2>1, StatusMoves
  <2>3. start' # "published" => start # "published" /\ entry'.status = "none"
    <3>1. entry.status = "none" /\ start # "published" => entry'.status = "none"
      BY <1>g, <2>2
    <3> QED BY <1>1, <1>g, <3>1, StartMoves
  <2>4. pc'[i] = "flow.start" => start' = "published" /\ entry'.status = "none"
    <3>1. CASE Persist(i)
      <4>1. UNCHANGED <<entry, start>>
        BY <3>1 DEF Persist, callers
      <4> QED BY <1>0, <1>g, <3>1, <4>1, PersistMoves
    <3>2. CASE ~Persist(i)
      <4>1. pc'[i] = "flow.start" => pc[i] = "flow.start"
        BY <1>0, <1>1, <3>2, StageMoves DEF EventTypes
      <4> QED BY <1>1, <1>g, <2>2, <4>1, StartMoves
    <3> QED BY <3>1, <3>2
  <2>5. /\ pc'[i] = "register" => entry'.status # "none"
        /\ pc'[i] \in {"register", "write"} => entry'.status # "canceled"
    BY <1>0, <1>1, <1>g, <2>2, WriteMoves
  <2>6. ASSUME NEW n \in DOMAIN chain'[i], Starts(chain'[i][n])
        PROVE  /\ start' = "published" /\ entry'.status = "none" /\ pc'[i] # "flow.start"
               /\ \A m \in DOMAIN chain'[i] : Starts(chain'[i][m]) => m = n
    <3>1. CASE Persist(i)
      <4>0. chain'[i] \in Seq(Records) /\ UNCHANGED <<entry, start>>
        BY <1>0, <3>1 DEF TypeOK, Persist, callers
      <4>1. n + 1 \in DOMAIN chain[i] /\ Starts(chain[i][n + 1]) /\ n + 1 # 1
        BY <1>0, <2>6, <3>1, <4>0, PersistMoves
      <4>2. ~Starts(chain[i][1]) /\ start = "published" /\ entry.status = "none"
        BY <1>0, <1>g, <3>1, <4>1, PersistMoves
      <4>3. \A m \in DOMAIN chain'[i] : Starts(chain'[i][m]) => m + 1 = n + 1
        BY <1>0, <1>g, <3>1, <4>1, PersistMoves
      <4> QED BY <1>0, <3>1, <4>0, <4>2, <4>3, PersistMoves
    <3>2. CASE ~Persist(i) /\ UNCHANGED chain
      <4>1. start = "published" /\ entry.status = "none" /\ pc[i] # "flow.start"
        BY <1>g, <2>6, <3>2
      <4>2. pc'[i] # "flow.start" /\ start' = "published"
        BY <1>0, <1>1, <3>2, <4>1, StageMoves, StartMoves DEF EventTypes
      <4>3. entry'.status = "none"
        BY <1>g, <2>2, <4>1
      <4> QED BY <1>g, <2>6, <3>2, <4>2, <4>3
    <3>3. ASSUME NEW e \in Records, Publish(i, e), Publisher(i, e), ~Persist(i)
          PROVE  /\ start' = "published" /\ entry'.status = "none" /\ pc'[i] # "flow.start"
                 /\ \A m \in DOMAIN chain'[i] : Starts(chain'[i][m]) => m = n
      <4>1. CASE Starts(e)
        <5>1. PublishStart(i)
          BY <3>3, <4>1 DEF Publisher
        <5>2. start # "published" /\ start' = "published" /\ UNCHANGED <<entry, pc>>
          BY <5>1 DEF PublishStart, index
        <5>3. \A m \in DOMAIN chain[i] : ~Starts(chain[i][m])
          BY <1>g, <5>2
        <5>4. entry'.status = "none" /\ pc'[i] # "flow.start"
          BY <1>g, <5>2
        <5> QED BY <1>0, <2>6, <3>3, <5>2, <5>3, <5>4, PublishAdds
      <4>2. CASE ~Starts(e)
        <5>1. n \in DOMAIN chain[i] /\ Starts(chain[i][n])
          BY <1>0, <2>6, <3>3, <4>2, PublishAdds
        <5>2. start = "published" /\ entry.status = "none" /\ pc[i] # "flow.start"
          BY <1>g, <5>1
        <5>3. pc'[i] # "flow.start" /\ start' = "published"
          BY <1>0, <1>1, <3>3, <5>2, StageMoves, StartMoves DEF EventTypes
        <5>4. entry'.status = "none"
          BY <1>g, <2>2, <5>2
        <5>5. \A m \in DOMAIN chain'[i] : Starts(chain'[i][m]) => m \in DOMAIN chain[i] /\ Starts(chain[i][m])
          BY <1>0, <3>3, <4>2, PublishAdds
        <5> QED BY <1>g, <5>1, <5>3, <5>4, <5>5
      <4> QED BY <4>1, <4>2
    <3> QED BY <1>0, <1>1, <2>1, <3>1, <3>2, <3>3, WhoPublishes DEF EventMoves
  <2> QED BY <1>g, <2>1, <2>3, <2>4, <2>5, <2>6 DEF CancelKept
<1>2. CASE UNCHANGED vars
  BY <1>2 DEF vars, CancelKept
<1> QED BY <1>1, <1>2

\* With one instance and no stall timeout a canceled run stays canceled, whatever
\* was being handled when flow.cancel was published.
THEOREM CanceledForGood ==
  ASSUME NEW i, Instances = {i}, ~MayStall
  PROVE  Spec => CanceledIsFinal
<1>1. TypeOK /\ CurrentMatches /\ CancelKept /\ [Next]_vars
        => [entry.status = "canceled" => entry'.status = "canceled"]_vars
  BY CanceledStays
<1> QED
  BY <1>1, KeptInit, KeptStep, TypeCorrect, PTL DEF Spec, CanceledIsFinal

-----------------------------------------------------------------------------
(* The stream only grows, and what rests on it keeps resting on it.          *)

StreamGrows == stream' = stream \/ \E e \in Records : stream' = Append(stream, e)

LEMMA Monotone ==
  ASSUME stream \in Seq(Records), StreamGrows
  PROVE  /\ \A t, s : InStream(t, s) => InStream(t, s)'
         /\ \A e : IsEmitted(e) => IsEmitted(e)'
         /\ \A s : Resolved(s) => Resolved(s)'
         /\ \A s : Ready(s) => Ready(s)'
<1>1. \A n \in DOMAIN stream : n \in DOMAIN stream' /\ stream'[n] = stream[n]
  BY DEF StreamGrows
<1>2. \A t, s : InStream(t, s) => InStream(t, s)'
  BY <1>1 DEF InStream
<1>3. \A e : IsEmitted(e) => IsEmitted(e)'
  BY <1>1 DEF IsEmitted
<1>4. \A s : Resolved(s) => Resolved(s)'
  BY <1>1 DEF Resolved
<1>5. EmittedEvents \subseteq EmittedEvents'
  BY <1>3 DEF EmittedEvents
<1>6. CompletedSteps(stream) \subseteq CompletedSteps(stream)'
  BY <1>1 DEF CompletedSteps
<1>7. \A s : Ready(s) => Ready(s)'
  BY <1>5, <1>6 DEF Ready
<1> QED BY <1>2, <1>3, <1>4, <1>7

\* No waiting event is dropped or overtaken.
ChainGrows ==
  \A i \in Instances : \A m \in DOMAIN chain[i] :
    m \in DOMAIN chain'[i] /\ chain'[i][m] = chain[i][m]

LEMMA BackingGrows ==
  ASSUME stream \in Seq(Records), StreamGrows
  PROVE  /\ \A s : Startable(s) => Startable(s)'
         /\ \A s : Gated(s) => Gated(s)'
         /\ SomeTimedOut => SomeTimedOut'
         /\ MayComplete => MayComplete'
         /\ MayFail => MayFail'
         /\ \A x : EntryBacked(x) => EntryBacked(x)'
         /\ \A j : JobBacked(j) => JobBacked(j)'
<1> USE Monotone
<1>1. \A s : (Startable(s) => Startable(s)') /\ (Gated(s) => Gated(s)')
  BY DEF Startable, Gated
<1>2. (SomeTimedOut => SomeTimedOut') /\ (MayComplete => MayComplete') /\ (MayFail => MayFail')
  BY DEF SomeTimedOut, MayComplete, MayFail
<1>3. EmittedEvents \subseteq EmittedEvents'
  BY DEF EmittedEvents
<1>4. \A x : EntryBacked(x) => EntryBacked(x)'
  BY <1>1, <1>2, <1>3 DEF EntryBacked
<1>5. \A j : JobBacked(j) => JobBacked(j)'
  BY DEF JobBacked
<1> QED BY <1>1, <1>2, <1>4, <1>5

LEMMA EventGrows ==
  ASSUME TypeOK, StreamGrows, ChainGrows, NEW i \in Instances, NEW n, NEW e, EventBacked(i, n, e)
  PROVE  EventBacked(i, n, e)'
<1>1. stream \in Seq(Records)
  BY DEF TypeOK
<1>2. \A s : StartedBefore(i, n, s) => StartedBefore(i, n, s)'
  BY <1>1, Monotone DEF StartedBefore, ChainGrows
<1> QED BY <1>1, <1>2, Monotone, BackingGrows DEF EventBacked

LEMMA StartedGrows ==
  ASSUME TypeOK, TypeOK', StreamGrows, ChainGrows, NEW i \in Instances, NEW s,
         StartedBefore(i, Len(chain[i]) + 1, s)
  PROVE  StartedBefore(i, Len(chain[i]) + 1, s)'
<1>1. chain[i] \in Seq(Records) /\ chain'[i] \in Seq(Records) /\ stream \in Seq(Records)
  BY DEF TypeOK
<1>2. \A m \in DOMAIN chain[i] : m \in DOMAIN chain'[i] /\ m < Len(chain'[i]) + 1
  BY <1>1 DEF ChainGrows
<1> QED BY <1>1, <1>2, Monotone DEF StartedBefore, ChainGrows

LEMMA ChainKept ==
  ASSUME TypeOK, ChainBacked, StreamGrows, UNCHANGED chain
  PROVE  ChainBacked' /\ ChainGrows
<1>1. ChainGrows
  BY DEF ChainGrows
<1> QED BY <1>1, EventGrows DEF ChainBacked

\* An event that is backed when it is published leaves the chain backed.
LEMMA PublishBacked ==
  ASSUME TypeOK, ChainBacked, StreamGrows, NEW i \in Instances, NEW e \in Records,
         Publish(i, e), EventBacked(i, Len(chain[i]) + 1, e)
  PROVE  ChainBacked' /\ ChainGrows
<1>1. chain \in [Instances -> Seq(Records)]
  BY DEF TypeOK
<1>2. ChainGrows
  BY <1>1 DEF ChainGrows, Publish
<1>3. ASSUME NEW k \in Instances, NEW n \in DOMAIN chain'[k]
      PROVE  EventBacked(k, n, chain[k][n])'
  <2>1. CASE n \in DOMAIN chain[k]
    <3>1. EventBacked(k, n, chain[k][n]) /\ chain'[k][n] = chain[k][n]
      BY <1>2, <2>1 DEF ChainBacked, ChainGrows
    <3>2. PICK x : x = chain[k][n]
      OBVIOUS
    <3>3. EventBacked(k, n, x)'
      BY <1>2, <3>1, <3>2, EventGrows
    <3> QED BY <3>1, <3>2, <3>3 DEF EventBacked
  <2>2. CASE n \notin DOMAIN chain[k]
    <3>1. k = i /\ n = Len(chain[i]) + 1 /\ chain'[k][n] = e
      BY <1>1, <2>2 DEF Publish
    <3>2. EventBacked(k, n, e)'
      BY <1>2, <3>1, EventGrows
    <3> QED BY <3>1, <3>2
  <2> QED BY <2>1, <2>2
<1> QED BY <1>2, <1>3 DEF ChainBacked

LEMMA PersistBacked ==
  ASSUME TypeOK, TypeOK', Backed, NEW i \in Instances, Persist(i)
  PROVE  Backed'
<1> USE DEF scheduled, callers
<1>0. chain[i] \in Seq(Records) /\ chain[i] # <<>> /\ stream \in Seq(Records)
  BY DEF TypeOK, Persist
<1> PICK e \in Records : e = Head(chain[i])
  BY <1>0
<1>1. /\ chain[i] \in Seq(Records) /\ stream \in Seq(Records)
      /\ e = chain[i][1] /\ 1 \in DOMAIN chain[i]
  BY <1>0
<1>2. StreamGrows /\ stream' = Append(stream, e)
  BY <1>1 DEF Persist, StreamGrows
<1>3. EventBacked(i, 1, e)
  BY <1>1 DEF Backed, ChainBacked
<1>4. /\ InStream(e.type, e.step)'
      /\ e.type = "emit" => IsEmitted(e.arg)'
      /\ e.type = "await.resolved" /\ e.arg = "before" => Resolved(e.step)'
  <2>1. Len(stream) + 1 \in DOMAIN stream' /\ stream'[Len(stream) + 1] = e
    BY <1>1, <1>2
  <2>2. e = Record(e.type, e.step, e.arg)
    BY <1>1 DEF Records, Record
  <2> QED BY <2>1, <2>2 DEF InStream, IsEmitted, Resolved
<1>5. \A k \in Instances \ {i} : chain'[k] = chain[k]
  BY DEF Persist, TypeOK
<1>6. /\ Len(chain'[i]) + 1 = Len(chain[i])
      /\ \A n \in DOMAIN chain'[i] : n + 1 \in DOMAIN chain[i] /\ chain'[i][n] = chain[i][n + 1]
  <2>1. chain'[i] = Tail(chain[i])
    BY DEF Persist, TypeOK
  <2> QED BY <1>1, <2>1
<1>7. ASSUME NEW n \in Nat \ {0}, NEW s, StartedBefore(i, n + 1, s)
      PROVE  StartedBefore(i, n, s)'
  <2>1. CASE InStream("step.started", s)
    BY <1>1, <1>2, <2>1, Monotone DEF StartedBefore
  <2>2. ASSUME NEW m \in DOMAIN chain[i], m < n + 1,
               chain[i][m].type = "step.started", chain[i][m].step = s
        PROVE  StartedBefore(i, n, s)'
    <3>1. CASE m = 1
      BY <1>1, <1>4, <2>2, <3>1 DEF StartedBefore
    <3>2. CASE m # 1
      <4>1. /\ m - 1 \in DOMAIN chain'[i] /\ m - 1 < n
            /\ chain'[i][m - 1] = chain[i][m]
        BY <1>1, <1>6, <2>2, <3>2 DEF Persist, TypeOK
      <4> QED BY <2>2, <4>1 DEF StartedBefore
    <3> QED BY <3>1, <3>2
  <2> QED BY <1>7, <2>1, <2>2 DEF StartedBefore
<1>8. ASSUME NEW k \in Instances \ {i}, NEW n, NEW s, StartedBefore(k, n, s)
      PROVE  StartedBefore(k, n, s)'
  BY <1>1, <1>2, <1>5, <1>8, Monotone DEF StartedBefore
<1>9. ChainBacked'
  <2>1. ASSUME NEW n \in DOMAIN chain'[i]
        PROVE  EventBacked(i, n, chain[i][n])'
    <3>1. n \in Nat \ {0} /\ EventBacked(i, n + 1, chain'[i][n])
      <4>1. chain'[i] \in Seq(Records)
        BY DEF TypeOK
      <4> QED BY <1>6, <2>1, <4>1 DEF Backed, ChainBacked
    <3> QED BY <1>1, <1>2, <1>7, <3>1, Monotone, BackingGrows DEF EventBacked
  <2>2. ASSUME NEW k \in Instances \ {i}, NEW n \in DOMAIN chain'[k]
        PROVE  EventBacked(k, n, chain[k][n])'
    <3>1. EventBacked(k, n, chain'[k][n])
      BY <1>5, <2>2 DEF Backed, ChainBacked
    <3> QED BY <1>1, <1>2, <1>8, <3>1, Monotone, BackingGrows DEF EventBacked
  <2> QED BY <2>1, <2>2 DEF ChainBacked
<1>10. JobsBacked'
  BY <1>1, <1>2, BackingGrows DEF Persist, Backed, JobsBacked
<1>11. ActiveBacked'
  <2> SUFFICES ASSUME NEW j \in StepJobs, jobs[j].st = "active"
               PROVE  StartedBefore(jobs[j].at, Len(chain[jobs[j].at]) + 1, j[2])'
    BY DEF ActiveBacked, Persist, Backed
  <2> DEFINE k == jobs[j].at
  <2>1. k \in Instances /\ StartedBefore(k, Len(chain[k]) + 1, j[2]) /\ jobs' = jobs
    BY DEF Backed, ActiveBacked, Persist
  <2>2. CASE k = i
    <3>1. StartedBefore(i, Len(chain[i]) + 1, j[2]) /\ Len(chain'[i]) + 1 \in Nat \ {0}
      BY <2>1, <2>2 DEF TypeOK
    <3>2. PICK n \in Nat \ {0} : n = Len(chain'[i]) + 1
      BY <3>1
    <3>3. StartedBefore(i, n + 1, j[2])
      BY <1>6, <3>1, <3>2
    <3>4. StartedBefore(i, n, j[2])'
      BY <1>7, <3>3
    <3> QED BY <2>1, <2>2, <3>2, <3>4 DEF StartedBefore
  <2>3. CASE k # i
    BY <1>1, <1>2, <1>5, <2>1, <2>3, Monotone DEF StartedBefore
  <2> QED BY <2>2, <2>3
<1>12. TimersBacked'
  BY <1>1, <1>2, BackingGrows DEF Persist, Backed, TimersBacked
<1>13. IndexBacked'
  BY <1>1, <1>2, BackingGrows DEF Persist, Backed, IndexBacked
<1>14. CurrentMatches' /\ CurrentBacked'
  <2>1. CurrentMatches'
    BY <1>1, StageTypes, RecordFields DEF Persist, Backed, CurrentMatches, TypeOK
  <2>2. CurrentBacked'
    <3>1. cur' = [cur EXCEPT ![i] = e] /\ cur \in [Instances -> Records]
      BY DEF Persist, TypeOK
    <3>2. e.type = "await.registered" /\ e.arg = "before" => Gated(e.step)'
      BY <1>1, <1>2, <1>3, BackingGrows DEF EventBacked
    <3>3. ASSUME NEW k \in Instances \ {i}, NEW c \in Records, c = cur[k]
          PROVE  /\ c.type = "emit" => IsEmitted(c.arg)'
                 /\ c.type = "await.registered" /\ c.arg = "before" => Gated(c.step)'
                 /\ c.type = "await.resolved" /\ c.arg = "before" => Resolved(c.step)'
                 /\ c.type = "await.timeout" => InStream("await.timeout", c.step)'
      BY <1>1, <1>2, <3>3, Monotone, BackingGrows DEF Backed, CurrentBacked
    <3>4. cur'[i] = e /\ \A k \in Instances \ {i} : cur'[k] = cur[k] /\ cur[k] \in Records
      BY <3>1
    <3> QED BY <1>4, <3>2, <3>3, <3>4 DEF CurrentBacked
  <2> QED BY <2>1, <2>2
<1>15. LocalBacked'
  BY <1>1, <1>2, BackingGrows DEF Persist, Backed, LocalBacked
<1> QED BY <1>9, <1>10, <1>11, <1>12, <1>13, <1>14, <1>15 DEF Backed

-----------------------------------------------------------------------------
(* What a step that leaves a variable alone leaves backed. *)

LEMMA StateKept ==
  ASSUME TypeOK, Backed, StreamGrows
  PROVE  /\ timers' \subseteq timers /\ UNCHANGED inflight => TimersBacked'
         /\ UNCHANGED entry => EntryBacked(entry)'
         /\ UNCHANGED local => LocalBacked' /\ \A i \in Instances : EntryBacked(local[i].entry)'
         /\ UNCHANGED cur => CurrentBacked'
<1>0. stream \in Seq(Records)
  BY DEF TypeOK
<1>1. timers' \subseteq timers /\ UNCHANGED inflight => TimersBacked'
  BY <1>0, BackingGrows DEF Backed, TimersBacked
<1>2. UNCHANGED entry => EntryBacked(entry)'
  BY <1>0, BackingGrows DEF Backed, IndexBacked
<1>3. UNCHANGED local => LocalBacked'
  BY <1>0, BackingGrows DEF Backed, LocalBacked
<1>4. UNCHANGED local => \A i \in Instances : EntryBacked(local[i].entry)'
  BY <1>0, BackingGrows DEF Backed, IndexBacked
<1>5. UNCHANGED cur => CurrentBacked'
  BY <1>0, Monotone, BackingGrows DEF Backed, CurrentBacked
<1> QED BY <1>1, <1>2, <1>3, <1>4, <1>5

\* No step job and no awaitBefore registration is added.
LEMMA JobsKept ==
  ASSUME TypeOK, Backed, StreamGrows,
         \A s \in AllSteps, q \in {"step", "resumed", "register-before"} :
           jobs'[<<q, s>>].st # "none" => jobs[<<q, s>>].st # "none"
  PROVE  JobsBacked'
<1>0. stream \in Seq(Records)
  BY DEF TypeOK
<1> QED BY <1>0, BackingGrows DEF Backed, JobsBacked

\* No step job becomes active.
LEMMA ActiveKept ==
  ASSUME TypeOK, TypeOK', Backed, StreamGrows, ChainGrows,
         \A j \in StepJobs : jobs'[j].st = "active" =>
           /\ jobs[j].st = "active" /\ jobs'[j].at = jobs[j].at
           /\ jobs'[j].left \subseteq jobs[j].left
  PROVE  ActiveBacked'
<1> SUFFICES ASSUME NEW j \in StepJobs, jobs'[j].st = "active"
             PROVE  /\ jobs'[j].left \subseteq Flow.emits[j[2]]
                    /\ jobs'[j].at \in Instances
                    /\ StartedBefore(jobs[j].at, Len(chain[jobs[j].at]) + 1, j[2])'
  BY DEF ActiveBacked
<1>1. /\ jobs[j].st = "active" /\ jobs'[j].at = jobs[j].at
      /\ jobs'[j].left \subseteq jobs[j].left
  OBVIOUS
<1>2. /\ jobs[j].left \subseteq Flow.emits[j[2]] /\ jobs[j].at \in Instances
      /\ StartedBefore(jobs[j].at, Len(chain[jobs[j].at]) + 1, j[2])
  BY <1>1 DEF Backed, ActiveBacked
<1> PICK i \in Instances : i = jobs[j].at
  BY <1>2
<1>3. StartedBefore(i, Len(chain[i]) + 1, j[2])'
  BY <1>2, StartedGrows
<1> QED BY <1>1, <1>2, <1>3 DEF StartedBefore

\* Every enqueued step is startable, every awaitBefore registered is gated.
LEMMA EnqueueBacked ==
  ASSUME TypeOK, TypeOK', Backed, StreamGrows, ChainGrows, NEW ids, Enqueue(ids),
         \A s \in AllSteps :
           /\ <<"step", s>> \in ids => Startable(s)
           /\ <<"resumed", s>> \in ids => Startable(s)
           /\ <<"register-before", s>> \in ids => Gated(s)
  PROVE  JobsBacked' /\ ActiveBacked'
<1>0. stream \in Seq(Records)
  BY DEF TypeOK
<1>1. \A j \in JobIds : jobs'[j] = IF j \in ids /\ jobs[j].st = "none" THEN NewJob ELSE jobs[j]
  BY DEF Enqueue
<1>2. \A s \in AllSteps, q \in {"step", "resumed", "register-before"} : <<q, s>> \in JobIds
  BY DEF JobIds, StepJobs, RegisterJobs
<1>3. JobsBacked'
  BY <1>0, <1>1, <1>2, BackingGrows DEF Backed, JobsBacked
<1>4. NewJob.st = "waiting"
  BY DEF NewJob, NoJob
<1>5. ActiveBacked'
  BY <1>1, <1>4, JobTypes, ActiveKept
<1> QED BY <1>3, <1>5

\* The handler of instance i ends.
LEMMA EndBacked ==
  ASSUME TypeOK, Backed, StreamGrows, NEW i \in Instances, EndHandler(i)
  PROVE  CurrentBacked' /\ LocalBacked' /\ \A k \in Instances : EntryBacked(local[k].entry)'
<1>0. /\ stream \in Seq(Records) /\ cur \in [Instances -> Records]
      /\ local \in [Instances -> Snapshots]
  BY DEF TypeOK
<1>1. /\ NoRecord.type = "flow.start" /\ NoLocal.entry = NoEntry
      /\ NoLocal.verdict = "none" /\ NoLocal.pending = {}
  BY DEF NoRecord, Record, NoLocal
<1>2. EntryBacked(NoEntry)'
  BY DEF EntryBacked, NoEntry, NoAwaits, AllSteps, IndexKeys, Positions
<1>3. ASSUME NEW k \in Instances
      PROVE  /\ local'[k] = NoLocal \/ local'[k] = local[k]
             /\ cur'[k] = NoRecord \/ cur'[k] = cur[k]
  BY <1>0 DEF EndHandler
<1>4. CurrentBacked'
  BY <1>0, <1>1, <1>3, Monotone, BackingGrows DEF Backed, CurrentBacked
<1>5. LocalBacked'
  BY <1>0, <1>1, <1>3, BackingGrows DEF Backed, LocalBacked
<1>6. \A k \in Instances : EntryBacked(local[k].entry)'
  BY <1>0, <1>1, <1>2, <1>3, BackingGrows DEF Backed, IndexBacked
<1> QED BY <1>4, <1>5, <1>6

-----------------------------------------------------------------------------
(* The steps of startFlow, the workers, the timers and the callers. *)

LEMMA StepJobFacts ==
  /\ \A j \in StepJobs : \E s \in AllSteps : j = <<"step", s>> \/ j = <<"resumed", s>>
  /\ \A j \in RegisterJobs : \E s \in AllSteps :
       \/ j = <<"register-before", s>> /\ JobKey(j) = <<s, "before">>
       \/ j = <<"register-after", s>> /\ JobKey(j) = <<s, "after">>
  /\ \A s \in AllSteps, q \in {"step", "resumed"} : <<q, s>> \in StepJobs
  /\ StepJobs \subseteq JobIds /\ RegisterJobs \subseteq JobIds
  /\ StepJobs \cap RegisterJobs = {}
BY DEF StepJobs, RegisterJobs, JobIds, JobKey

\* What a step job that is not "none" and an active one rest on.
LEMMA StepJobBacked ==
  ASSUME Backed, NEW j \in StepJobs
  PROVE  /\ j[2] \in AllSteps
         /\ jobs[j].st # "none" => Startable(j[2])
         /\ jobs[j].st = "active" =>
              /\ jobs[j].left \subseteq Flow.emits[j[2]]
              /\ jobs[j].at \in Instances
              /\ StartedBefore(jobs[j].at, Len(chain[jobs[j].at]) + 1, j[2])
<1>1. PICK s \in AllSteps : j = <<"step", s>> \/ j = <<"resumed", s>>
  BY StepJobFacts
<1>2. j[2] = s
  BY <1>1
<1>3. /\ jobs[<<"step", s>>].st # "none" => Startable(s)
      /\ jobs[<<"resumed", s>>].st # "none" => Startable(s)
  BY DEF Backed, JobsBacked
<1>4. jobs[j].st # "none" => Startable(j[2])
  BY <1>1, <1>2, <1>3
<1> QED BY <1>2, <1>4 DEF Backed, ActiveBacked

LEMMA RegisterJobBacked ==
  ASSUME Backed, NEW j \in RegisterJobs, jobs[j].st # "none"
  PROVE  JobKey(j)[2] = "before" => Gated(JobKey(j)[1])
<1>1. PICK s \in AllSteps : \/ j = <<"register-before", s>> /\ JobKey(j) = <<s, "before">>
                            \/ j = <<"register-after", s>> /\ JobKey(j) = <<s, "after">>
  BY StepJobFacts
<1>2. CASE j = <<"register-before", s>> /\ JobKey(j) = <<s, "before">>
  <2>1. Gated(s)
    BY <1>2 DEF Backed, JobsBacked
  <2>2. JobKey(j)[1] = s
    BY <1>2
  <2> QED BY <2>1, <2>2
<1>3. CASE j = <<"register-after", s>> /\ JobKey(j) = <<s, "after">>
  BY <1>3
<1> QED BY <1>1, <1>2, <1>3

\* The rest of Backed when nothing but chain, jobs, timers or inflight changes.
LEMMA RestKept ==
  ASSUME TypeOK, Backed, UNCHANGED <<stream, entry, pc, cur, local>>
  PROVE  /\ StreamGrows /\ IndexBacked' /\ CurrentMatches' /\ CurrentBacked' /\ LocalBacked'
         /\ timers' \subseteq timers /\ UNCHANGED inflight => TimersBacked'
<1>1. StreamGrows
  BY DEF StreamGrows
<1>2. CurrentMatches'
  BY DEF Backed, CurrentMatches
<1> QED BY <1>1, <1>2, StateKept DEF IndexBacked

LEMMA WorkerBacked ==
  ASSUME TypeOK, TypeOK', Backed, NEW j \in StepJobs, RunStep(j) \/ RemoveJob(j)
  PROVE  Backed'
<1> USE DEF index, handler, scheduled, callers
<1>1. UNCHANGED <<stream, entry, pc, cur, local, timers, inflight>>
  BY DEF RunStep, RemoveJob, StartStep, EmitEvent, CompleteStep, FailStep
<1>2. /\ StreamGrows /\ IndexBacked' /\ CurrentMatches' /\ CurrentBacked' /\ LocalBacked'
      /\ TimersBacked'
  BY <1>1, RestKept
<1>3. j \in JobIds /\ jobs \in [JobIds -> Jobs] /\ chain \in [Instances -> Seq(Records)]
      /\ j[2] \in AllSteps /\ chain' \in [Instances -> Seq(Records)]
  BY StepJobFacts, StepJobBacked DEF TypeOK
<1>4. NoJob.st = "none" /\ NewJob.st = "waiting" /\ [NoJob EXCEPT !.st = "done"].st = "done"
      /\ [NoJob EXCEPT !.st = "failed"].st = "failed"
      /\ [NewJob EXCEPT !.att = jobs[j].att + 1].st = "waiting"
  BY DEF NewJob, NoJob
<1>5. ASSUME NEW i \in Instances, StartStep(i, j)
      PROVE  Backed'
  <2> DEFINE e == Record("step.started", j[2], "none")
  <2>1. e \in Records /\ Publish(i, e)
    BY <1>3, <1>5, RecordTypes DEF StartStep, StepTypes
  <2>2. EventBacked(i, Len(chain[i]) + 1, e)
    BY <1>5, StepJobBacked DEF StartStep, EventBacked, Record
  <2>3. ChainBacked' /\ ChainGrows
    BY <1>2, <2>1, <2>2, PublishBacked DEF Backed
  <2>4. JobsBacked'
    <3>1. \A k \in JobIds \ {j} : jobs'[k] = jobs[k]
      BY <1>3, <1>5 DEF StartStep
    <3>2. jobs[j].st # "none"
      BY <1>5 DEF StartStep
    <3> QED BY <1>2, <3>1, <3>2, JobsKept DEF JobIds, StepJobs, RegisterJobs
  <2>5. ActiveBacked'
    <3>1. /\ jobs'[j].left = Flow.emits[j[2]] /\ jobs'[j].at = i
          /\ \A k \in StepJobs \ {j} : jobs'[k] = jobs[k]
      BY <1>3, <1>5, StepJobFacts DEF StartStep, Jobs
    <3>2. StartedBefore(i, Len(chain[i]) + 1, j[2])'
      <4>1. /\ Len(chain[i]) + 1 \in DOMAIN chain'[i] /\ chain'[i][Len(chain[i]) + 1] = e
            /\ Len(chain'[i]) = Len(chain[i]) + 1
        BY <1>3, <2>1 DEF Publish
      <4>2. e.type = "step.started" /\ e.step = j[2] /\ Len(chain[i]) \in Nat
        BY <1>3 DEF Record
      <4> QED BY <4>1, <4>2 DEF StartedBefore
    <3>3. ASSUME NEW k \in StepJobs \ {j}, jobs[k].st = "active"
          PROVE  /\ jobs[k].left \subseteq Flow.emits[k[2]]
                 /\ jobs[k].at \in Instances
                 /\ \A i_ \in Instances : i_ = jobs[k].at => StartedBefore(i_, Len(chain[i_]) + 1, k[2])'
      BY <1>2, <2>3, <3>3, StepJobBacked, StartedGrows
    <3> QED BY <3>1, <3>2, <3>3 DEF ActiveBacked, StartedBefore
  <2> QED BY <1>2, <2>3, <2>4, <2>5 DEF Backed
<1>6. ASSUME NEW e \in Events, EmitEvent(j, e)
      PROVE  Backed'
  <2>1. PICK i \in Instances : i = jobs[j].at
    BY <1>6, StepJobBacked DEF EmitEvent
  <2> DEFINE r == Record("emit", j[2], e)
  <2>2. r \in Records /\ Publish(i, r)
    BY <1>3, <1>6, <2>1, RecordTypes DEF EmitEvent
  <2>3. EventBacked(i, Len(chain[i]) + 1, r)
    BY <1>6, <2>1, StepJobBacked DEF EmitEvent, EventBacked, Record
  <2>4. ChainBacked' /\ ChainGrows
    BY <1>2, <2>2, <2>3, PublishBacked DEF Backed
  <2>5. \A k \in JobIds : /\ jobs'[k].st = jobs[k].st /\ jobs'[k].at = jobs[k].at
                          /\ jobs'[k].left \subseteq jobs[k].left
    BY <1>3, <1>6 DEF EmitEvent, Jobs
  <2>6. JobsBacked'
    BY <1>2, <2>5, JobsKept DEF JobIds, StepJobs, RegisterJobs
  <2>7. ActiveBacked'
    BY <1>2, <2>4, <2>5, ActiveKept, StepJobFacts
  <2> QED BY <1>2, <2>4, <2>6, <2>7 DEF Backed
<1>7. CASE CompleteStep(j)
  <2>1. PICK i \in Instances : i = jobs[j].at
    BY <1>7, StepJobBacked DEF CompleteStep
  <2> DEFINE r == Record("step.completed", j[2], "none")
  <2>2. r \in Records /\ Publish(i, r)
    BY <1>3, <1>7, <2>1, RecordTypes DEF CompleteStep, StepTypes
  <2>3. EventBacked(i, Len(chain[i]) + 1, r)
    BY <1>7, <2>1, StepJobBacked DEF CompleteStep, EventBacked, Record
  <2>4. ChainBacked' /\ ChainGrows
    BY <1>2, <2>2, <2>3, PublishBacked DEF Backed
  <2>5. /\ jobs'[j].st = "done" /\ jobs[j].st = "active"
        /\ \A k \in JobIds : k # j /\ k # <<"register-after", j[2]>> => jobs'[k] = jobs[k]
    <3>1. <<"register-after", j[2]>> # j
      BY StepJobFacts
    <3> QED BY <1>3, <1>4, <1>7, <3>1 DEF CompleteStep
  <2>6. JobsBacked'
    BY <1>2, <2>5, JobsKept DEF JobIds, StepJobs, RegisterJobs
  <2>7. \A k \in StepJobs : k # <<"register-after", j[2]>>
    BY StepJobFacts
  <2>8. ActiveBacked'
    BY <1>2, <2>4, <2>5, <2>7, ActiveKept, StepJobFacts
  <2> QED BY <1>2, <2>4, <2>6, <2>8 DEF Backed
<1>8. CASE FailStep(j)
  <2>1. PICK i \in Instances : i = jobs[j].at
    BY <1>8, StepJobBacked DEF FailStep
  <2> DEFINE t == IF jobs[j].att + 1 < MaxAttempts THEN "step.retry" ELSE "step.failed"
             r == Record(t, j[2], "none")
  <2>2. r \in Records /\ Publish(i, r)
    BY <1>3, <1>8, <2>1, RecordTypes DEF FailStep, StepTypes
  <2>3. EventBacked(i, Len(chain[i]) + 1, r)
    BY <1>8, <2>1, StepJobBacked DEF FailStep, EventBacked, Record
  <2>4. ChainBacked' /\ ChainGrows
    BY <1>2, <2>2, <2>3, PublishBacked DEF Backed
  <2>5. /\ jobs'[j].st \in {"waiting", "failed"} /\ jobs[j].st = "active"
        /\ \A k \in JobIds : k # j => jobs'[k] = jobs[k]
    BY <1>3, <1>4, <1>8 DEF FailStep
  <2>6. JobsBacked'
    BY <1>2, <2>5, JobsKept DEF JobIds, StepJobs, RegisterJobs
  <2>7. ActiveBacked'
    BY <1>2, <2>4, <2>5, ActiveKept, StepJobFacts
  <2> QED BY <1>2, <2>4, <2>6, <2>7 DEF Backed
<1>9. CASE RemoveJob(j)
  <2>1. ChainBacked' /\ ChainGrows
    BY <1>2, <1>9, ChainKept DEF RemoveJob, Backed
  <2>2. jobs'[j].st = "none" /\ \A k \in JobIds : k # j => jobs'[k] = jobs[k]
    BY <1>3, <1>4, <1>9 DEF RemoveJob
  <2>3. JobsBacked'
    BY <1>2, <2>2, JobsKept DEF JobIds, StepJobs, RegisterJobs
  <2>4. ActiveBacked'
    BY <1>2, <2>1, <2>2, ActiveKept, StepJobFacts
  <2> QED BY <1>2, <2>1, <2>3, <2>4 DEF Backed
<1> QED BY <1>5, <1>6, <1>7, <1>8, <1>9 DEF RunStep

LEMMA RegisterBacked ==
  ASSUME TypeOK, TypeOK', Backed, NEW j \in RegisterJobs, RunRegister(j)
  PROVE  Backed'
<1> USE DEF index, handler, scheduled, callers
<1>1. UNCHANGED <<stream, entry, pc, cur, local, inflight>>
  BY DEF RunRegister, RegisterAwait, FinishRegister
<1>2. StreamGrows /\ IndexBacked' /\ CurrentMatches' /\ CurrentBacked' /\ LocalBacked'
  BY <1>1, RestKept
<1> DEFINE k == JobKey(j)
           r == Record("await.registered", k[1], k[2])
<1>3. /\ j \in JobIds /\ jobs \in [JobIds -> Jobs] /\ k \in AwaitKeys /\ r \in Records
      /\ jobs[j].st # "none" /\ stream \in Seq(Records)
  BY JobTypes, StepJobFacts, RecordTypes
     DEF TypeOK, RunRegister, RegisterAwait, FinishRegister, AwaitTypes
<1>4. k[2] = "before" => Gated(k[1])
  BY <1>3, RegisterJobBacked
<1>5. \A i \in Instances : \A n : EventBacked(i, n, r)
  BY <1>4 DEF EventBacked, Record
<1>6. ChainBacked' /\ ChainGrows
  <2>1. CASE UNCHANGED chain
    BY <1>2, <2>1, ChainKept DEF Backed
  <2>2. ASSUME NEW i, Publish(i, r)
        PROVE  ChainBacked' /\ ChainGrows
    <3>1. CASE i \in Instances
      BY <1>2, <1>3, <1>5, <2>2, <3>1, PublishBacked DEF Backed
    <3>2. CASE i \notin Instances
      <4>1. UNCHANGED chain
        BY <2>2, <3>2 DEF TypeOK, Publish
      <4> QED BY <1>2, <4>1, ChainKept DEF Backed
    <3> QED BY <3>1, <3>2
  <2> QED BY <2>1, <2>2 DEF RunRegister, RegisterAwait, FinishRegister, Announce
<1>7. TimersBacked'
  <2>1. timers' \subseteq timers \cup {k}
    BY DEF RunRegister, RegisterAwait, FinishRegister
  <2> QED BY <1>1, <1>2, <1>3, <1>4, <2>1, BackingGrows DEF Backed, TimersBacked
<1>8. \A q \in JobIds \ {j} : jobs'[q] = jobs[q]
  BY <1>3 DEF RunRegister, RegisterAwait, FinishRegister
<1>9. JobsBacked'
  BY <1>2, <1>3, <1>8, JobsKept DEF JobIds, StepJobs, RegisterJobs
<1>10. ActiveBacked'
  BY <1>2, <1>6, <1>8, ActiveKept, StepJobFacts
<1> QED BY <1>2, <1>6, <1>7, <1>9, <1>10 DEF Backed

\* The rest of Backed when an event that is backed is published.
LEMMA CallerBacked ==
  ASSUME TypeOK, TypeOK', Backed, NEW i \in Instances, NEW e \in Records, Publish(i, e),
         EventBacked(i, Len(chain[i]) + 1, e),
         UNCHANGED <<stream, entry, pc, cur, local, jobs>>, TimersBacked'
  PROVE  Backed'
<1>1. StreamGrows /\ IndexBacked' /\ CurrentMatches' /\ CurrentBacked' /\ LocalBacked'
  BY RestKept
<1>2. ChainBacked' /\ ChainGrows
  BY <1>1, PublishBacked DEF Backed
<1>3. JobsBacked' /\ ActiveBacked'
  BY <1>1, <1>2, JobsKept, ActiveKept
<1> QED BY <1>1, <1>2, <1>3 DEF Backed

\* .. and when nothing is published.
LEMMA QuietBacked ==
  ASSUME TypeOK, TypeOK', Backed, StreamGrows,
         UNCHANGED <<chain, pc, cur, local, jobs>>, EntryBacked(entry)', TimersBacked'
  PROVE  Backed'
<1>1. ChainBacked' /\ ChainGrows
  BY ChainKept DEF Backed
<1>2. JobsBacked' /\ ActiveBacked'
  BY <1>1, JobsKept, ActiveKept
<1>3. CurrentBacked' /\ LocalBacked' /\ IndexBacked'
  BY StateKept DEF IndexBacked
<1>4. CurrentMatches'
  BY DEF Backed, CurrentMatches
<1> QED BY <1>1, <1>2, <1>3, <1>4 DEF Backed

LEMMA OtherBacked ==
  ASSUME TypeOK, TypeOK', Backed,
         \/ StartFlow
         \/ \E i \in Instances : PublishStart(i) \/ ClearTracker(i) \/ PublishCancel(i)
         \/ \E i \in Instances, k \in AwaitKeys : TimerFires(i, k) \/ ResolveWebhook(i, k)
         \/ \E k \in AwaitKeys : CheckWebhook(k)
         \/ ReadPreviousStatus \/ StallTimeout \/ MarkStalled
  PROVE  Backed'
<1> USE DEF index, handler, scheduled, callers
<1>0. TimersBacked /\ EntryBacked(entry) /\ stream \in Seq(Records)
  BY DEF Backed, IndexBacked, TypeOK
<1>1. CASE StartFlow
  <2>1. UNCHANGED <<stream, entry, pc, cur, local, chain, timers, inflight>>
    BY <1>1 DEF StartFlow
  <2>2. /\ StreamGrows /\ IndexBacked' /\ CurrentMatches' /\ CurrentBacked' /\ LocalBacked'
        /\ TimersBacked'
    BY <2>1, RestKept
  <2>3. ChainBacked' /\ ChainGrows
    BY <2>1, <2>2, ChainKept DEF Backed
  <2>4. Startable(Entry)
    BY FlowRunAssumption, EntryAssumption DEF Startable, Ready
  <2>5. JobsBacked' /\ ActiveBacked'
    BY <1>1, <2>2, <2>3, <2>4, EnqueueBacked DEF StartFlow
  <2> QED BY <2>2, <2>3, <2>5 DEF Backed
<1>2. ASSUME NEW i \in Instances, PublishStart(i)
      PROVE  Backed'
  <2>1. EventBacked(i, Len(chain[i]) + 1, Record("flow.start", NoStep, "none"))
    BY DEF EventBacked, Record
  <2>2. TimersBacked'
    BY <1>2, RestKept DEF PublishStart
  <2> QED BY <1>2, <2>1, <2>2, RecordTypes, CallerBacked DEF PublishStart
<1>3. ASSUME NEW i \in Instances, ClearTracker(i)
      PROVE  Backed'
  <2>1. StreamGrows /\ EntryBacked(entry)' /\ TimersBacked'
    BY <1>3, StateKept DEF ClearTracker, StreamGrows
  <2> QED BY <1>3, <2>1, QuietBacked DEF ClearTracker
<1>4. ASSUME NEW i \in Instances, PublishCancel(i)
      PROVE  Backed'
  <2>1. EventBacked(i, Len(chain[i]) + 1, Record("flow.cancel", NoStep, canceling))
    BY DEF EventBacked, Record
  <2>2. TimersBacked'
    BY <1>4, RestKept DEF PublishCancel
  <2>3. Record("flow.cancel", NoStep, canceling) \in Records
    BY <1>4, RecordTypes DEF TypeOK, PublishCancel
  <2> QED BY <1>4, <2>1, <2>2, <2>3, CallerBacked DEF PublishCancel
<1>5. ASSUME NEW i \in Instances, NEW k \in AwaitKeys, TimerFires(i, k)
      PROVE  Backed'
  <2> DEFINE t == IF AwaitType[k] = "time" THEN "await.resolved" ELSE "await.timeout"
  <2>1. PICK s \in AllSteps, p \in Positions : k = <<s, p>>
    BY DEF AwaitKeys
  <2>2. p = "before" => Gated(s)
    BY <1>0, <1>5, <2>1 DEF TimersBacked, TimerFires
  <2>3. EventBacked(i, Len(chain[i]) + 1, Record(t, s, p))
    BY <2>2 DEF EventBacked, Record
  <2>4. Record(t, s, p) \in Records /\ Publish(i, Record(t, s, p))
    BY <1>5, <2>1, RecordTypes DEF TimerFires, AwaitTypes
  <2>5. TimersBacked'
    BY <1>5, RestKept DEF TimerFires
  <2> QED BY <1>5, <2>3, <2>4, <2>5, CallerBacked DEF TimerFires
<1>6. ASSUME NEW i \in Instances, NEW k \in AwaitKeys, ResolveWebhook(i, k)
      PROVE  Backed'
  <2>1. PICK s \in AllSteps, p \in Positions : k = <<s, p>>
    BY DEF AwaitKeys
  <2>2. p = "before" => Gated(s)
    BY <1>0, <1>6, <2>1 DEF TimersBacked, ResolveWebhook
  <2>3. EventBacked(i, Len(chain[i]) + 1, Record("await.resolved", s, p))
    BY <2>2 DEF EventBacked, Record
  <2>4. Record("await.resolved", s, p) \in Records /\ Publish(i, Record("await.resolved", s, p))
    BY <1>6, <2>1, RecordTypes DEF ResolveWebhook, AwaitTypes
  <2>5. TimersBacked'
    <3>1. timers' \subseteq timers /\ \A q \in AwaitKeys : inflight'[q] > 0 => inflight[q] > 0
      BY <1>6 DEF ResolveWebhook, TypeOK
    <3>2. \A q \in AllSteps : <<q, "before">> \in AwaitKeys
      BY DEF AwaitKeys, Positions
    <3>3. StreamGrows
      BY <1>6 DEF ResolveWebhook, StreamGrows
    <3> QED BY <1>0, <3>1, <3>2, <3>3, BackingGrows DEF TimersBacked
  <2> QED BY <1>6, <2>3, <2>4, <2>5, CallerBacked DEF ResolveWebhook
<1>7. ASSUME NEW k \in AwaitKeys, CheckWebhook(k)
      PROVE  Backed'
  <2>1. StreamGrows /\ EntryBacked(entry)'
    BY <1>7, StateKept DEF CheckWebhook, StreamGrows
  <2>2. TimersBacked'
    <3>1. \A s \in AllSteps : k = <<s, "before">> => Gated(s)
      BY <1>0, <1>7 DEF CheckWebhook, EntryBacked
    <3>2. timers' = timers /\ \A q \in AwaitKeys \ {k} : inflight'[q] = inflight[q]
      BY <1>7 DEF CheckWebhook, TypeOK
    <3>3. \A q \in AllSteps : <<q, "before">> \in AwaitKeys
      BY DEF AwaitKeys, Positions
    <3> QED BY <1>0, <2>1, <3>1, <3>2, <3>3, BackingGrows DEF TimersBacked
  <2> QED BY <1>7, <2>1, <2>2, QuietBacked DEF CheckWebhook
<1>8. CASE ReadPreviousStatus
  <2>1. StreamGrows /\ EntryBacked(entry)' /\ TimersBacked'
    BY <1>8, StateKept DEF ReadPreviousStatus, StreamGrows
  <2> QED BY <1>8, <2>1, QuietBacked DEF ReadPreviousStatus
<1>9. CASE StallTimeout
  <2>1. StreamGrows /\ EntryBacked(entry)' /\ TimersBacked'
    BY <1>9, StateKept DEF StallTimeout, StreamGrows
  <2> QED BY <1>9, <2>1, QuietBacked DEF StallTimeout
<1>10. CASE MarkStalled
  <2>1. StreamGrows
    BY <1>10, RecordTypes DEF MarkStalled, StreamGrows, TypeOK
  <2>2. entry'.emitted = entry.emitted /\ entry'.awaiting = entry.awaiting
    BY <1>10 DEF MarkStalled, TypeOK, Entries
  <2>3. EntryBacked(entry)'
    <3>1. PICK x : x = entry
      OBVIOUS
    <3>2. EntryBacked(x)'
      BY <1>0, <2>1, <3>1, BackingGrows
    <3> QED BY <2>2, <3>1, <3>2 DEF EntryBacked
  <2>4. TimersBacked'
    BY <1>10, <2>1, StateKept DEF MarkStalled
  <2> QED BY <1>10, <2>1, <2>3, <2>4, QuietBacked DEF MarkStalled
<1> QED BY <1>1, <1>2, <1>3, <1>4, <1>5, <1>6, <1>7, <1>8, <1>9, <1>10

-----------------------------------------------------------------------------
(* The steps of the handlers. *)

\* A handler that ends without having published, enqueued or written anything
\* leaves everything else backed.
LEMMA HandlerQuietBacked ==
  ASSUME TypeOK, TypeOK', Backed, CurrentMatches', UNCHANGED <<stream, chain, jobs, inflight>>,
         timers' \subseteq timers, EntryBacked(entry)', CurrentBacked', LocalBacked',
         \A k \in Instances : EntryBacked(local[k].entry)'
  PROVE  Backed'
<1>1. StreamGrows
  BY DEF StreamGrows
<1>2. ChainBacked' /\ ChainGrows
  BY <1>1, ChainKept DEF Backed
<1>3. JobsBacked' /\ ActiveBacked' /\ TimersBacked'
  BY <1>1, <1>2, JobsKept, ActiveKept, StateKept
<1> QED BY <1>2, <1>3 DEF Backed, IndexBacked

\* An await of the entry may be set to a state that is backed.
LEMMA AwaitingBacked ==
  ASSUME TypeOK, Backed, NEW s \in AllSteps, NEW p \in Positions \cup {"bare"},
         NEW state \in AwaitStates, NEW status,
         p = "before" /\ state = "awaiting" => Gated(s),
         p = "before" /\ state = "resolved" => Resolved(s),
         state = "timeout" => SomeTimedOut
  PROVE  /\ EntryBacked([entry EXCEPT !.awaiting[<<s, p>>] = state])
         /\ EntryBacked([entry EXCEPT !.status = status, !.awaiting[<<s, p>>] = state])
<1>1. entry \in Entries /\ EntryBacked(entry) /\ <<s, p>> \in IndexKeys
  BY DEF TypeOK, Backed, IndexBacked, IndexKeys
<1> DEFINE x == [entry EXCEPT !.awaiting[<<s, p>>] = state]
           y == [entry EXCEPT !.status = status, !.awaiting[<<s, p>>] = state]
<1>2. /\ x.emitted = entry.emitted /\ y.emitted = entry.emitted
      /\ x.awaiting[<<s, p>>] = state /\ y.awaiting[<<s, p>>] = state
      /\ \A k \in IndexKeys \ {<<s, p>>} : /\ x.awaiting[k] = entry.awaiting[k]
                                           /\ y.awaiting[k] = entry.awaiting[k]
  BY <1>1 DEF Entries
<1>3. \A t \in AllSteps : <<t, "before">> \in IndexKeys
  BY DEF IndexKeys, Positions
<1>4. ASSUME NEW z, z.emitted = entry.emitted, z.awaiting[<<s, p>>] = state,
             \A k \in IndexKeys \ {<<s, p>>} : z.awaiting[k] = entry.awaiting[k]
      PROVE  EntryBacked(z)
  BY <1>1, <1>3, <1>4 DEF EntryBacked
<1> QED BY <1>2, <1>4

\* The jobs of the pending steps of a backed snapshot rest on the stream.
LEMMA PendingGrounded ==
  ASSUME NEW x, EntryBacked(x), NEW s \in PendingSteps(x)
  PROVE  JobBacked(JobOf(s, x))
<1>1. s \in Steps /\ s \in AllSteps /\ Ready(s)
  BY DEF PendingSteps, CanTrigger, EntryBacked, Ready, AllSteps
<1>2. x.awaiting[<<s, "before">>] = "resolved" => Resolved(s)
  BY <1>1 DEF EntryBacked
<1> QED BY <1>1, <1>2 DEF JobOf, JobBacked

\* The verdicts of the analysis are justified by the outcomes of the steps.
LEMMA AnalysisBacked ==
  LET v == AnalyzeFlowCompletion(Flow, stream)
  IN  (v = "completed" => MayComplete) /\ (v = "failed" => MayFail)
<1> DEFINE done == CompletedSteps(stream)
           bad == FinalFailedSteps(stream)
<1>1. /\ \A s \in done : InStream("step.completed", s)
      /\ \A s \in bad : s \in AllSteps /\ InStream("step.failed", s)
  BY DEF CompletedSteps, FinalFailedSteps, InStream
<1>2. AnalyzeFlowCompletion(Flow, stream) = "completed" => AllSteps \subseteq done \cup bad
  BY DEF AnalyzeFlowCompletion, AnalyzeFlow
<1>3. AnalyzeFlowCompletion(Flow, stream) = "failed" => bad # {}
  BY DEF AnalyzeFlowCompletion, AnalyzeFlow, HasBlockingFailure, HasCriticalLayerFailure
<1> QED BY <1>1, <1>2, <1>3 DEF MayComplete, MayFail

LEMMA HandlerBacked ==
  ASSUME TypeOK, TypeOK', Backed, CurrentMatches', NEW i \in Instances, Handle(i)
  PROVE  Backed'
<1> USE DEF index, handler, scheduled, callers
<1>0. /\ cur[i] \in Records /\ local \in [Instances -> Snapshots] /\ entry \in Entries
      /\ stream \in Seq(Records) /\ CurrentMatches /\ CurrentBacked /\ LocalBacked
      /\ EntryBacked(entry) /\ \A k \in Instances : EntryBacked(local[k].entry)
  BY DEF TypeOK, Backed, IndexBacked
<1>1. CASE Persist(i)
  BY <1>1, PersistBacked
<1>2. CASE OnTerminal(i)
  <2>1. StreamGrows /\ EntryBacked(entry)'
    BY <1>2, StateKept DEF OnTerminal, StreamGrows
  <2> QED BY <1>2, <2>1, EndBacked, HandlerQuietBacked DEF OnTerminal
<1>3. CASE OnFlowStart(i)
  <2>1. StreamGrows
    BY <1>3 DEF OnFlowStart, StreamGrows
  <2>2. EntryBacked(entry)'
    BY <1>3 DEF OnFlowStart, EntryBacked, NoEntry, NoAwaits, IndexKeys, Positions
  <2> QED BY <1>3, <2>1, <2>2, EndBacked, HandlerQuietBacked DEF OnFlowStart
<1>4. CASE OnFlowCancel(i)
  <2>1. StreamGrows
    BY <1>4 DEF OnFlowCancel, StreamGrows
  <2>2. entry'.emitted = entry.emitted /\ entry'.awaiting = entry.awaiting
    BY <1>0, <1>4 DEF OnFlowCancel, Entries
  <2>3. EntryBacked(entry)'
    <3>1. PICK x : x = entry
      OBVIOUS
    <3>2. EntryBacked(x)'
      BY <1>0, <2>1, <3>1, BackingGrows
    <3> QED BY <2>2, <3>1, <3>2 DEF EntryBacked
  <2>4. CurrentBacked' /\ LocalBacked' /\ \A k \in Instances : EntryBacked(local[k].entry)'
    BY <1>4, <2>1, EndBacked, StateKept DEF OnFlowCancel
  <2> QED BY <1>4, <2>3, <2>4, HandlerQuietBacked DEF OnFlowCancel
<1>5. CASE UnscheduleCanceled(i)
  <2>1. StreamGrows /\ EntryBacked(entry)'
    BY <1>5, StateKept DEF UnscheduleCanceled, StreamGrows
  <2> QED BY <1>5, <2>1, EndBacked, HandlerQuietBacked DEF UnscheduleCanceled
<1>6. CASE OnStepEvent(i)
  <2>1. StreamGrows /\ EntryBacked(entry)'
    BY <1>6, StateKept DEF OnStepEvent, StreamGrows
  <2>2. CurrentBacked' /\ LocalBacked' /\ \A k \in Instances : EntryBacked(local[k].entry)'
    BY <1>6, <2>1, EndBacked, StateKept DEF OnStepEvent
  <2> QED BY <1>6, <2>1, <2>2, HandlerQuietBacked DEF OnStepEvent
<1>7. CASE OnEmit(i)
  <2>1. StreamGrows
    BY <1>7 DEF OnEmit, StreamGrows
  <2>2. PICK e \in Events : e = cur[i].arg /\ IsEmitted(e)
    BY <1>0, <1>7, RecordFields DEF OnEmit, CurrentMatches, CurrentBacked, EventTypes
  <2>3. /\ entry'.emitted \subseteq entry.emitted \cup {e}
        /\ entry'.awaiting = entry.awaiting
    BY <1>0, <1>7, <2>2 DEF OnEmit, Entries, Track
  <2>4. EntryBacked(entry)'
    <3>1. PICK x : x = entry
      OBVIOUS
    <3>2. EntryBacked(x)' /\ e \in EmittedEvents'
      BY <1>0, <2>1, <2>2, <3>1, Monotone, BackingGrows DEF EmittedEvents
    <3> QED BY <2>3, <3>1, <3>2 DEF EntryBacked
  <2> QED BY <1>7, <2>1, <2>4, EndBacked, HandlerQuietBacked DEF OnEmit
<1>8. CASE OnAwaitRegistered(i)
  <2>1. StreamGrows /\ EntryBacked(entry)'
    BY <1>8, StateKept DEF OnAwaitRegistered, StreamGrows
  <2>2. CurrentBacked' /\ LocalBacked' /\ \A k \in Instances : EntryBacked(local[k].entry)'
    BY <1>8, <2>1, EndBacked, StateKept DEF OnAwaitRegistered
  <2> QED BY <1>8, <2>1, <2>2, HandlerQuietBacked DEF OnAwaitRegistered
<1>9. CASE SetAwaiting(i)
  <2>1. StreamGrows
    BY <1>9 DEF SetAwaiting, StreamGrows
  <2>2. PICK s \in AllSteps, p \in Positions : s = cur[i].step /\ p = cur[i].arg
    BY <1>0, <1>9, RecordFields DEF SetAwaiting, CurrentMatches, EventTypes, AwaitTypes
  <2>3. p = "before" => Gated(s)
    BY <1>0, <1>9, <2>2 DEF SetAwaiting, CurrentMatches, CurrentBacked
  <2>4. PICK x : x = [entry EXCEPT !.status = "awaiting", !.awaiting[<<s, p>>] = "awaiting"]
    OBVIOUS
  <2>5. EntryBacked(x)
    BY <2>3, <2>4, AwaitingBacked DEF AwaitStates
  <2>6. EntryBacked(x)' /\ entry' = x
    BY <1>0, <1>9, <2>1, <2>2, <2>4, <2>5, BackingGrows DEF SetAwaiting
  <2>7. EntryBacked(entry)'
    BY <2>6 DEF EntryBacked
  <2> QED BY <1>9, <2>1, <2>7, EndBacked, HandlerQuietBacked DEF SetAwaiting
<1>10. CASE OnAwaitResolved(i)
  <2>1. StreamGrows
    BY <1>10 DEF OnAwaitResolved, StreamGrows
  <2>2. CASE EndHandler(i) /\ UNCHANGED <<entry, jobs>>
    <3>1. EntryBacked(entry)'
      BY <2>1, <2>2, StateKept
    <3> QED BY <1>10, <2>1, <2>2, <3>1, EndBacked, HandlerQuietBacked DEF OnAwaitResolved
  <2>3. CASE /\ entry' = [entry EXCEPT !.awaiting[<<cur[i].step, cur[i].arg>>] = "resolved"]
             /\ Enqueue({<<"resolve", cur[i].step>>})
             /\ UNCHANGED <<cur, local>>
    <3>1. PICK s \in AllSteps, p \in Positions : s = cur[i].step /\ p = cur[i].arg
      BY <1>0, <1>10, RecordFields DEF OnAwaitResolved, CurrentMatches, EventTypes, AwaitTypes
    <3>2. p = "before" => Resolved(s)
      BY <1>0, <1>10, <3>1 DEF OnAwaitResolved, CurrentMatches, CurrentBacked, EventTypes, AwaitTypes
    <3>3. PICK x : x = [entry EXCEPT !.awaiting[<<s, p>>] = "resolved"]
      OBVIOUS
    <3>4. EntryBacked(x)
      BY <3>2, <3>3, AwaitingBacked DEF AwaitStates
    <3>5. EntryBacked(x)' /\ entry' = x
      BY <1>0, <2>1, <2>3, <3>1, <3>3, <3>4, BackingGrows
    <3>6. EntryBacked(entry)'
      BY <3>5 DEF EntryBacked
    <3>7. ChainBacked' /\ ChainGrows
      BY <1>10, <2>1, ChainKept DEF OnAwaitResolved, Backed
    <3>8. JobsBacked' /\ ActiveBacked'
      BY <2>1, <2>3, <3>7, EnqueueBacked
    <3>9. TimersBacked' /\ CurrentBacked' /\ LocalBacked' /\ IndexBacked'
      BY <1>10, <2>1, <2>3, <3>6, StateKept DEF OnAwaitResolved, IndexBacked
    <3> QED BY <3>7, <3>8, <3>9 DEF Backed
  <2> QED BY <1>10, <2>2, <2>3 DEF OnAwaitResolved
<1>11. CASE OnAwaitTimeout(i)
  <2>1. StreamGrows /\ timers' = timers /\ inflight' = inflight
    BY <1>11 DEF OnAwaitTimeout, StreamGrows
  <2>2. PICK s \in AllSteps : s = cur[i].step
    BY <1>0, <1>11, RecordFields DEF OnAwaitTimeout, CurrentMatches, EventTypes, AwaitTypes
  <2>3. InStream("await.timeout", s) /\ SomeTimedOut
    BY <1>0, <1>11, <2>2
       DEF OnAwaitTimeout, CurrentMatches, CurrentBacked, SomeTimedOut, EventTypes, AwaitTypes
  <2>4. CASE EndHandler(i) /\ UNCHANGED <<entry, jobs, chain>>
    <3>1. EntryBacked(entry)'
      BY <2>1, <2>4, StateKept
    <3> QED BY <1>11, <2>1, <2>4, <3>1, EndBacked, HandlerQuietBacked DEF OnAwaitTimeout
  <2>5. ASSUME Enqueue({<<"timeout", s>>}), ChainBacked', ChainGrows,
               EntryBacked(entry)', EndHandler(i) \/ UNCHANGED <<cur, local>>
        PROVE  Backed'
    <3>1. JobsBacked' /\ ActiveBacked'
      BY <2>1, <2>5, EnqueueBacked
    <3>2. TimersBacked' /\ CurrentBacked' /\ LocalBacked' /\ IndexBacked'
      BY <2>1, <2>5, StateKept, EndBacked DEF IndexBacked
    <3> QED BY <2>5, <3>1, <3>2 DEF Backed
  <2>6. ASSUME NEW state \in {"timeout", "resolved"},
               entry' = [entry EXCEPT !.awaiting[<<s, "bare">>] = state]
        PROVE  EntryBacked(entry)'
    <3>1. PICK x : x = [entry EXCEPT !.awaiting[<<s, "bare">>] = state]
      OBVIOUS
    <3>2. EntryBacked(x)
      BY <2>3, <3>1, AwaitingBacked DEF AwaitStates
    <3>3. EntryBacked(x)' /\ entry' = x
      BY <1>0, <2>1, <2>6, <3>1, <3>2, BackingGrows
    <3> QED BY <3>3 DEF EntryBacked
  <2>7. CASE /\ Enqueue({<<"timeout", s>>})
             /\ entry' = [entry EXCEPT !.awaiting[<<s, "bare">>] = "timeout"]
             /\ Publish(i, Record("step.failed", s, "none"))
             /\ EndHandler(i)
    <3>1. EventBacked(i, Len(chain[i]) + 1, Record("step.failed", s, "none"))
      BY <2>3 DEF EventBacked, Record
    <3>2. Record("step.failed", s, "none") \in Records
      BY RecordTypes DEF StepTypes
    <3>3. ChainBacked' /\ ChainGrows
      BY <2>1, <2>7, <3>1, <3>2, PublishBacked DEF Backed
    <3> QED BY <2>5, <2>6, <2>7, <3>3
  <2>8. CASE /\ Enqueue({<<"timeout", s>>})
             /\ entry' = [entry EXCEPT !.awaiting[<<s, "bare">>] = "resolved"]
             /\ UNCHANGED <<cur, local, chain>>
    <3>1. ChainBacked' /\ ChainGrows
      BY <2>1, <2>8, ChainKept DEF Backed
    <3> QED BY <2>5, <2>6, <2>8, <3>1
  <2>9. CASE Enqueue({<<"timeout", s>>}) /\ EndHandler(i) /\ UNCHANGED <<entry, chain>>
    <3>1. ChainBacked' /\ ChainGrows /\ EntryBacked(entry)'
      BY <2>1, <2>9, ChainKept, StateKept DEF Backed
    <3> QED BY <2>5, <2>9, <3>1
  <2> QED BY <1>11, <2>2, <2>4, <2>7, <2>8, <2>9 DEF OnAwaitTimeout
<1>12. CASE ReadIndex(i)
  <2>1. StreamGrows /\ EntryBacked(entry)' /\ CurrentBacked'
    BY <1>12, StateKept DEF ReadIndex, StreamGrows
  <2>2. \A k \in Instances : /\ local'[k].verdict = local[k].verdict
                             /\ local'[k].pending = local[k].pending
                             /\ local'[k].entry \in {entry, local[k].entry}
    BY <1>0, <1>12 DEF ReadIndex, Snapshots
  <2>3. LocalBacked'
    BY <1>0, <2>1, <2>2, BackingGrows DEF LocalBacked
  <2>4. \A k \in Instances : EntryBacked(local[k].entry)'
    <3>1. \A k \in Instances : EntryBacked(local'[k].entry)
      BY <1>0, <2>2
    <3>2. ASSUME NEW k \in Instances
          PROVE  EntryBacked(local[k].entry)'
      <4>1. PICK x : x = local'[k].entry
        OBVIOUS
      <4>2. EntryBacked(x)'
        BY <1>0, <2>1, <3>1, <4>1, BackingGrows
      <4> QED BY <4>1, <4>2 DEF EntryBacked
    <3> QED BY <3>2
  <2> QED BY <1>12, <2>1, <2>3, <2>4, HandlerQuietBacked DEF ReadIndex
<1>13. CASE ReadStream(i)
  <2> DEFINE x == local[i].entry
             held == IF MayTrigger(x) THEN {JobOf(s, x) : s \in PendingSteps(x)} ELSE {}
  <2>1. StreamGrows /\ EntryBacked(entry)' /\ CurrentBacked'
    BY <1>13, StateKept DEF ReadStream, StreamGrows
  <2>2. \A j \in held : JobBacked(j)
    BY <1>0, PendingGrounded
  <2>3. local' = [local EXCEPT ![i].pending = held]
    BY <1>13 DEF ReadStream
  <2> HIDE DEF held
  <2>4. \A k \in Instances :
          /\ local'[k].entry = local[k].entry /\ local'[k].verdict = local[k].verdict
          /\ local'[k].pending \in {held, local[k].pending}
    BY <1>0, <2>3 DEF Snapshots
  <2>5. LocalBacked'
    BY <1>0, <2>1, <2>2, <2>4, BackingGrows DEF LocalBacked
  <2>6. \A k \in Instances : EntryBacked(local[k].entry)'
    BY <1>0, <2>1, <2>4, BackingGrows
  <2> QED BY <1>13, <2>1, <2>5, <2>6, HandlerQuietBacked DEF ReadStream
<1>14. CASE EnqueuePending(i)
  <2>1. PICK j \in local[i].pending :
          Enqueue({j}) /\ local' = [local EXCEPT ![i].pending = @ \ {j}]
    BY <1>14 DEF EnqueuePending
  <2>2. /\ StreamGrows /\ timers' = timers /\ inflight' = inflight /\ entry' = entry
        /\ cur' = cur
    BY <1>14 DEF EnqueuePending, StreamGrows
  <2>3. ChainBacked' /\ ChainGrows
    BY <1>14, <2>2, ChainKept DEF EnqueuePending, Backed
  <2>4. JobBacked(j)
    BY <1>0 DEF LocalBacked
  <2>5. \A s \in AllSteps : /\ <<"step", s>> = j => Startable(s)
                            /\ <<"resumed", s>> = j => Startable(s)
                            /\ <<"register-before", s>> = j => Gated(s)
    BY <2>4 DEF JobBacked, Startable, Gated
  <2>6. JobsBacked' /\ ActiveBacked'
    BY <2>1, <2>2, <2>3, <2>5, EnqueueBacked
  <2>7. \A k \in Instances :
          /\ local'[k].entry = local[k].entry /\ local'[k].verdict = local[k].verdict
          /\ local'[k].pending \subseteq local[k].pending
    BY <1>0, <2>1 DEF Snapshots
  <2>8. LocalBacked'
    BY <1>0, <2>2, <2>7, BackingGrows DEF LocalBacked
  <2>9. \A k \in Instances : EntryBacked(local[k].entry)'
    BY <1>0, <2>2, <2>7, BackingGrows
  <2>10. TimersBacked' /\ CurrentBacked' /\ EntryBacked(entry)'
    BY <2>2, StateKept
  <2> QED BY <2>3, <2>6, <2>8, <2>9, <2>10 DEF Backed, IndexBacked
<1>15. CASE EndTrigger(i)
  <2>1. StreamGrows /\ EntryBacked(entry)'
    BY <1>15, StateKept DEF EndTrigger, StreamGrows
  <2>2. CurrentBacked' /\ LocalBacked' /\ \A k \in Instances : EntryBacked(local[k].entry)'
    BY <1>15, <2>1, EndBacked, StateKept DEF EndTrigger
  <2> QED BY <1>15, <2>1, <2>2, HandlerQuietBacked DEF EndTrigger
<1>16. CASE AnalyzeStream(i)
  <2>1. StreamGrows /\ EntryBacked(entry)' /\ CurrentBacked' /\ stream' = stream
    BY <1>16, StateKept DEF AnalyzeStream, StreamGrows
  <2>2. \A k \in Instances :
          /\ local'[k].entry = local[k].entry /\ local'[k].pending = local[k].pending
          /\ local'[k].verdict \in {local[k].verdict, AnalyzeFlowCompletion(Flow, stream)}
    BY <1>0, <1>16 DEF AnalyzeStream, Snapshots
  <2>3. LocalBacked'
    BY <1>0, <2>1, <2>2, AnalysisBacked, BackingGrows DEF LocalBacked
  <2>4. \A k \in Instances : EntryBacked(local[k].entry)'
    BY <1>0, <2>1, <2>2, BackingGrows
  <2> QED BY <1>16, <2>1, <2>3, <2>4, HandlerQuietBacked DEF AnalyzeStream
<1>17. CASE DecideStatus(i)
  <2>1. StreamGrows /\ EntryBacked(entry)' /\ stream' = stream
    BY <1>17, StateKept DEF DecideStatus, StreamGrows
  <2>2. CASE EndHandler(i)
    BY <1>17, <2>1, <2>2, EndBacked, HandlerQuietBacked DEF DecideStatus
  <2>3. CASE local' = [local EXCEPT ![i].verdict = Overridden(@)] /\ UNCHANGED cur
    <3>1. \A k \in Instances :
            /\ local'[k].entry = local[k].entry /\ local'[k].pending = local[k].pending
            /\ local'[k].verdict \in {local[k].verdict, Overridden(local[k].verdict)}
      BY <1>0, <2>3 DEF Snapshots
    <3>2. \A v : /\ Overridden(v) = "completed" => v = "completed"
                 /\ Overridden(v) = "failed" => v = "failed" \/ SomeTimedOut
      BY <1>0 DEF Overridden, SomeAwait, EntryBacked
    <3>3. LocalBacked'
      BY <1>0, <2>1, <3>1, <3>2, BackingGrows DEF LocalBacked, MayFail
    <3>4. CurrentBacked' /\ \A k \in Instances : EntryBacked(local[k].entry)'
      BY <1>0, <2>1, <2>3, <3>1, BackingGrows, StateKept
    <3> QED BY <1>17, <2>1, <3>3, <3>4, HandlerQuietBacked DEF DecideStatus
  <2> QED BY <1>17, <2>2, <2>3 DEF DecideStatus
<1>18. CASE WriteStatus(i)
  <2> DEFINE verdict == local[i].verdict
             t == IF verdict = "completed" THEN "flow.completed" ELSE "flow.failed"
             r == Record(t, NoStep, "none")
  <2>1. StreamGrows /\ timers' = timers /\ inflight' = inflight /\ jobs' = jobs /\ EndHandler(i)
    BY <1>18 DEF WriteStatus, StreamGrows
  <2>2. entry'.emitted = entry.emitted /\ entry'.awaiting = entry.awaiting
    BY <1>0, <1>18 DEF WriteStatus, Entries
  <2>3. EntryBacked(entry)'
    <3>1. PICK x : x = entry
      OBVIOUS
    <3>2. EntryBacked(x)'
      BY <1>0, <2>1, <3>1, BackingGrows
    <3> QED BY <2>2, <3>1, <3>2 DEF EntryBacked
  <2>4. ChainBacked' /\ ChainGrows
    <3>1. CASE UNCHANGED chain
      BY <2>1, <3>1, ChainKept DEF Backed
    <3>2. CASE verdict \in {"completed", "failed"} /\ Publish(i, r)
      <4>1. EventBacked(i, Len(chain[i]) + 1, r)
        BY <1>0, <3>2 DEF EventBacked, Record, LocalBacked
      <4>2. r \in Records
        BY RecordTypes DEF TerminalTypes
      <4> QED BY <2>1, <3>2, <4>1, <4>2, PublishBacked DEF Backed
    <3> QED BY <1>18, <3>1, <3>2 DEF WriteStatus
  <2>5. JobsBacked' /\ ActiveBacked'
    BY <2>1, <2>4, JobsKept, ActiveKept
  <2>6. TimersBacked' /\ CurrentBacked' /\ LocalBacked' /\ IndexBacked'
    BY <2>1, <2>3, StateKept, EndBacked DEF IndexBacked
  <2> QED BY <2>4, <2>5, <2>6 DEF Backed
<1> QED
  BY <1>1, <1>2, <1>3, <1>4, <1>5, <1>6, <1>7, <1>8, <1>9, <1>10, <1>11, <1>12,
     <1>13, <1>14, <1>15, <1>16, <1>17, <1>18 DEF Handle

-----------------------------------------------------------------------------
(* The invariant. *)

LEMMA InitBacked == Init => Backed
<1> SUFFICES ASSUME Init PROVE Backed
  OBVIOUS
<1>1. ChainBacked
  BY DEF Init, ChainBacked
<1>2. \A j \in JobIds : jobs[j].st = "none"
  BY DEF Init, NoJob
<1>3. JobsBacked
  BY <1>2 DEF JobsBacked, JobIds, StepJobs, RegisterJobs
<1>4. ActiveBacked
  BY <1>2, StepJobFacts DEF ActiveBacked
<1>5. TimersBacked
  BY DEF Init, TimersBacked, AwaitKeys, Positions
<1>6. EntryBacked(NoEntry)
  BY DEF EntryBacked, NoEntry, NoAwaits, IndexKeys, Positions
<1>7. IndexBacked
  BY <1>6 DEF Init, IndexBacked, NoLocal
<1>8. CurrentMatches
  BY InitTypes
<1>9. CurrentBacked /\ LocalBacked
  BY DEF Init, CurrentBacked, LocalBacked, NoRecord, NoLocal, Record
<1> QED BY <1>1, <1>3, <1>4, <1>5, <1>7, <1>8, <1>9 DEF Backed

LEMMA BackedStep == TypeOK /\ TypeOK' /\ Backed /\ [Next]_vars => Backed'
<1> SUFFICES ASSUME TypeOK, TypeOK', Backed, [Next]_vars PROVE Backed'
  OBVIOUS
<1>1. CurrentMatches'
  BY TypeStep DEF Backed
<1>2. CASE Next
  BY <1>1, <1>2, NextSplit, HandlerBacked, WorkerBacked, RegisterBacked, OtherBacked
<1>3. CASE UNCHANGED vars
  <2>1. StreamGrows /\ EntryBacked(entry)' /\ TimersBacked'
    BY <1>3, StateKept DEF vars, StreamGrows
  <2> QED BY <1>3, <2>1, QuietBacked DEF vars
<1> QED BY <1>2, <1>3

\* Every waiting event, job, timer, webhook call, index entry, snapshot and verdict
\* rests on events that are in the stream already.
THEOREM AlwaysBacked == Spec => []Backed
<1>1. Init => TypeOK /\ CurrentMatches /\ Backed
  BY InitTypes, InitBacked
<1>2. TypeOK /\ CurrentMatches /\ Backed /\ [Next]_vars
        => (TypeOK /\ CurrentMatches /\ Backed)'
  BY TypeStep, BackedStep
<1> QED BY <1>1, <1>2, PTL DEF Spec

-----------------------------------------------------------------------------
(* The refinement. *)

\* What one more event changes in what the contract sees.
LEMMA AppendSeen ==
  ASSUME stream \in Seq(Records), NEW e \in Records, stream' = Append(stream, e)
  PROVE  /\ \A t, s : InStream(t, s)' <=> InStream(t, s) \/ (e.type = t /\ e.step = s)
         /\ \A x : IsEmitted(x)' <=> IsEmitted(x) \/ (e.type = "emit" /\ e.arg = x)
         /\ \A s : Resolved(s)' <=> Resolved(s) \/ e = Record("await.resolved", s, "before")
         /\ \A t : HasEvent(stream, t)' <=> HasEvent(stream, t) \/ e.type = t
<1>1. \A n : n \in DOMAIN stream' <=> n \in DOMAIN stream \/ n = Len(stream) + 1
  OBVIOUS
<1>2. stream'[Len(stream) + 1] = e /\ \A n \in DOMAIN stream : stream'[n] = stream[n]
  OBVIOUS
<1>3. \A t, s : InStream(t, s)' <=> InStream(t, s) \/ (e.type = t /\ e.step = s)
  BY <1>1, <1>2 DEF InStream
<1>4. \A x : IsEmitted(x)' <=> IsEmitted(x) \/ (e.type = "emit" /\ e.arg = x)
  BY <1>1, <1>2 DEF IsEmitted
<1>5. \A s : Resolved(s)' <=> Resolved(s) \/ e = Record("await.resolved", s, "before")
  BY <1>1, <1>2 DEF Resolved
<1>6. \A t : HasEvent(stream, t)' <=> HasEvent(stream, t) \/ e.type = t
  BY <1>1, <1>2 DEF HasEvent
<1> QED BY <1>3, <1>4, <1>5, <1>6

\* What one more event adds to the variables of the contract.
LEMMA SeenGrows ==
  ASSUME stream \in Seq(Records), NEW e \in Records, stream' = Append(stream, e)
  PROVE  /\ \A t \in {"step.started", "step.failed", "await.timeout"} :
              {s \in AllSteps : InStream(t, s)}' =
                {s \in AllSteps : InStream(t, s)} \cup (IF e.type = t THEN {e.step} ELSE {})
         /\ EmittedEvents' = EmittedEvents \cup (IF e.type = "emit" THEN {e.arg} ELSE {})
         /\ CompletedSteps(stream)' = CompletedSteps(stream)
              \cup (IF e.type = "step.completed" THEN {e.step} ELSE {})
         /\ {s \in AwaitBefore : Resolved(s)}' = {s \in AwaitBefore : Resolved(s)}
              \cup {s \in AwaitBefore : e = Record("await.resolved", s, "before")}
         /\ {t \in TerminalTypes : HasEvent(stream, t)}' =
              {t \in TerminalTypes : HasEvent(stream, t)}
                \cup (IF e.type \in TerminalTypes THEN {e.type} ELSE {})
<1>0. /\ e.type \in {"step.started", "step.failed", "step.completed", "await.timeout"}
           => e.step \in AllSteps
      /\ e.type = "emit" => e.arg \in Events
  BY RecordFields DEF StepTypes, AwaitTypes
<1>1. ASSUME NEW t \in {"step.started", "step.failed", "await.timeout"}
      PROVE  {s \in AllSteps : InStream(t, s)}' =
               {s \in AllSteps : InStream(t, s)} \cup (IF e.type = t THEN {e.step} ELSE {})
  BY <1>0, AppendSeen
<1>2. EmittedEvents' = EmittedEvents \cup (IF e.type = "emit" THEN {e.arg} ELSE {})
  BY <1>0, AppendSeen DEF EmittedEvents
<1>3. CompletedSteps(stream)' = CompletedSteps(stream)
        \cup (IF e.type = "step.completed" THEN {e.step} ELSE {})
  <2>1. \A s : InStream("step.completed", s)' <=>
                 InStream("step.completed", s) \/ (e.type = "step.completed" /\ e.step = s)
    BY AppendSeen
  <2> QED BY <1>0, <2>1 DEF CompletedSteps, InStream
<1>4. {s \in AwaitBefore : Resolved(s)}' = {s \in AwaitBefore : Resolved(s)}
        \cup {s \in AwaitBefore : e = Record("await.resolved", s, "before")}
  BY AppendSeen
<1>5. {t \in TerminalTypes : HasEvent(stream, t)}' =
        {t \in TerminalTypes : HasEvent(stream, t)}
          \cup (IF e.type \in TerminalTypes THEN {e.type} ELSE {})
  BY AppendSeen
<1> QED BY <1>1, <1>2, <1>3, <1>4, <1>5

\* A persisted event is a step of the contract, or is not seen by it.
LEMMA PersistSeen ==
  ASSUME TypeOK, Backed, NEW i \in Instances, Persist(i)
  PROVE  [Contract!Next]_(Contract!cvars)
<1>0. chain[i] \in Seq(Records) /\ chain[i] # <<>> /\ stream \in Seq(Records)
  BY DEF TypeOK, Persist
<1> PICK e \in Records : e = Head(chain[i])
  BY <1>0
<1>1. stream' = Append(stream, e) /\ stream \in Seq(Records) /\ chain[i] \in Seq(Records)
  BY <1>0 DEF Persist
<1>2. EventBacked(i, 1, e)
  <2>1. 1 \in DOMAIN chain[i] /\ chain[i][1] = e
    BY <1>0
  <2> QED BY <2>1 DEF Backed, ChainBacked
<1>3. \A s : StartedBefore(i, 1, s) => InStream("step.started", s)
  BY <1>1 DEF StartedBefore
<1>4. \A s : Ready(s) => Contract!Ready(s)
  BY DEF Ready, Contract!Ready
<1>5. Contract!AllSteps = AllSteps
  BY DEF Contract!AllSteps, AllSteps
<1> DEFINE s == e.step
           began == {x \in AllSteps : InStream("step.started", x)}
           failed == {x \in AllSteps : InStream("step.failed", x)}
           timedout == {x \in AllSteps : InStream("await.timeout", x)}
           resolved == {x \in AwaitBefore : Resolved(x)}
           verdicts == {t \in TerminalTypes : HasEvent(stream, t)}
<1>a. /\ began' = began \cup (IF e.type = "step.started" THEN {s} ELSE {})
      /\ failed' = failed \cup (IF e.type = "step.failed" THEN {s} ELSE {})
      /\ timedout' = timedout \cup (IF e.type = "await.timeout" THEN {s} ELSE {})
      /\ EmittedEvents' = EmittedEvents \cup (IF e.type = "emit" THEN {e.arg} ELSE {})
      /\ CompletedSteps(stream)' = CompletedSteps(stream)
           \cup (IF e.type = "step.completed" THEN {s} ELSE {})
      /\ verdicts' = verdicts \cup (IF e.type \in TerminalTypes THEN {e.type} ELSE {})
  BY <1>1, SeenGrows
<1>b. /\ e.type = "await.resolved" /\ e.arg = "before" /\ s \in AwaitBefore
           => resolved' = resolved \cup {s}
      /\ ~(e.type = "await.resolved" /\ e.arg = "before") => resolved' = resolved
  <2>1. resolved' = resolved \cup {x \in AwaitBefore : e = Record("await.resolved", x, "before")}
    BY <1>1, SeenGrows
  <2>2. e = Record(e.type, e.step, e.arg)
    BY DEF Record, Records
  <2>3. \A x : e = Record("await.resolved", x, "before") <=>
                e.type = "await.resolved" /\ e.arg = "before" /\ x = s
    BY <2>2 DEF Record
  <2> QED BY <2>1, <2>3
<1>6. CASE e.type = "step.started"
  <2>1. s \in AllSteps /\ Startable(s)
    BY <1>2, <1>6, RecordFields DEF EventBacked, StepTypes
  <2>2. Contract!Begin(s)
    BY <1>a, <1>b, <1>4, <1>6, <2>1 DEF Contract!Begin, Startable, TerminalTypes
  <2> QED BY <1>5, <2>1, <2>2 DEF Contract!Next
<1>7. CASE e.type = "emit"
  <2>1. /\ s \in AllSteps /\ e.arg \in Events /\ e.arg \in Flow.emits[s]
        /\ InStream("step.started", s)
    BY <1>2, <1>3, <1>7, RecordFields DEF EventBacked
  <2>2. Contract!Emit(s, e.arg)
    BY <1>a, <1>b, <1>7, <2>1 DEF Contract!Emit, TerminalTypes
  <2> QED BY <1>5, <2>1, <2>2 DEF Contract!Next
<1>8. CASE e.type = "step.completed"
  <2>1. s \in AllSteps /\ InStream("step.started", s)
    BY <1>2, <1>3, <1>8, RecordFields DEF EventBacked, StepTypes
  <2>2. Contract!Finish(s)
    BY <1>a, <1>b, <1>8, <2>1 DEF Contract!Finish, TerminalTypes
  <2> QED BY <1>5, <2>1, <2>2 DEF Contract!Next
<1>9. CASE e.type = "step.failed"
  <2>1. s \in AllSteps /\ (InStream("step.started", s) \/ InStream("await.timeout", s))
    BY <1>2, <1>3, <1>9, RecordFields DEF EventBacked, StepTypes
  <2>2. Contract!Fail(s)
    BY <1>a, <1>b, <1>9, <2>1 DEF Contract!Fail, TerminalTypes
  <2> QED BY <1>5, <2>1, <2>2 DEF Contract!Next
<1>10. CASE e.type = "await.timeout"
  <2>1. s \in AllSteps
    BY <1>10, RecordFields DEF AwaitTypes
  <2>2. Contract!TimeOut(s)
    BY <1>a, <1>b, <1>10, <2>1 DEF Contract!TimeOut, TerminalTypes
  <2> QED BY <1>5, <2>1, <2>2 DEF Contract!Next
<1>11. CASE e.type = "await.resolved" /\ e.arg = "before"
  <2>1. s \in AllSteps /\ Gated(s)
    BY <1>2, <1>11, RecordFields DEF EventBacked, AwaitTypes
  <2>2. Contract!Resolve(s)
    BY <1>a, <1>b, <1>4, <1>11, <2>1 DEF Contract!Resolve, Gated, TerminalTypes
  <2> QED BY <1>5, <2>1, <2>2 DEF Contract!Next
<1>12. CASE e.type \in TerminalTypes
  <2>1. e.type = "flow.completed" => AllSteps \subseteq CompletedSteps(stream)
                                       \cup {x \in AllSteps : InStream("step.failed", x)}
    BY <1>2 DEF EventBacked, MayComplete, CompletedSteps, InStream
  <2>2. e.type = "flow.failed" => {x \in AllSteps : InStream("step.failed", x)}
                                    \cup {x \in AllSteps : InStream("await.timeout", x)} # {}
    BY <1>2 DEF EventBacked, MayFail, SomeTimedOut
  <2>3. Contract!Conclude(e.type)
    BY <1>a, <1>b, <1>5, <1>12, <2>1, <2>2 DEF Contract!Conclude, TerminalTypes
  <2> QED BY <1>12, <2>3 DEF Contract!Next, TerminalTypes
<1>13. CASE /\ e.type \notin {"step.started", "emit", "step.completed", "step.failed",
                              "await.timeout"} \cup TerminalTypes
            /\ e.type = "await.resolved" => e.arg # "before"
  BY <1>a, <1>b, <1>13 DEF Contract!cvars, TerminalTypes
<1> QED BY <1>6, <1>7, <1>8, <1>9, <1>10, <1>11, <1>12, <1>13

\* A step that leaves the stream alone is not seen either.
LEMMA StreamKept ==
  ASSUME UNCHANGED stream
  PROVE  UNCHANGED Contract!cvars
<1>1. /\ \A t, s : InStream(t, s)' <=> InStream(t, s)
      /\ \A x : IsEmitted(x)' <=> IsEmitted(x)
      /\ \A s : Resolved(s)' <=> Resolved(s)
      /\ \A t : HasEvent(stream, t)' <=> HasEvent(stream, t)
  BY DEF InStream, IsEmitted, Resolved, HasEvent
<1>2. EmittedEvents' = EmittedEvents /\ CompletedSteps(stream)' = CompletedSteps(stream)
  BY <1>1 DEF EmittedEvents, CompletedSteps
<1> QED BY <1>1, <1>2 DEF Contract!cvars

LEMMA StallSeen ==
  ASSUME TypeOK, MarkStalled
  PROVE  UNCHANGED Contract!cvars
<1>1. PICK e \in Records : e = Record("flow.stalled", NoStep, stalling)
  BY RecordTypes DEF TypeOK, MarkStalled
<1>2. e.type = "flow.stalled"
  BY <1>1 DEF Record
<1>3. stream \in Seq(Records) /\ stream' = Append(stream, e)
  BY <1>1 DEF TypeOK, MarkStalled
<1>4. \A s : e # Record("await.resolved", s, "before")
  BY <1>2 DEF Record
<1> QED BY <1>2, <1>3, <1>4, SeenGrows DEF Contract!cvars, TerminalTypes

LEMMA ContractInit == Init => Contract!Init
<1> SUFFICES ASSUME Init PROVE Contract!Init
  OBVIOUS
<1>1. stream = <<>>
  BY DEF Init
<1> QED BY <1>1 DEF Contract!Init, InStream, EmittedEvents, IsEmitted, Resolved,
                    CompletedSteps, HasEvent

LEMMA ContractStep ==
  TypeOK /\ Backed /\ [Next]_vars => [Contract!Next]_(Contract!cvars)
<1> SUFFICES ASSUME TypeOK, Backed, [Next]_vars PROVE [Contract!Next]_(Contract!cvars)
  OBVIOUS
<1>1. ASSUME NEW i \in Instances, Persist(i)
      PROVE  [Contract!Next]_(Contract!cvars)
  BY <1>1, PersistSeen
<1>2. CASE MarkStalled
  BY <1>2, StallSeen
<1>3. CASE UNCHANGED stream
  BY <1>3, StreamKept
<1>4. \/ \E i \in Instances : Persist(i)
      \/ MarkStalled
      \/ UNCHANGED stream
  BY DEF Next, Handle, RunStep, RunRegister, vars, index, handler, scheduled, callers,
         StartFlow, PublishStart, ClearTracker, PublishCancel, OnTerminal, OnFlowStart,
         OnFlowCancel, UnscheduleCanceled, OnStepEvent, OnEmit, OnAwaitRegistered,
         SetAwaiting, OnAwaitResolved, OnAwaitTimeout, ReadIndex, ReadStream,
         EnqueuePending, EndTrigger, AnalyzeStream, DecideStatus, WriteStatus, StartStep,
         EmitEvent, CompleteStep, FailStep, RemoveJob, RegisterAwait, FinishRegister,
         TimerFires, ResolveWebhook, CheckWebhook, ReadPreviousStatus, StallTimeout
<1> QED BY <1>1, <1>2, <1>3, <1>4

\* The stream of a run keeps the promises of FlowContract, whatever the flow, the
\* awaits, the number of instances, the failures and the cancellations.
THEOREM Implements == Spec => ContractSpec
<1>1. Init => Contract!Init
  BY ContractInit
<1>2. TypeOK /\ Backed /\ [Next]_vars => [Contract!Next]_(Contract!cvars)
  BY ContractStep
<1> QED BY <1>1, <1>2, TypeCorrect, AlwaysBacked, PTL DEF Spec, ContractSpec, Contract!Spec

-----------------------------------------------------------------------------
(* A step completes once, while finished jobs are kept. *)

LEMMA CompletionInit == Init => CompletionKept /\ StepsCompleteOnce
<1> SUFFICES ASSUME Init PROVE CompletionKept /\ StepsCompleteOnce
  OBVIOUS
<1>1. stream = <<>> /\ \A i \in Instances : chain[i] = <<>>
  BY DEF Init
<1>2. \A j \in JobIds : jobs[j].st = "none"
  BY DEF Init, NoJob
<1>3. \A s \in AllSteps, q \in {"step", "resumed"} : <<q, s>> \in JobIds
  BY DEF StepJobs, JobIds
<1>4. \A s : ~Resolved(s)
  BY <1>1 DEF Resolved
<1> QED BY <1>1, <1>2, <1>3, <1>4 DEF CompletionKept, StepsCompleteOnce, CompletesIn

\* Only an awaitBefore resolves at position "before".
LEMMA ResolvedGated ==
  ASSUME TypeOK, CurrentMatches, Backed, CompletionKept, Next, NEW s \in AllSteps, Resolved(s)'
  PROVE  s \in AwaitBefore
<1> DEFINE r == Record("await.resolved", s, "before")
<1>1. PICK n \in DOMAIN stream' : stream'[n] = r
  BY DEF Resolved
<1>2. r.type = "await.resolved" /\ r.step = s /\ r.arg = "before"
  BY DEF Record
<1>3. CASE n \in DOMAIN stream /\ stream'[n] = stream[n]
  <2>1. Resolved(s)
    BY <1>1, <1>3 DEF Resolved
  <2> QED BY <2>1 DEF CompletionKept
<1>4. ASSUME NEW i \in Instances, stream'[n] = chain[i][1], 1 \in DOMAIN chain[i]
      PROVE  s \in AwaitBefore
  <2>1. EventBacked(i, 1, chain[i][1])
    BY <1>4 DEF Backed, ChainBacked
  <2>2. Gated(s)
    BY <1>1, <1>2, <1>4, <2>1 DEF EventBacked
  <2> QED BY <2>2 DEF Gated
<1> QED BY <1>1, <1>2, <1>3, <1>4, EventsMove

\* A step with an awaitBefore runs in the job that resumes it, one without in the
\* job of its name.
LEMMA JobsGated ==
  ASSUME TypeOK, CurrentMatches, Backed, CompletionKept, Next, NEW s \in AllSteps
  PROVE  /\ jobs'[<<"step", s>>].st # "none" => s \notin AwaitBefore
         /\ jobs'[<<"resumed", s>>].st # "none" => s \in AwaitBefore
<1> DEFINE own == <<"step", s>>
           resumed == <<"resumed", s>>
<1>0. own \in StepJobs /\ resumed \in StepJobs
  BY DEF StepJobs
<1>1. ASSUME Enqueuer(own)
      PROVE  s \notin AwaitBefore
  <2>1. CASE own = <<"step", Entry>>
    BY <2>1, FlowRunAssumption, EntryAssumption
  <2>2. CASE own # <<"step", Entry>>
    <3>1. PICK i \in Instances : own \in local[i].pending
      BY <1>1, <2>2 DEF Enqueuer
    <3>2. JobBacked(own)
      BY <3>1 DEF Backed, LocalBacked
    <3> QED BY <3>2 DEF JobBacked
  <2> QED BY <2>1, <2>2
<1>2. ASSUME Enqueuer(resumed)
      PROVE  s \in AwaitBefore
  <2>1. PICK i \in Instances : resumed \in local[i].pending
    BY <1>2 DEF Enqueuer
  <2>2. JobBacked(resumed)
    BY <2>1 DEF Backed, LocalBacked
  <2>3. Resolved(s)
    BY <2>2 DEF JobBacked
  <2> QED BY <2>3 DEF CompletionKept
<1> HIDE DEF own, resumed
<1>3. jobs'[own].st # "none" => s \notin AwaitBefore
  <2>1. jobs[own].st # "none" => s \notin AwaitBefore
    BY DEF CompletionKept, own
  <2> QED BY <1>0, <1>1, <2>1, JobMoves
<1>4. jobs'[resumed].st # "none" => s \in AwaitBefore
  <2>1. jobs[resumed].st # "none" => s \in AwaitBefore
    BY DEF CompletionKept, resumed
  <2> QED BY <1>0, <1>2, <2>1, JobMoves
<1> QED BY <1>3, <1>4 DEF own, resumed

DoneFor(s) == \E j \in StepJobs : j[2] = s /\ jobs[j].st = "done"

LEMMA DoneStays ==
  ASSUME ~RemoveFinished, TypeOK, Next, NEW s, DoneFor(s)
  PROVE  DoneFor(s)'
<1>1. PICK j \in StepJobs : j[2] = s /\ jobs[j].st = "done"
  BY DEF DoneFor
<1>2. jobs'[j].st = "done"
  BY <1>1, JobMoves
<1> QED BY <1>1, <1>2 DEF DoneFor

\* A step whose job is running has no job that is done.
LEMMA RunsAlone ==
  ASSUME CompletionKept, NEW j \in StepJobs, jobs[j].st \in {"waiting", "active"}
  PROVE  ~DoneFor(j[2])
<1> SUFFICES ASSUME NEW k \in StepJobs, k[2] = j[2], jobs[k].st = "done"
             PROVE  FALSE
  BY DEF DoneFor
<1>1. j[2] \in AllSteps /\ j[1] \in {"step", "resumed"} /\ k[1] \in {"step", "resumed"}
  BY JobTypes, JobNames
<1>2. j = <<j[1], j[2]>> /\ k = <<k[1], j[2]>>
  BY JobNames
<1>3. k # j
  OBVIOUS
<1>4. jobs[<<"step", j[2]>>].st # "none" /\ jobs[<<"resumed", j[2]>>].st # "none"
  BY <1>1, <1>2, <1>3
<1> QED BY <1>1, <1>4 DEF CompletionKept

LEMMA CompletionStep ==
  ASSUME ~RemoveFinished
  PROVE  TypeOK /\ Backed /\ CompletionKept /\ StepsCompleteOnce /\ [Next]_vars
           => CompletionKept' /\ StepsCompleteOnce'
<1> SUFFICES ASSUME TypeOK, Backed, CompletionKept, StepsCompleteOnce, [Next]_vars
             PROVE  CompletionKept' /\ StepsCompleteOnce'
  OBVIOUS
<1>0. CurrentMatches
  BY DEF Backed
<1>t. stream \in Seq(Records) /\ \A i \in Instances : chain[i] \in Seq(Records)
  BY DEF TypeOK
<1>g. ASSUME NEW s \in AllSteps
      PROVE  /\ \A n \in DOMAIN stream : CompletesIn(stream, n, s) => DoneFor(s)
             /\ \A i \in Instances : \A n \in DOMAIN chain[i] : CompletesIn(chain[i], n, s) =>
                  /\ DoneFor(s)
                  /\ \A m \in DOMAIN stream : ~CompletesIn(stream, m, s)
                  /\ \A k \in Instances : \A m \in DOMAIN chain[k] :
                       CompletesIn(chain[k], m, s) => k = i /\ m = n
  BY DEF CompletionKept, DoneFor
<1>1. CASE Next
  <2> SUFFICES ASSUME NEW s \in AllSteps
               PROVE  /\ \A n \in DOMAIN stream' : CompletesIn(stream', n, s) => DoneFor(s)'
                      /\ \A i \in Instances : \A n \in DOMAIN chain'[i] :
                           CompletesIn(chain'[i], n, s) =>
                             /\ DoneFor(s)'
                             /\ \A m \in DOMAIN stream' : ~CompletesIn(stream', m, s)
                             /\ \A k \in Instances : \A m \in DOMAIN chain'[k] :
                                  CompletesIn(chain'[k], m, s) => k = i /\ m = n
                      /\ \A m, n \in DOMAIN stream' :
                           CompletesIn(stream', m, s) /\ CompletesIn(stream', n, s) => m = n
    <3>1. StepsCompleteOnce'
      <4>1. TypeOK'
        BY <1>0, TypeStep
      <4>2. \A n \in DOMAIN stream' : stream'[n].type = "step.completed" => stream'[n].step \in AllSteps
        BY <4>1, RecordFields DEF TypeOK, StepTypes
      <4> QED BY <4>2 DEF StepsCompleteOnce, CompletesIn
    <3> QED BY <1>0, <1>1, <3>1, ResolvedGated, JobsGated DEF CompletionKept, DoneFor
  <2> DEFINE C(events, n) == CompletesIn(events, n, s)
  <2>0. \A m, n \in DOMAIN stream : C(stream, m) /\ C(stream, n) => m = n
    BY DEF StepsCompleteOnce, CompletesIn
  <2>1. ASSUME NEW p \in Instances, Persist(p)
        PROVE  /\ \A n \in DOMAIN stream' : C(stream', n) => DoneFor(s)'
               /\ \A i \in Instances : \A n \in DOMAIN chain'[i] : C(chain'[i], n) =>
                    /\ DoneFor(s)'
                    /\ \A m \in DOMAIN stream' : ~C(stream', m)
                    /\ \A k \in Instances : \A m \in DOMAIN chain'[k] :
                         C(chain'[k], m) => k = i /\ m = n
               /\ \A m, n \in DOMAIN stream' : C(stream', m) /\ C(stream', n) => m = n
    <3>1. DoneFor(s) => DoneFor(s)'
      BY <1>1, DoneStays
    <3> DEFINE at(i, n) == IF i = p THEN n + 1 ELSE n
    <3>2. ASSUME NEW i \in Instances, NEW n \in DOMAIN chain'[i], C(chain'[i], n)
          PROVE  at(i, n) \in DOMAIN chain[i] /\ C(chain[i], at(i, n)) /\ (i = p => at(i, n) # 1)
      <4>1. CASE i = p
        <5>1. chain'[p] \in Seq(Records)
          BY <2>1, <1>0, <1>1, TypeStep DEF TypeOK
        <5> QED BY <2>1, <3>2, <4>1, <5>1, PersistMoves DEF CompletesIn
      <4>2. CASE i # p
        BY <2>1, <3>2, <4>2, PersistMoves
      <4> QED BY <4>1, <4>2
    <3>3. ASSUME NEW m \in DOMAIN stream', C(stream', m)
          PROVE  \/ m \in DOMAIN stream /\ C(stream, m)
                 \/ m = Len(stream) + 1 /\ C(chain[p], 1) /\ 1 \in DOMAIN chain[p]
      BY <2>1, <3>3, PersistMoves DEF CompletesIn
    <3>4. \A n \in DOMAIN stream' : C(stream', n) => DoneFor(s)'
      BY <1>g, <2>1, <3>1, <3>3
    <3>5. ASSUME NEW i \in Instances, NEW n \in DOMAIN chain'[i], C(chain'[i], n)
          PROVE  /\ DoneFor(s)'
                 /\ \A m \in DOMAIN stream' : ~C(stream', m)
                 /\ \A k \in Instances : \A m \in DOMAIN chain'[k] :
                      C(chain'[k], m) => k = i /\ m = n
      <4>1. DoneFor(s)' /\ \A m \in DOMAIN stream : ~C(stream, m)
        BY <1>g, <3>1, <3>2, <3>5
      <4>2. 1 \in DOMAIN chain[p] => ~C(chain[p], 1)
        BY <1>g, <2>1, <3>2, <3>5
      <4>3. ASSUME NEW k \in Instances, NEW m \in DOMAIN chain'[k], C(chain'[k], m)
            PROVE  k = i /\ m = n
        <5>1. k = i /\ at(k, m) = at(i, n)
          BY <1>g, <3>2, <3>5, <4>3
        <5>2. m \in Nat /\ n \in Nat
          <6>1. chain'[k] \in Seq(Records) /\ chain'[i] \in Seq(Records)
            BY <1>0, <1>1, TypeStep DEF TypeOK
          <6> QED BY <6>1
        <5> QED BY <5>1, <5>2
      <4> QED BY <3>3, <4>1, <4>2, <4>3
    <3>6. \A m, n \in DOMAIN stream' : C(stream', m) /\ C(stream', n) => m = n
      BY <1>g, <2>0, <2>1, <3>3
    <3> QED BY <3>4, <3>5, <3>6
  <2>2. CASE UNCHANGED chain /\ (MarkStalled \/ UNCHANGED stream)
    <3>1. DoneFor(s) => DoneFor(s)'
      BY <1>1, DoneStays
    <3>2. \A n \in DOMAIN stream' : C(stream', n) => n \in DOMAIN stream /\ C(stream, n)
      BY <2>2, StallMoves DEF CompletesIn
    <3> QED BY <1>g, <2>0, <2>2, <3>1, <3>2
  <2>3. ASSUME NEW p \in Instances, NEW e \in Records, Publish(p, e), Publisher(p, e),
               UNCHANGED stream
        PROVE  /\ \A n \in DOMAIN stream' : C(stream', n) => DoneFor(s)'
               /\ \A i \in Instances : \A n \in DOMAIN chain'[i] : C(chain'[i], n) =>
                    /\ DoneFor(s)'
                    /\ \A m \in DOMAIN stream' : ~C(stream', m)
                    /\ \A k \in Instances : \A m \in DOMAIN chain'[k] :
                         C(chain'[k], m) => k = i /\ m = n
               /\ \A m, n \in DOMAIN stream' : C(stream', m) /\ C(stream', n) => m = n
    <3>1. DoneFor(s) => DoneFor(s)'
      BY <1>1, DoneStays
    <3>2. CASE e.type = "step.completed" /\ e.step = s
      <4>1. PICK j \in StepJobs : CompleteStep(j) /\ jobs[j].at = p /\ j[2] = s
        BY <2>3, <3>2 DEF Publisher
      <4>2. jobs[j].st = "active"
        BY <4>1 DEF CompleteStep
      <4>3. ~DoneFor(s)
        BY <4>1, <4>2, RunsAlone
      <4>4. DoneFor(s)'
        <5>1. j \in JobIds /\ jobs \in [JobIds -> Jobs] /\ j # <<"register-after", j[2]>>
          BY JobNames DEF TypeOK
        <5>2. jobs'[j] = [NoJob EXCEPT !.st = "done"]
          BY <4>1, <5>1 DEF CompleteStep
        <5>3. jobs'[j].st = "done"
          BY <5>2 DEF NoJob
        <5> QED BY <4>1, <5>3 DEF DoneFor
      <4>5. /\ \A n \in DOMAIN stream : ~C(stream, n)
            /\ \A i \in Instances : \A n \in DOMAIN chain[i] : ~C(chain[i], n)
        BY <1>g, <4>3
      <4>6. \A i \in Instances : \A n \in DOMAIN chain'[i] :
              C(chain'[i], n) => i = p /\ n = Len(chain[p]) + 1
        BY <2>3, <4>5, PublishAdds DEF CompletesIn
      <4> QED BY <2>3, <4>4, <4>5, <4>6
    <3>3. CASE ~(e.type = "step.completed" /\ e.step = s)
      <4>1. \A i \in Instances : \A n \in DOMAIN chain'[i] :
              C(chain'[i], n) => n \in DOMAIN chain[i] /\ C(chain[i], n)
        BY <2>3, <3>3, PublishAdds DEF CompletesIn
      <4> QED BY <1>g, <2>0, <2>3, <3>1, <4>1
    <3> QED BY <3>2, <3>3
  <2> QED BY <1>0, <1>1, <2>1, <2>2, <2>3, WhoPublishes DEF EventMoves
<1>2. CASE UNCHANGED vars
  BY <1>2 DEF vars, CompletionKept, StepsCompleteOnce, CompletesIn, Resolved
<1> QED BY <1>1, <1>2

\* While finished jobs are kept no step completes twice, whatever the flow, the
\* awaits, the retries and the number of instances: the queue refuses the second
\* job of a step.
THEOREM CompletesOnce ==
  ASSUME ~RemoveFinished
  PROVE  Spec => []StepsCompleteOnce
BY CompletionInit, CompletionStep, TypeCorrect, AlwaysBacked, PTL DEF Spec

-----------------------------------------------------------------------------
(* The awaitAfter of the entry holds its dependents back.  A handler triggers *)
(* steps from an index it has read and from the stream; that the stream has   *)
(* the entry's completion by then is what makes IsDependencyAwaiting see the  *)
(* await, whichever stale index the handler has.                              *)

AfterEntry == <<Entry, "after">>
Released == \E n \in DOMAIN stream : stream[n] = Record("await.resolved", Entry, "after")

\* The entry is done, as far as the stream tells: nothing but the entry runs before.
Opened == Entry \in CompletedSteps(stream) \/ Released

\* Step s waits for an event that only the entry emits, and the entry has an awaitAfter.
HeldBack(s) ==
  \E e \in Flow.subs[s] \cap Events :
    Entry \in AwaitAfter /\ {t \in AllSteps : e \in Flow.emits[t]} = {Entry}

Free(s) == HeldBack(s) => Released

EntryCompletes(e) == e.type = "step.completed" /\ e.step = Entry

\* The entry is done before the n-th event that instance i has yet to handle, or, with
\* one instance, by the time that what is published now is handled.
FollowsAt(i, n) ==
  Opened \/ (Instances = {i} /\ \E m \in DOMAIN chain[i] : m < n /\ EntryCompletes(chain[i][m]))
Coming ==
  Opened \/ \E i \in Instances : Instances = {i} /\ \E m \in DOMAIN chain[i] : EntryCompletes(chain[i][m])

\* The one await whose events need not follow: its timeout triggers nothing.
Loose(k) == k = AfterEntry /\ TimeoutAction[AfterEntry] # "continue"

EventFollows(i, n, e) ==
  /\ e.type \in AwaitTypes => Loose(<<e.step, e.arg>>) \/ FollowsAt(i, n)
  /\ e.type = "step.completed" => e.step = Entry \/ FollowsAt(i, n)
  /\ e.type = "step.started" /\ e.step \in Steps => Free(e.step)

ChainFollows == \A i \in Instances : \A n \in DOMAIN chain[i] : EventFollows(i, n, chain[i][n])

RegistersFollow == \A j \in RegisterJobs : jobs[j].st # "none" => Loose(JobKey(j)) \/ Coming

AwaitsFollow ==
  \A k \in AwaitKeys :
    k \in timers \/ inflight[k] > 0 \/ entry.awaiting[k] = "awaiting" => Loose(k) \/ Coming

Triggering == {"step.completed", "await.resolved", "trigger", "pending", "enqueue"}

HandlersFollow ==
  \A i \in Instances :
    /\ pc[i] \in AwaitTypes \cup {"register"} => Loose(<<cur[i].step, cur[i].arg>>) \/ Opened
    /\ pc[i] = "await.resolved" /\ <<cur[i].step, cur[i].arg>> = AfterEntry => Released
    /\ pc[i] \in Triggering => Opened

StepsFree ==
  \A j \in StepJobs : jobs[j].st # "none" =>
    /\ j # <<"step", Entry>> => Opened
    /\ j[2] \in Steps => Free(j[2])

PendingKept ==
  \A i \in Instances : \A j \in local[i].pending : Opened /\ Free(j[2])

StreamFree ==
  \A n \in DOMAIN stream :
    /\ stream[n].type = "emit" => stream[n].arg \in Flow.emits[stream[n].step]
    /\ stream[n].type = "step.started" /\ stream[n].step \in Steps => Free(stream[n].step)

ReleaseSeen ==
  /\ entry.awaiting[AfterEntry] = "resolved" => Released
  /\ \A i \in Instances : local[i].entry.awaiting[AfterEntry] = "resolved" => Released

\* Whatever may still lead to a start of a step follows the completion of the entry,
\* and every step that waits for the entry starts after the await is resolved.
AfterInv ==
  /\ ChainFollows /\ RegistersFollow /\ AwaitsFollow /\ HandlersFollow
  /\ StepsFree /\ PendingKept /\ StreamFree /\ ReleaseSeen

\* Any set of positions has a first one: the emitter that events.find returns.
LEMMA LeastElement ==
  ASSUME NEW T, T \subseteq Nat, T # {}
  PROVE  \E n \in T : \A m \in T : n <= m
<1> DEFINE R == {ss \in Nat \X Nat : ss[1] < ss[2]}
<1>1. IsWellFoundedOn(R, Nat)
  BY NatLessThanWellFounded DEF OpToRel
<1>2. PICK n \in T : \A m \in T : <<m, n>> \notin R
  <2> HIDE DEF R
  <2> QED BY <1>1, WFMin
<1>3. \A m \in T : ~(m < n)
  BY <1>2
<1> QED BY <1>3

\* Every step leaves the stream as it is or appends one event ..
LEMMA StreamMoves == TypeOK /\ CurrentMatches /\ Next => StreamGrows
<1> SUFFICES ASSUME TypeOK, CurrentMatches, Next PROVE StreamGrows
  OBVIOUS
<1>1. ASSUME NEW i \in Instances, Persist(i)
      PROVE  StreamGrows
  <2>1. chain[i] \in Seq(Records) /\ chain[i] # <<>>
    BY <1>1 DEF TypeOK, Persist
  <2>2. Head(chain[i]) \in Records
    BY <2>1
  <2> QED BY <1>1, <2>2 DEF Persist, StreamGrows
<1>2. CASE MarkStalled
  <2>1. Record("flow.stalled", NoStep, stalling) \in Records
    BY <1>2, RecordTypes DEF TypeOK, MarkStalled
  <2> QED BY <1>2, <2>1 DEF MarkStalled, StreamGrows
<1> QED BY <1>1, <1>2, WhoPublishes DEF EventMoves, StreamGrows

\* .. so an await that was resolved, and an entry that completed, stay so.
LEMMA ReleaseGrows ==
  ASSUME TypeOK, StreamGrows
  PROVE  /\ Released => Released'
         /\ Opened => Opened'
         /\ \A s : Free(s) => Free(s)'
<1>0. stream \in Seq(Records)
  BY DEF TypeOK
<1>1. \A n \in DOMAIN stream : n \in DOMAIN stream' /\ stream'[n] = stream[n]
  BY <1>0 DEF StreamGrows
<1>2. Released => Released'
  BY <1>1 DEF Released
<1>3. CompletedSteps(stream) \subseteq CompletedSteps(stream)'
  BY <1>1 DEF CompletedSteps
<1>4. \A s : HeldBack(s)' <=> HeldBack(s)
  BY DEF HeldBack
<1> QED BY <1>2, <1>3, <1>4 DEF Opened, Free

\* A chain keeps the events it holds where they are, or loses its first one.
LEMMA ChainMoves ==
  ASSUME TypeOK, CurrentMatches, Next, NEW i \in Instances
  PROVE  \/ Persist(i)
         \/ \A m \in DOMAIN chain[i] : m \in DOMAIN chain'[i] /\ chain'[i][m] = chain[i][m]
<1>1. ASSUME NEW k \in Instances, Persist(k), k # i
      PROVE  chain'[i] = chain[i]
  BY <1>1, PersistMoves
<1>2. ASSUME NEW k \in Instances, NEW e \in Records, Publish(k, e)
      PROVE  \A m \in DOMAIN chain[i] : m \in DOMAIN chain'[i] /\ chain'[i][m] = chain[i][m]
  BY <1>2, PublishAdds
<1> QED BY <1>1, <1>2, WhoPublishes DEF EventMoves

\* .. and what follows the completion of the entry keeps following it.
LEMMA FollowGrows ==
  ASSUME TypeOK, TypeOK', CurrentMatches, Next, NEW i \in Instances, NEW n \in Nat
  PROVE  /\ ~Persist(i) /\ FollowsAt(i, n) => FollowsAt(i, n)'
         /\ Persist(i) /\ FollowsAt(i, n + 1) => FollowsAt(i, n)'
         /\ Coming => Coming'
         /\ Coming /\ n > Len(chain[i]) /\ ~Persist(i) => FollowsAt(i, n)'
<1>0. Opened => Opened'
  BY StreamMoves, ReleaseGrows
<1>1. ASSUME ~Persist(i), FollowsAt(i, n)
      PROVE  FollowsAt(i, n)'
  BY <1>0, <1>1, ChainMoves DEF FollowsAt
<1>2. ASSUME NEW k \in Instances, Persist(k), NEW m \in DOMAIN chain[k], EntryCompletes(chain[k][m])
      PROVE  \/ Opened'
             \/ m - 1 \in DOMAIN chain'[k] /\ EntryCompletes(chain'[k][m - 1])
  <2>0. chain[k] \in Seq(Records) /\ chain[k] # <<>> /\ m \in Nat /\ chain'[k] = Tail(chain[k])
    BY <1>2 DEF TypeOK, Persist
  <2>1. CASE m = 1
    <3>1. \E x \in DOMAIN stream' : stream'[x] = chain[k][1]
      BY <1>2, PersistMoves
    <3>2. Entry \in CompletedSteps(stream)'
      BY <1>2, <2>1, <3>1 DEF CompletedSteps, EntryCompletes, AllSteps
    <3> QED BY <3>2 DEF Opened
  <2>2. CASE m # 1
    <3>1. m - 1 \in DOMAIN chain'[k] /\ chain'[k][m - 1] = chain[k][m]
      BY <2>0, <2>2
    <3> QED BY <1>2, <3>1
  <2> QED BY <2>1, <2>2
<1>3. ASSUME Persist(i), FollowsAt(i, n + 1)
      PROVE  FollowsAt(i, n)'
  <2>1. CASE Opened
    BY <1>0, <2>1 DEF FollowsAt
  <2>2. CASE ~Opened
    <3>1. PICK m \in DOMAIN chain[i] : m < n + 1 /\ EntryCompletes(chain[i][m]) /\ Instances = {i}
      BY <1>3, <2>2 DEF FollowsAt
    <3>2. m - 1 < n
      BY <3>1 DEF TypeOK
    <3> QED BY <1>2, <1>3, <3>1, <3>2 DEF FollowsAt
  <2> QED BY <2>1, <2>2
<1>4. ASSUME Coming
      PROVE  Coming'
  <2>1. CASE Opened
    BY <1>0, <2>1 DEF Coming
  <2>2. CASE ~Opened
    <3>1. PICK k \in Instances : Instances = {k} /\ \E m \in DOMAIN chain[k] : EntryCompletes(chain[k][m])
      BY <1>4, <2>2 DEF Coming
    <3>2. PICK m \in DOMAIN chain[k] : EntryCompletes(chain[k][m])
      BY <3>1
    <3>3. CASE Persist(k)
      BY <1>2, <3>1, <3>2, <3>3 DEF Coming
    <3>4. CASE ~Persist(k)
      BY <3>1, <3>2, <3>4, ChainMoves DEF Coming
    <3> QED BY <3>3, <3>4
  <2> QED BY <2>1, <2>2
<1>5. ASSUME Coming, n > Len(chain[i]), ~Persist(i)
      PROVE  FollowsAt(i, n)'
  <2>0. chain[i] \in Seq(Records)
    BY DEF TypeOK
  <2>1. FollowsAt(i, n)
    BY <1>5, <2>0 DEF Coming, FollowsAt
  <2> QED BY <1>1, <1>5, <2>1
<1> QED BY <1>1, <1>3, <1>4, <1>5

\* What events.find returns is a step that emitted the event.
LEMMA EmitterFound ==
  ASSUME TypeOK, NEW e, IsEmitted(e)
  PROVE  \E n \in DOMAIN stream :
           stream[n].type = "emit" /\ stream[n].arg = e /\ FirstEmitter(e) = stream[n].step
<1> DEFINE Emits(n) == stream[n].type = "emit" /\ stream[n].arg = e
           T == {n \in DOMAIN stream : Emits(n)}
<1>0. stream \in Seq(Records)
  BY DEF TypeOK
<1>1. T \subseteq Nat /\ T # {}
  BY <1>0 DEF IsEmitted
<1>2. PICK n \in T : \A m \in T : n <= m
  <2> HIDE DEF T
  <2> QED BY <1>1, LeastElement
<1> DEFINE First(x) == Emits(x) /\ \A m \in 1 .. (x - 1) : ~Emits(m)
<1>3. n \in DOMAIN stream /\ First(n)
  BY <1>0, <1>2
<1>4. (CHOOSE x \in DOMAIN stream : First(x)) \in DOMAIN stream
      /\ First(CHOOSE x \in DOMAIN stream : First(x))
  <2> HIDE DEF First
  <2> QED BY <1>3
<1>5. FirstEmitter(e) = stream[CHOOSE x \in DOMAIN stream : First(x)].step
  BY DEF FirstEmitter
<1> QED BY <1>4, <1>5

\* A step that is pending waits for nothing that the entry's awaitAfter holds back.
LEMMA PendingFree ==
  ASSUME TypeOK, Backed, StreamFree, ReleaseSeen, Opened, Events \cap AllSteps = {},
         NEW i \in Instances, NEW s \in PendingSteps(local[i].entry)
  PROVE  Free(s)
<1> SUFFICES ASSUME HeldBack(s), ~Released
             PROVE  FALSE
  BY DEF Free
<1> PICK e \in Flow.subs[s] \cap Events :
      Entry \in AwaitAfter /\ {t \in AllSteps : e \in Flow.emits[t]} = {Entry}
  BY DEF HeldBack
<1>1. e \in local[i].entry.emitted
  BY DEF PendingSteps, CanTrigger, CompletedSteps
<1>2. IsEmitted(e)
  BY <1>1 DEF Backed, IndexBacked, EntryBacked, EmittedEvents
<1>3. FirstEmitter(e) = Entry
  <2>1. PICK n \in DOMAIN stream :
          stream[n].type = "emit" /\ stream[n].arg = e /\ FirstEmitter(e) = stream[n].step
    BY <1>2, EmitterFound
  <2>2. stream[n] \in Records
    BY DEF TypeOK
  <2>3. stream[n].step \in AllSteps /\ e \in Flow.emits[stream[n].step]
    BY <2>1, <2>2, RecordFields DEF StreamFree
  <2> QED BY <2>1, <2>3
<1>4. local[i].entry.awaiting[AfterEntry] # "resolved"
  BY DEF ReleaseSeen
<1>5. Entry \in AwaitAfter /\ Entry \in CompletedSteps(stream)
  BY DEF Opened
<1>6. IsDependencyAwaiting(s, local[i].entry.awaiting)
  BY <1>2, <1>3, <1>4, <1>5 DEF IsDependencyAwaiting, AfterEntry
<1> QED BY <1>6 DEF PendingSteps

\* Where the states of an await in the index come from, and what a handler has read.
LEMMA AwaitingMoves ==
  ASSUME TypeOK, Next, NEW k \in AwaitKeys
  PROVE  /\ entry'.awaiting[k] = "awaiting" =>
              \/ entry.awaiting[k] = "awaiting"
              \/ \E i \in Instances : pc[i] = "register" /\ k = <<cur[i].step, cur[i].arg>>
         /\ entry'.awaiting[k] = "resolved" =>
              \/ entry.awaiting[k] = "resolved"
              \/ \E i \in Instances : pc[i] = "await.resolved" /\ k = <<cur[i].step, cur[i].arg>>
         /\ \A i \in Instances : local'[i].entry \in {local[i].entry, NoEntry, entry}
<1> USE DEF index, handler, scheduled, callers
<1> DEFINE Moves ==
      /\ entry'.awaiting[k] = "awaiting" =>
           \/ entry.awaiting[k] = "awaiting"
           \/ \E i \in Instances : pc[i] = "register" /\ k = <<cur[i].step, cur[i].arg>>
      /\ entry'.awaiting[k] = "resolved" =>
           \/ entry.awaiting[k] = "resolved"
           \/ \E i \in Instances : pc[i] = "await.resolved" /\ k = <<cur[i].step, cur[i].arg>>
      /\ \A i \in Instances : local'[i].entry \in {local[i].entry, NoEntry, entry}
<1>0. /\ entry \in Entries /\ local \in [Instances -> Snapshots]
      /\ entry.awaiting \in [IndexKeys -> AwaitStates] /\ k \in IndexKeys
      /\ \A s : k # <<s, "bare">>
  BY DEF TypeOK, Entries, AwaitKeys, IndexKeys, Positions
<1>1. ASSUME NEW i \in Instances, EndHandler(i) \/ UNCHANGED local
      PROVE  \A h \in Instances : local'[h].entry \in {local[h].entry, NoEntry, entry}
  <2>1. NoLocal.entry = NoEntry
    BY DEF NoLocal
  <2> QED BY <1>0, <1>1, <2>1 DEF EndHandler
<1>2. ASSUME NEW i \in Instances, Handle(i)
      PROVE  Moves
  <2>1. CASE OnFlowStart(i)
    <3>1. entry'.awaiting[k] = "none"
      BY <1>0, <2>1 DEF OnFlowStart, NoEntry, NoAwaits
    <3> QED BY <1>1, <2>1, <3>1 DEF OnFlowStart
  <2>2. CASE OnFlowCancel(i) \/ OnEmit(i) \/ WriteStatus(i)
    <3>1. entry'.awaiting = entry.awaiting
      BY <1>0, <2>2 DEF OnFlowCancel, OnEmit, WriteStatus, Entries
    <3>2. EndHandler(i) \/ UNCHANGED local
      BY <2>2 DEF OnFlowCancel, OnEmit, WriteStatus
    <3> QED BY <1>1, <3>1, <3>2
  <2>3. CASE SetAwaiting(i)
    <3>1. /\ entry'.awaiting = [entry.awaiting EXCEPT ![<<cur[i].step, cur[i].arg>>] = "awaiting"]
          /\ pc[i] = "register" /\ EndHandler(i)
      BY <1>0, <2>3 DEF SetAwaiting, Entries
    <3> QED BY <1>0, <1>1, <3>1
  <2>4. CASE OnAwaitResolved(i)
    <3>1. /\ \/ entry'.awaiting = entry.awaiting
             \/ entry'.awaiting = [entry.awaiting EXCEPT ![<<cur[i].step, cur[i].arg>>] = "resolved"]
          /\ pc[i] = "await.resolved"
          /\ EndHandler(i) \/ UNCHANGED local
      BY <1>0, <2>4 DEF OnAwaitResolved, Entries
    <3> QED BY <1>0, <1>1, <3>1
  <2>5. CASE OnAwaitTimeout(i)
    <3>1. /\ \/ entry'.awaiting = entry.awaiting
             \/ \E x : entry'.awaiting = [entry.awaiting EXCEPT ![<<cur[i].step, "bare">>] = x]
          /\ EndHandler(i) \/ UNCHANGED local
      BY <1>0, <2>5 DEF OnAwaitTimeout, Entries
    <3>2. entry'.awaiting[k] = entry.awaiting[k]
      BY <1>0, <3>1
    <3> QED BY <1>1, <3>1, <3>2
  <2>6. CASE ReadIndex(i)
    <3>1. \A h \in Instances : local'[h].entry \in {local[h].entry, NoEntry, entry}
      BY <1>0, <2>6 DEF ReadIndex, Snapshots
    <3> QED BY <2>6, <3>1 DEF ReadIndex
  <2>7. CASE ReadStream(i) \/ EnqueuePending(i) \/ AnalyzeStream(i) \/ DecideStatus(i)
    <3>1. \A h \in Instances : local'[h].entry \in {local[h].entry, NoEntry}
      <4>1. CASE ReadStream(i)
        <5> DEFINE x == local[i].entry
                   held == IF MayTrigger(x) THEN {JobOf(s, x) : s \in PendingSteps(x)} ELSE {}
        <5>1. local' = [local EXCEPT ![i].pending = held]
          BY <4>1 DEF ReadStream
        <5> HIDE DEF held
        <5> QED BY <1>0, <5>1 DEF Snapshots
      <4>2. CASE EnqueuePending(i)
        BY <1>0, <4>2 DEF EnqueuePending, Snapshots
      <4>3. CASE AnalyzeStream(i) \/ DecideStatus(i)
        BY <1>0, <4>3 DEF AnalyzeStream, DecideStatus, Snapshots, EndHandler, NoLocal
      <4> QED BY <2>7, <4>1, <4>2, <4>3
    <3> QED BY <2>7, <3>1 DEF ReadStream, EnqueuePending, AnalyzeStream, DecideStatus
  <2>8. CASE UNCHANGED entry /\ (EndHandler(i) \/ UNCHANGED local)
    BY <1>1, <2>8
  <2> QED
    BY <1>2, <2>1, <2>2, <2>3, <2>4, <2>5, <2>6, <2>7, <2>8
       DEF Handle, Persist, OnTerminal, UnscheduleCanceled, OnStepEvent, OnAwaitRegistered,
           EndTrigger
<1>3. CASE MarkStalled
  <2>1. entry'.awaiting = entry.awaiting /\ UNCHANGED local
    BY <1>0, <1>3 DEF MarkStalled, Entries
  <2> QED BY <2>1
<1>4. CASE UNCHANGED <<entry, local>>
  BY <1>4
<1> QED
  BY <1>2, <1>3, <1>4
     DEF Next, RunStep, RunRegister, StartFlow, PublishStart, ClearTracker, PublishCancel,
         StartStep, EmitEvent, CompleteStep, FailStep, RemoveJob, RegisterAwait, FinishRegister,
         TimerFires, ResolveWebhook, CheckWebhook, ReadPreviousStatus, StallTimeout

\* How a handler comes to the stages that trigger steps.
LEMMA TriggerMoves ==
  ASSUME TypeOK, Next, NEW i \in Instances, ~Persist(i)
  PROVE  /\ pc'[i] \in AwaitTypes \cup {"register"} =>
              /\ pc[i] \in AwaitTypes \cup {"register"}
              /\ cur'[i] = cur[i]
              /\ pc'[i] = "await.resolved" => pc[i] = "await.resolved"
         /\ pc'[i] \in Triggering =>
              \/ pc[i] \in Triggering
              \/ /\ pc[i] = "await.timeout"
                 /\ TimeoutAction[<<cur[i].step, cur[i].arg>>] = "continue"
<1> USE DEF index, handler, scheduled, callers
<1> DEFINE Moves ==
      /\ pc'[i] \in AwaitTypes \cup {"register"} =>
           /\ pc[i] \in AwaitTypes \cup {"register"}
           /\ cur'[i] = cur[i]
           /\ pc'[i] = "await.resolved" => pc[i] = "await.resolved"
      /\ pc'[i] \in Triggering =>
           \/ pc[i] \in Triggering
           \/ /\ pc[i] = "await.timeout"
              /\ TimeoutAction[<<cur[i].step, cur[i].arg>>] = "continue"
<1>0. pc \in [Instances -> Stages] /\ cur \in [Instances -> Records]
  BY DEF TypeOK
<1>1. ASSUME NEW k \in Instances, Handle(k)
      PROVE  Moves
  <2>1. CASE k # i
    <3>1. pc'[i] = pc[i] /\ cur'[i] = cur[i]
      BY <1>0, <1>1, <2>1
         DEF Handle, EndHandler, Persist, OnTerminal, OnFlowStart, OnFlowCancel,
             UnscheduleCanceled, OnStepEvent, OnEmit, OnAwaitRegistered, SetAwaiting,
             OnAwaitResolved, OnAwaitTimeout, ReadIndex, ReadStream, EnqueuePending,
             EndTrigger, AnalyzeStream, DecideStatus, WriteStatus
    <3> QED BY <3>1
  <2>2. CASE k = i
    <3> USE <1>0 DEF EndHandler, AwaitTypes, Triggering
    <3>1. CASE OnTerminal(i) \/ OnFlowStart(i) \/ UnscheduleCanceled(i) \/ OnEmit(i)
               \/ SetAwaiting(i) \/ WriteStatus(i)
      BY <3>1 DEF OnTerminal, OnFlowStart, UnscheduleCanceled, OnEmit, SetAwaiting, WriteStatus
    <3>2. CASE OnFlowCancel(i) \/ AnalyzeStream(i) \/ DecideStatus(i)
      BY <3>2 DEF OnFlowCancel, AnalyzeStream, DecideStatus
    <3>3. CASE OnStepEvent(i)
      BY <3>3 DEF OnStepEvent
    <3>4. CASE OnAwaitRegistered(i) \/ OnAwaitResolved(i)
      BY <3>4 DEF OnAwaitRegistered, OnAwaitResolved
    <3>5. CASE OnAwaitTimeout(i)
      BY <3>5 DEF OnAwaitTimeout
    <3>6. CASE ReadIndex(i) \/ ReadStream(i) \/ EnqueuePending(i) \/ EndTrigger(i)
      BY <3>6 DEF ReadIndex, ReadStream, EnqueuePending, EndTrigger
    <3> QED BY <1>1, <2>2, <3>1, <3>2, <3>3, <3>4, <3>5, <3>6 DEF Handle
  <2> QED BY <2>1, <2>2
<1>2. CASE UNCHANGED <<pc, cur>>
  BY <1>2
<1> QED
  BY <1>1, <1>2
     DEF Next, RunStep, RunRegister, StartFlow, PublishStart, ClearTracker, PublishCancel,
         StartStep, EmitEvent, CompleteStep, FailStep, RemoveJob, RegisterAwait, FinishRegister,
         TimerFires, ResolveWebhook, CheckWebhook, ReadPreviousStatus, StallTimeout, MarkStalled

\* Where the timers and the webhook calls come from.
LEMMA TimerMoves ==
  ASSUME TypeOK, Next, NEW k \in AwaitKeys
  PROVE  /\ k \in timers' =>
              k \in timers \/ \E j \in RegisterJobs : jobs[j].st # "none" /\ JobKey(j) = k
         /\ inflight'[k] > 0 => inflight[k] > 0 \/ entry.awaiting[k] = "awaiting"
<1> USE DEF index, handler, scheduled, callers
<1> DEFINE Moves ==
      /\ k \in timers' =>
           k \in timers \/ \E j \in RegisterJobs : jobs[j].st # "none" /\ JobKey(j) = k
      /\ inflight'[k] > 0 => inflight[k] > 0 \/ entry.awaiting[k] = "awaiting"
<1>0. inflight \in [AwaitKeys -> Nat]
  BY DEF TypeOK
<1>1. ASSUME NEW j \in RegisterJobs, RunRegister(j)
      PROVE  Moves
  BY <1>1 DEF RunRegister, RegisterAwait, FinishRegister
<1>2. ASSUME NEW i \in Instances, NEW x \in AwaitKeys,
             TimerFires(i, x) \/ ResolveWebhook(i, x) \/ CheckWebhook(x)
      PROVE  Moves
  BY <1>0, <1>2 DEF TimerFires, ResolveWebhook, CheckWebhook
<1>3. CASE timers' \subseteq timers /\ UNCHANGED inflight
  BY <1>3
<1> QED
  BY <1>1, <1>2, <1>3, FlowRunAssumption
     DEF Next, Handle, RunStep, StartFlow, PublishStart, ClearTracker, PublishCancel,
         Persist, OnTerminal, OnFlowStart, OnFlowCancel, UnscheduleCanceled, OnStepEvent,
         OnEmit, OnAwaitRegistered, SetAwaiting, OnAwaitResolved, OnAwaitTimeout, ReadIndex,
         ReadStream, EnqueuePending, EndTrigger, AnalyzeStream, DecideStatus, WriteStatus,
         StartStep, EmitEvent, CompleteStep, FailStep, RemoveJob, ReadPreviousStatus,
         StallTimeout, MarkStalled

LEMMA AfterInit == Init => AfterInv
<1> SUFFICES ASSUME Init PROVE AfterInv
  OBVIOUS
<1>1. /\ \A k \in AwaitKeys : entry.awaiting[k] = "none"
      /\ \A i \in Instances : local[i].entry.awaiting[AfterEntry] = "none"
  BY DEF Init, NoEntry, NoLocal, NoAwaits, AwaitKeys, IndexKeys, AfterEntry, Positions, AllSteps
<1>2. AfterEntry \in AwaitKeys
  BY DEF AfterEntry, AwaitKeys, AllSteps, Positions
<1>3. ChainFollows /\ StreamFree
  BY DEF Init, ChainFollows, StreamFree
<1>4. RegistersFollow /\ StepsFree
  BY JobNames, NoneIsNoJob DEF Init, RegistersFollow, StepsFree
<1>5. AwaitsFollow /\ ReleaseSeen
  BY <1>1, <1>2 DEF Init, AwaitsFollow, ReleaseSeen
<1>6. HandlersFollow
  BY DEF Init, HandlersFollow, AwaitTypes, Triggering
<1>7. PendingKept
  BY DEF Init, PendingKept, NoLocal
<1> QED BY <1>3, <1>4, <1>5, <1>6, <1>7 DEF AfterInv

\* What the entry's await relies on.
AfterSetting ==
  /\ AwaitAfter \subseteq {Entry}
  /\ Events \cap AllSteps = {}
  /\ TimeoutAction[AfterEntry] = "continue" => \E i : Instances = {i}

\* An event that is published follows the completion of the entry.
LEMMA PublishFollows ==
  ASSUME TypeOK, TypeOK', CurrentMatches, AfterInv, Next,
         NEW i \in Instances, NEW e \in Records, Publisher(i, e), ~Persist(i),
         NEW n \in Nat, n = Len(chain[i]) + 1
  PROVE  EventFollows(i, n, e)'
<1> USE DEF index, handler, scheduled, callers
<1>0. n > Len(chain[i])
  BY DEF TypeOK
<1>1. Coming => FollowsAt(i, n)'
  BY <1>0, FollowGrows
<1>2. e.type \in AwaitTypes => Loose(<<e.step, e.arg>>) \/ Coming
  <2> SUFFICES ASSUME e.type \in AwaitTypes PROVE Loose(<<e.step, e.arg>>) \/ Coming
    OBVIOUS
  <2>1. ASSUME NEW j \in RegisterJobs, RunRegister(j), JobKey(j) = <<e.step, e.arg>>
        PROVE  Loose(<<e.step, e.arg>>) \/ Coming
    <3>1. jobs[j].st # "none"
      BY <2>1 DEF RunRegister, RegisterAwait, FinishRegister
    <3> QED BY <2>1, <3>1 DEF AfterInv, RegistersFollow
  <2>2. ASSUME NEW k \in AwaitKeys, TimerFires(i, k) \/ ResolveWebhook(i, k), k = <<e.step, e.arg>>
        PROVE  Loose(<<e.step, e.arg>>) \/ Coming
    <3>1. k \in timers \/ inflight[k] > 0
      BY <2>2 DEF TimerFires, ResolveWebhook
    <3> QED BY <2>2, <3>1 DEF AfterInv, AwaitsFollow
  <2> QED BY <2>1, <2>2 DEF Publisher
<1>3. e.type = "step.completed" => e.step = Entry \/ Coming
  <2> SUFFICES ASSUME e.type = "step.completed", e.step # Entry PROVE Coming
    OBVIOUS
  <2>1. PICK j \in StepJobs : CompleteStep(j) /\ j[2] = e.step
    BY DEF Publisher
  <2>2. jobs[j].st # "none" /\ j # <<"step", Entry>>
    BY <2>1 DEF CompleteStep
  <2> QED BY <2>2 DEF AfterInv, StepsFree, Coming
<1>4. e.type = "step.started" /\ e.step \in Steps => Free(e.step)'
  <2> SUFFICES ASSUME e.type = "step.started", e.step \in Steps PROVE Free(e.step)'
    OBVIOUS
  <2>1. PICK j \in StepJobs : StartStep(i, j) /\ j[2] = e.step
    BY DEF Publisher
  <2>2. jobs[j].st # "none"
    BY <2>1 DEF StartStep
  <2>3. Free(e.step)
    BY <2>1, <2>2 DEF AfterInv, StepsFree
  <2> QED BY <2>3, StreamMoves, ReleaseGrows
<1>5. \A k : Loose(k) => Loose(k)'
  BY DEF Loose, AfterEntry
<1> QED BY <1>1, <1>2, <1>3, <1>4, <1>5 DEF EventFollows

LEMMA ChainStep ==
  ASSUME TypeOK, TypeOK', CurrentMatches, AfterInv, Next
  PROVE  ChainFollows'
<1> SUFFICES ASSUME NEW i \in Instances, NEW n \in DOMAIN chain'[i]
             PROVE  EventFollows(i, n, chain[i][n])'
  BY DEF ChainFollows
<1>0. /\ chain \in [Instances -> Seq(Records)] /\ chain' \in [Instances -> Seq(Records)]
      /\ n \in Nat
  BY DEF TypeOK
<1>1. \A s : Free(s) => Free(s)'
  BY StreamMoves, ReleaseGrows
<1>2. \A k : Loose(k) => Loose(k)'
  BY DEF Loose, AfterEntry
<1>3. ASSUME NEW m \in DOMAIN chain[i], chain'[i][n] = chain[i][m], FollowsAt(i, m) => FollowsAt(i, n)'
      PROVE  EventFollows(i, n, chain[i][n])'
  <2>1. EventFollows(i, m, chain[i][m])
    BY DEF AfterInv, ChainFollows
  <2> QED BY <1>1, <1>2, <1>3, <2>1 DEF EventFollows
<1>4. CASE Persist(i)
  <2>1. n + 1 \in DOMAIN chain[i] /\ chain'[i][n] = chain[i][n + 1]
    BY <1>4, PersistMoves
  <2>2. FollowsAt(i, n + 1) => FollowsAt(i, n)'
    BY <1>0, <1>4, FollowGrows
  <2> QED BY <1>3, <2>1, <2>2
<1>5. CASE ~Persist(i) /\ n \in DOMAIN chain[i] /\ chain'[i][n] = chain[i][n]
  <2>1. FollowsAt(i, n) => FollowsAt(i, n)'
    BY <1>0, <1>5, FollowGrows
  <2> QED BY <1>3, <1>5, <2>1
<1>6. CASE ~Persist(i) /\ ~(n \in DOMAIN chain[i] /\ chain'[i][n] = chain[i][n])
  <2>1. ~UNCHANGED chain /\ \A k \in Instances : ~Persist(k)
    BY <1>6, PersistMoves
  <2>2. PICK k \in Instances, e \in Records : Publish(k, e) /\ Publisher(k, e)
    BY <2>1, WhoPublishes DEF EventMoves
  <2>3. k = i /\ n = Len(chain[i]) + 1 /\ chain'[i][n] = e
    BY <1>6, <2>2, PublishAdds
  <2>4. EventFollows(i, n, e)'
    BY <1>0, <1>6, <2>2, <2>3, PublishFollows
  <2> QED BY <2>3, <2>4 DEF EventFollows
<1> QED BY <1>4, <1>5, <1>6

LEMMA RegistersStep ==
  ASSUME TypeOK, TypeOK', CurrentMatches, Backed, AfterInv, AfterSetting, Next
  PROVE  RegistersFollow'
<1> USE DEF index, handler, scheduled, callers
<1> SUFFICES ASSUME NEW j \in RegisterJobs, jobs'[j].st # "none", ~Loose(JobKey(j))
             PROVE  Coming'
  BY DEF RegistersFollow, Loose, AfterEntry, JobKey
<1>0. Coming => Coming'
  <2> 0 \in Nat
    OBVIOUS
  <2>1. PICK i : i \in Instances
    BY FlowRunAssumption
  <2> QED BY <2>1, FollowGrows
<1>1. CASE jobs[j].st # "none"
  BY <1>0, <1>1 DEF AfterInv, RegistersFollow
<1>2. CASE jobs[j].st = "none"
  <2>1. Enqueuer(j)
    BY <1>2, JobMoves
  <2>2. j # <<"step", Entry>>
    BY JobNames
  <2>3. ASSUME NEW i \in Instances, j \in local[i].pending
        PROVE  Coming'
    BY <1>0, <2>3 DEF AfterInv, PendingKept, Coming
  <2>4. ASSUME NEW k \in StepJobs, CompleteStep(k), j = <<"register-after", k[2]>>
        PROVE  Coming'
    <3>1. jobs[k].st = "active" /\ JobKey(j) = <<k[2], "after">>
      BY <2>4 DEF CompleteStep, JobKey
    <3>2. CASE k # <<"step", Entry>>
      BY <1>0, <3>1, <3>2 DEF AfterInv, StepsFree, Coming
    <3>3. CASE k = <<"step", Entry>>
      <4>1. JobKey(j) = AfterEntry /\ TimeoutAction[AfterEntry] = "continue"
        BY <3>1, <3>3 DEF Loose, AfterEntry
      <4>2. PICK i \in Instances : Instances = {i}
        BY <4>1 DEF AfterSetting
      <4>3. jobs[k].at = i
        BY <3>1, <4>2 DEF Backed, ActiveBacked
      <4>4. /\ chain[i] \in Seq(Records) /\ i \in Instances
            /\ chain'[i] = Append(chain[i], Record("step.completed", Entry, "none"))
        BY <2>4, <3>3, <4>2, <4>3 DEF TypeOK, CompleteStep, Publish
      <4>5. /\ Len(chain[i]) + 1 \in DOMAIN chain'[i]
            /\ EntryCompletes(chain'[i][Len(chain[i]) + 1])
        BY <4>4 DEF EntryCompletes, Record
      <4> QED BY <4>2, <4>5 DEF Coming
    <3> QED BY <3>2, <3>3
  <2> QED BY <2>1, <2>2, <2>3, <2>4 DEF Enqueuer
<1> QED BY <1>1, <1>2

LEMMA AwaitsStep ==
  ASSUME TypeOK, TypeOK', CurrentMatches, AfterInv, Next
  PROVE  AwaitsFollow'
<1> SUFFICES ASSUME NEW k \in AwaitKeys, ~Loose(k),
                    k \in timers' \/ inflight'[k] > 0 \/ entry'.awaiting[k] = "awaiting"
             PROVE  Coming'
  BY DEF AwaitsFollow, Loose, AfterEntry
<1>0. Coming => Coming'
  <2>1. PICK i : i \in Instances
    BY FlowRunAssumption
  <2> QED BY <2>1, FollowGrows
<1>1. CASE k \in timers \/ inflight[k] > 0 \/ entry.awaiting[k] = "awaiting"
  BY <1>0, <1>1 DEF AfterInv, AwaitsFollow
<1>2. ASSUME NEW j \in RegisterJobs, jobs[j].st # "none", JobKey(j) = k
      PROVE  Coming'
  BY <1>0, <1>2 DEF AfterInv, RegistersFollow
<1>3. ASSUME NEW i \in Instances, pc[i] = "register", k = <<cur[i].step, cur[i].arg>>
      PROVE  Coming'
  BY <1>0, <1>3 DEF AfterInv, HandlersFollow, Coming
<1> QED BY <1>1, <1>2, <1>3, TimerMoves, AwaitingMoves

LEMMA HandlersStep ==
  ASSUME TypeOK, TypeOK', CurrentMatches, AfterInv, Next
  PROVE  HandlersFollow'
<1> SUFFICES ASSUME NEW i \in Instances
             PROVE  /\ pc'[i] \in AwaitTypes \cup {"register"} =>
                         Loose(<<cur'[i].step, cur'[i].arg>>) \/ Opened'
                    /\ pc'[i] = "await.resolved" /\ <<cur'[i].step, cur'[i].arg>> = AfterEntry
                         => Released'
                    /\ pc'[i] \in Triggering => Opened'
  BY DEF HandlersFollow, Loose, AfterEntry, Triggering
<1>0. (Released => Released') /\ (Opened => Opened')
  BY StreamMoves, ReleaseGrows
<1>1. CASE Persist(i)
  <2> DEFINE e == chain[i][1]
             key == <<e.step, e.arg>>
  <2>1. /\ e \in Records /\ 1 \in DOMAIN chain[i] /\ pc'[i] = e.type /\ cur'[i] = e
        /\ \E n \in DOMAIN stream' : stream'[n] = e
    <3>1. cur'[i] = Head(chain[i]) /\ chain[i] \in Seq(Records) /\ chain[i] # <<>>
      BY <1>1 DEF Persist, TypeOK
    <3>2. cur'[i] = e
      BY <3>1
    <3> QED BY <1>1, <3>2, PersistMoves
  <2>2. EventFollows(i, 1, e) /\ (FollowsAt(i, 1) => Opened)
    <3>1. FollowsAt(i, 1) => Opened
      BY DEF FollowsAt, TypeOK
    <3> QED BY <2>1, <3>1 DEF AfterInv, ChainFollows
  <2> HIDE DEF e
  <2>3. e.type = "await.resolved" /\ key = AfterEntry => Released'
    <3> SUFFICES ASSUME e.type = "await.resolved", key = AfterEntry PROVE Released'
      OBVIOUS
    <3>1. e = Record("await.resolved", Entry, "after")
      <4>1. e.step = Entry /\ e.arg = "after"
        BY DEF AfterEntry
      <4> QED BY <2>1, <4>1 DEF Records, Record
    <3> QED BY <2>1, <3>1 DEF Released
  <2>4. e.type \in AwaitTypes => Loose(key) \/ Opened'
    BY <1>0, <2>2 DEF EventFollows
  <2>5. e.type = "step.completed" => Opened'
    <3>1. CASE e.type = "step.completed" /\ e.step = Entry
      <4>1. Entry \in CompletedSteps(stream)'
        BY <2>1, <3>1 DEF CompletedSteps, AllSteps
      <4> QED BY <4>1 DEF Opened
    <3>2. CASE e.type = "step.completed" /\ e.step # Entry
      BY <1>0, <2>2, <3>2 DEF EventFollows
    <3> QED BY <3>1, <3>2
  <2>6. e.type = "await.resolved" => Opened'
    <3>1. Loose(key) => key = AfterEntry
      BY DEF Loose
    <3> QED BY <2>3, <2>4, <3>1 DEF Opened, AwaitTypes
  <2>7. e.type \notin {"register", "trigger", "pending", "enqueue"}
    BY <2>1, RecordFields, StageTypes
  <2> QED BY <2>1, <2>3, <2>4, <2>5, <2>6, <2>7 DEF Triggering
<1>2. CASE ~Persist(i)
  <2>1. ASSUME pc'[i] \in AwaitTypes \cup {"register"}
        PROVE  /\ Loose(<<cur'[i].step, cur'[i].arg>>) \/ Opened'
               /\ pc'[i] = "await.resolved" /\ <<cur'[i].step, cur'[i].arg>> = AfterEntry
                    => Released'
    <3>1. /\ pc[i] \in AwaitTypes \cup {"register"} /\ cur'[i] = cur[i]
          /\ pc'[i] = "await.resolved" => pc[i] = "await.resolved"
      BY <1>2, <2>1, TriggerMoves
    <3> QED BY <1>0, <3>1 DEF AfterInv, HandlersFollow
  <2>2. ASSUME pc'[i] \in Triggering
        PROVE  Opened'
    <3>1. CASE pc[i] \in Triggering
      BY <1>0, <3>1 DEF AfterInv, HandlersFollow
    <3>2. CASE pc[i] = "await.timeout" /\ TimeoutAction[<<cur[i].step, cur[i].arg>>] = "continue"
      <4>1. ~Loose(<<cur[i].step, cur[i].arg>>)
        BY <3>2 DEF Loose
      <4> QED BY <1>0, <3>2, <4>1 DEF AfterInv, HandlersFollow, AwaitTypes
    <3> QED BY <1>2, <2>2, <3>1, <3>2, TriggerMoves
  <2> QED BY <2>1, <2>2 DEF AwaitTypes
<1> QED BY <1>1, <1>2

LEMMA StepsStep ==
  ASSUME TypeOK, TypeOK', CurrentMatches, Backed, AfterInv, AfterSetting, Next
  PROVE  StepsFree'
<1> SUFFICES ASSUME NEW j \in StepJobs, jobs'[j].st # "none"
             PROVE  /\ j # <<"step", Entry>> => Opened'
                    /\ j[2] \in Steps => Free(j[2])'
  BY DEF StepsFree
<1>0. (Opened => Opened') /\ \A s : Free(s) => Free(s)'
  BY StreamMoves, ReleaseGrows
<1>1. CASE jobs[j].st # "none"
  BY <1>0, <1>1 DEF AfterInv, StepsFree
<1>2. CASE jobs[j].st = "none"
  <2>1. Enqueuer(j)
    BY <1>2, JobMoves
  <2>2. CASE j = <<"step", Entry>>
    BY <2>2, EntryAssumption
  <2>3. ASSUME NEW i \in Instances, j \in local[i].pending
        PROVE  Opened' /\ Free(j[2])'
    BY <1>0, <2>3 DEF AfterInv, PendingKept
  <2>4. \A k \in StepJobs : j # <<"register-after", k[2]>>
    BY JobNames
  <2> QED BY <2>1, <2>2, <2>3, <2>4 DEF Enqueuer
<1> QED BY <1>1, <1>2

LEMMA PendingStep ==
  ASSUME TypeOK, TypeOK', CurrentMatches, Backed, AfterInv, AfterSetting, Next
  PROVE  PendingKept'
<1> SUFFICES ASSUME NEW i \in Instances, NEW j \in local'[i].pending
             PROVE  Opened' /\ Free(j[2])'
  BY DEF PendingKept
<1>0. (Opened => Opened') /\ \A s : Free(s) => Free(s)'
  BY StreamMoves, ReleaseGrows
<1>1. CASE j \in local[i].pending
  BY <1>0, <1>1 DEF AfterInv, PendingKept
<1>2. ASSUME ReadStream(i), NEW s \in PendingSteps(local[i].entry), j = JobOf(s, local[i].entry)
      PROVE  Opened' /\ Free(j[2])'
  <2>1. Opened
    BY <1>2 DEF AfterInv, HandlersFollow, ReadStream, Triggering
  <2>2. Free(s)
    BY <2>1, PendingFree DEF AfterInv, AfterSetting
  <2>3. j[2] = s
    BY <1>2 DEF JobOf
  <2> QED BY <1>0, <2>1, <2>2, <2>3
<1> QED BY <1>1, <1>2, PendingMoves

LEMMA StreamStep ==
  ASSUME TypeOK, TypeOK', CurrentMatches, Backed, AfterInv, Next
  PROVE  StreamFree' /\ ReleaseSeen'
<1>0. (Released => Released') /\ \A s : Free(s) => Free(s)'
  BY StreamMoves, ReleaseGrows
<1>1. ASSUME NEW n \in DOMAIN stream'
      PROVE  /\ stream'[n].type = "emit" => stream'[n].arg \in Flow.emits[stream'[n].step]
             /\ stream'[n].type = "step.started" /\ stream'[n].step \in Steps
                  => Free(stream[n].step)'
  <2>1. CASE n \in DOMAIN stream /\ stream'[n] = stream[n]
    BY <1>0, <2>1 DEF AfterInv, StreamFree
  <2>2. CASE stream'[n].type = "flow.stalled"
    BY <2>2
  <2>3. ASSUME NEW i \in Instances, stream'[n] = chain[i][1], 1 \in DOMAIN chain[i]
        PROVE  /\ stream'[n].type = "emit" => stream'[n].arg \in Flow.emits[stream'[n].step]
               /\ stream'[n].type = "step.started" /\ stream'[n].step \in Steps
                    => Free(stream[n].step)'
    <3>1. EventBacked(i, 1, chain[i][1]) /\ EventFollows(i, 1, chain[i][1])
      BY <2>3 DEF Backed, ChainBacked, AfterInv, ChainFollows
    <3> QED BY <1>0, <2>3, <3>1 DEF EventBacked, EventFollows
  <2> QED BY <2>1, <2>2, <2>3, EventsMove
<1>2. AfterEntry \in AwaitKeys
  BY DEF AfterEntry, AwaitKeys, AllSteps, Positions
<1>3. entry'.awaiting[AfterEntry] = "resolved" => Released'
  <2>1. ASSUME NEW i \in Instances, pc[i] = "await.resolved",
               AfterEntry = <<cur[i].step, cur[i].arg>>
        PROVE  Released'
    BY <1>0, <2>1 DEF AfterInv, HandlersFollow
  <2> QED BY <1>0, <1>2, <2>1, AwaitingMoves DEF AfterInv, ReleaseSeen
<1>4. ASSUME NEW i \in Instances, local'[i].entry.awaiting[AfterEntry] = "resolved"
      PROVE  Released'
  <2>1. NoEntry.awaiting[AfterEntry] = "none"
    BY DEF NoEntry, NoAwaits, AfterEntry, IndexKeys, AllSteps, Positions
  <2>2. local'[i].entry \in {local[i].entry, NoEntry, entry}
    BY <1>2, AwaitingMoves
  <2> QED BY <1>0, <1>4, <2>1, <2>2 DEF AfterInv, ReleaseSeen
<1> QED BY <1>1, <1>3, <1>4 DEF StreamFree, ReleaseSeen, AfterEntry

LEMMA AfterStep ==
  AfterSetting /\ TypeOK /\ TypeOK' /\ CurrentMatches /\ Backed /\ AfterInv /\ [Next]_vars
    => AfterInv'
<1> SUFFICES ASSUME AfterSetting, TypeOK, TypeOK', CurrentMatches, Backed, AfterInv, [Next]_vars
             PROVE  AfterInv'
  OBVIOUS
<1>1. CASE Next
  BY <1>1, ChainStep, RegistersStep, AwaitsStep, HandlersStep, StepsStep, PendingStep, StreamStep
     DEF AfterInv
<1>2. CASE UNCHANGED vars
  BY <1>2 DEF vars, AfterInv, ChainFollows, EventFollows, FollowsAt, RegistersFollow, Coming,
       AwaitsFollow, HandlersFollow, StepsFree, PendingKept, StreamFree, ReleaseSeen, Free,
       Released, Opened, Loose, HeldBack, AfterEntry, JobKey
<1> QED BY <1>1, <1>2

\* A step that waits for an event only the entry emits starts after the entry's
\* awaitAfter is resolved, and not already when the entry has emitted, in any flow whose
\* only awaitAfter is the entry's.  No event has a step's name: the prefix "step:" tells
\* a subscription to a step from one to an event.  If the await's timeout continues the
\* run there is one instance: another may handle the timeout before the entry's
\* completion, and would trigger what nothing holds back yet.
THEOREM AfterHolds ==
  ASSUME AwaitAfter \subseteq {Entry}, Events \cap AllSteps = {},
         TimeoutAction[<<Entry, "after">>] = "continue" => \E i : Instances = {i}
  PROVE  Spec => []AwaitAfterHolds
<1>1. AfterSetting
  BY DEF AfterSetting, AfterEntry
<1>2. AfterInv => AwaitAfterHolds
  <2> SUFFICES ASSUME AfterInv, NEW s \in Steps, InStream("step.started", s),
                      NEW e \in Flow.subs[s] \cap Events, NEW d \in AwaitAfter,
                      {t \in AllSteps : e \in Flow.emits[t]} = {d}
               PROVE  \E n \in DOMAIN stream : stream[n] = Record("await.resolved", d, "after")
    BY DEF AwaitAfterHolds
  <2>1. d = Entry
    OBVIOUS
  <2>2. Free(s)
    BY DEF AfterInv, StreamFree, InStream
  <2>3. HeldBack(s)
    BY <2>1 DEF HeldBack
  <2> QED BY <2>1, <2>2, <2>3 DEF Free, Released
<1> QED BY <1>1, <1>2, AfterInit, AfterStep, TypeCorrect, AlwaysBacked, PTL DEF Spec

-----------------------------------------------------------------------------
(* The counters of a run without awaits. *)

\* Nothing of an await is under way ..
NothingAwaited ==
  /\ timers = {}
  /\ \A k \in AwaitKeys : inflight[k] = 0 /\ entry.awaiting[k] # "awaiting"
  /\ \A j \in RegisterJobs : jobs[j].st = "none"
  /\ \A i \in Instances :
       /\ pc[i] \notin AwaitTypes \cup {"register"}
       /\ \A n \in DOMAIN chain[i] : chain[i][n].type \notin AwaitTypes

\* .. or of a cancellation.
NothingCanceled ==
  /\ canceling = "idle" /\ cancels = 0
  /\ \A i \in Instances : \A n \in DOMAIN chain[i] : chain[i][n].type # "flow.cancel"

\* flow.start is published once: it waits in a chain or is in the stream.
StartedOnce ==
  \A i \in Instances :
    /\ \A n \in DOMAIN chain[i] : chain[i][n].type = "flow.start" =>
         /\ start = "published" /\ ~HasEvent(stream, "flow.start")
         /\ \A m \in DOMAIN chain[i] : chain[i][m].type = "flow.start" => m = n
    /\ start = "published" =>
         \/ HasEvent(stream, "flow.start")
         \/ \E n \in DOMAIN chain[i] : chain[i][n].type = "flow.start"
    /\ HasEvent(stream, "flow.start") => start = "published"

\* The run is counted as running from its flow.start to its terminal event.
Counted ==
  /\ stats["awaiting"] = 0
  /\ stats["running"] = (IF HasEvent(stream, "flow.start") THEN 1 ELSE 0) - (IF Over THEN 1 ELSE 0)

CountsKept == NothingAwaited /\ NothingCanceled /\ StartedOnce /\ Counted

LEMMA CountsInit == Init => CountsKept
<1> SUFFICES ASSUME Init PROVE CountsKept
  OBVIOUS
<1>1. \A k \in AwaitKeys : entry.awaiting[k] = "none" /\ inflight[k] = 0
  BY DEF Init, NoEntry, NoAwaits, AwaitKeys, IndexKeys, Positions, AllSteps
<1>2. NothingAwaited /\ NothingCanceled
  BY <1>1, JobNames, NoneIsNoJob DEF Init, NothingAwaited, NothingCanceled, AwaitTypes
<1>3. StartedOnce /\ Counted
  BY DEF Init, StartedOnce, Counted, HasEvent, Over, Counters
<1> QED BY <1>2, <1>3 DEF CountsKept

\* Without cancellations none gets under way ..
LEMMA CanceledStep ==
  ASSUME MaxCancels = 0, TypeOK, CurrentMatches, NothingCanceled, Next
  PROVE  NothingCanceled'
<1> USE DEF index, handler, scheduled, callers
<1>1. canceling' = "idle" /\ cancels' = 0
  <2>1. ~ReadPreviousStatus /\ \A i \in Instances : ~PublishCancel(i)
    BY DEF NothingCanceled, ReadPreviousStatus, PublishCancel
  <2>2. UNCHANGED <<canceling, cancels>>
    BY <2>1
       DEF Next, Handle, RunStep, RunRegister, StartFlow, PublishStart, ClearTracker,
           Persist, OnTerminal, OnFlowStart, OnFlowCancel, UnscheduleCanceled, OnStepEvent,
           OnEmit, OnAwaitRegistered, SetAwaiting, OnAwaitResolved, OnAwaitTimeout,
           ReadIndex, ReadStream, EnqueuePending, EndTrigger, AnalyzeStream, DecideStatus,
           WriteStatus, StartStep, EmitEvent, CompleteStep, FailStep, RemoveJob,
           RegisterAwait, FinishRegister, TimerFires, ResolveWebhook, CheckWebhook,
           StallTimeout, MarkStalled
  <2> QED BY <2>2 DEF NothingCanceled
<1>2. ASSUME NEW i \in Instances, NEW n \in DOMAIN chain'[i]
      PROVE  chain'[i][n].type # "flow.cancel"
  <2>1. ASSUME NEW e, Publisher(i, e)
        PROVE  e.type # "flow.cancel"
    BY <2>1 DEF NothingCanceled, Publisher, PublishCancel
  <2> QED BY <2>1, EventsMove DEF NothingCanceled
<1> QED BY <1>1, <1>2 DEF NothingCanceled

\* .. and without awaits none does.
LEMMA AwaitedStep ==
  ASSUME AwaitBefore = {}, AwaitAfter = {}, TypeOK, CurrentMatches, LocalBacked, NothingAwaited,
         Next
  PROVE  NothingAwaited'
<1>2. ASSUME NEW k \in AwaitKeys
      PROVE  k \notin timers' /\ inflight'[k] = 0 /\ entry'.awaiting[k] # "awaiting"
  <2>1. k \notin timers' /\ ~(inflight'[k] > 0)
    BY TimerMoves DEF NothingAwaited
  <2>2. inflight'[k] \in Nat
    BY TypeStep DEF TypeOK
  <2>3. entry'.awaiting[k] # "awaiting"
    BY AwaitingMoves DEF NothingAwaited
  <2> QED BY <2>1, <2>2, <2>3
<1>3. timers' = {}
  <2>1. timers' \subseteq AwaitKeys
    BY TypeStep DEF TypeOK
  <2> QED BY <1>2, <2>1
<1>4. ASSUME NEW j \in RegisterJobs, jobs'[j].st # "none"
      PROVE  FALSE
  <2>1. Enqueuer(j) /\ jobs[j].st = "none"
    BY <1>4, JobMoves DEF NothingAwaited
  <2>2. j # <<"step", Entry>>
    BY JobNames
  <2>3. ASSUME NEW i \in Instances, j \in local[i].pending
        PROVE  FALSE
    BY <2>3, JobNames DEF LocalBacked, JobBacked, RegisterJobs
  <2>4. ASSUME NEW k \in StepJobs, CompleteStep(k), j = <<"register-after", k[2]>>
        PROVE  FALSE
    <3>1. k # j /\ j \in JobIds /\ jobs \in [JobIds -> Jobs]
      BY JobNames DEF TypeOK
    <3>2. jobs'[j] = jobs[j]
      BY <2>4, <3>1 DEF CompleteStep
    <3> QED BY <1>4, <2>1, <3>2
  <2> QED BY <2>1, <2>2, <2>3, <2>4 DEF Enqueuer
<1>5. ASSUME NEW i \in Instances
      PROVE  pc'[i] \notin AwaitTypes \cup {"register"}
  <2>1. CASE Persist(i)
    <3>1. pc'[i] = chain[i][1].type /\ 1 \in DOMAIN chain[i] /\ chain[i][1] \in Records
      BY <2>1, PersistMoves
    <3> QED BY <3>1, RecordFields, StageTypes DEF NothingAwaited
  <2>2. CASE ~Persist(i)
    BY <2>2, TriggerMoves DEF NothingAwaited
  <2> QED BY <2>1, <2>2
<1>6. ASSUME NEW i \in Instances, NEW n \in DOMAIN chain'[i]
      PROVE  chain'[i][n].type \notin AwaitTypes
  <2>1. ASSUME NEW e, Publisher(i, e)
        PROVE  e.type \notin AwaitTypes
    <3>1. \A j \in RegisterJobs : ~RunRegister(j)
      BY DEF NothingAwaited, RunRegister, RegisterAwait, FinishRegister
    <3>2. \A k \in AwaitKeys : ~TimerFires(i, k) /\ ~ResolveWebhook(i, k)
      BY DEF NothingAwaited, TimerFires, ResolveWebhook
    <3> QED BY <2>1, <3>1, <3>2 DEF Publisher
  <2> QED BY <2>1, EventsMove DEF NothingAwaited
<1> QED BY <1>2, <1>3, <1>4, <1>5, <1>6 DEF NothingAwaited

\* What the persistence of an event, and nothing else, does to the counters.
LEMMA StatsMove ==
  ASSUME TypeOK, CurrentMatches, Next, \A i \in Instances : ~Persist(i)
  PROVE  /\ UNCHANGED stats
         /\ \A t : t # "flow.stalled" => (HasEvent(stream, t)' <=> HasEvent(stream, t))
<1> USE DEF index, handler, scheduled, callers
<1>1. UNCHANGED stats
  BY DEF Next, Handle, RunStep, RunRegister, StartFlow, PublishStart, ClearTracker,
         PublishCancel, OnTerminal, OnFlowStart, OnFlowCancel, UnscheduleCanceled,
         OnStepEvent, OnEmit, OnAwaitRegistered, SetAwaiting, OnAwaitResolved,
         OnAwaitTimeout, ReadIndex, ReadStream, EnqueuePending, EndTrigger, AnalyzeStream,
         DecideStatus, WriteStatus, StartStep, EmitEvent, CompleteStep, FailStep, RemoveJob,
         RegisterAwait, FinishRegister, TimerFires, ResolveWebhook, CheckWebhook,
         ReadPreviousStatus, StallTimeout, MarkStalled
<1>2. \A n \in DOMAIN stream : n \in DOMAIN stream' /\ stream'[n] = stream[n]
  BY StallMoves, WhoPublishes DEF EventMoves
<1>3. \A n \in DOMAIN stream' : n \in DOMAIN stream \/ stream'[n].type = "flow.stalled"
  BY StallMoves, WhoPublishes DEF EventMoves
<1> QED BY <1>1, <1>2, <1>3 DEF HasEvent

LEMMA StartedStep ==
  ASSUME NEW i, Instances = {i}, TypeOK, CurrentMatches, StartedOnce, Next
  PROVE  StartedOnce'
<1> DEFINE Starts(e) == e.type = "flow.start"
           Began == HasEvent(stream, "flow.start")
<1>0. i \in Instances /\ chain[i] \in Seq(Records) /\ chain' \in [Instances -> Seq(Records)]
  BY TypeStep DEF TypeOK
<1>g. /\ \A n \in DOMAIN chain[i] : Starts(chain[i][n]) =>
           /\ start = "published" /\ ~Began
           /\ \A m \in DOMAIN chain[i] : Starts(chain[i][m]) => m = n
      /\ start = "published" => Began \/ \E n \in DOMAIN chain[i] : Starts(chain[i][n])
      /\ Began => start = "published"
  BY <1>0 DEF StartedOnce
<1>h. ASSUME /\ \A n \in DOMAIN chain'[i] : Starts(chain'[i][n]) =>
                  /\ start' = "published" /\ ~Began'
                  /\ \A m \in DOMAIN chain'[i] : Starts(chain'[i][m]) => m = n
             /\ start' = "published" => Began' \/ \E n \in DOMAIN chain'[i] : Starts(chain'[i][n])
             /\ Began' => start' = "published"
      PROVE  StartedOnce'
  BY <1>h DEF StartedOnce
<1>1. CASE Persist(i)
  <2> DEFINE e == chain[i][1]
  <2>0. chain'[i] = Tail(chain[i]) /\ chain[i] # <<>> /\ chain'[i] \in Seq(Records) /\ UNCHANGED start
    BY <1>0, <1>1 DEF Persist, callers, TypeOK
  <2>1. Began' <=> Began \/ Starts(e)
    BY <1>0, <1>1, PersistMoves DEF HasEvent
  <2>2. \A n \in DOMAIN chain'[i] : n + 1 \in DOMAIN chain[i] /\ chain'[i][n] = chain[i][n + 1]
    BY <1>0, <1>1, PersistMoves
  <2>3. \A n \in DOMAIN chain[i] : n # 1 => n - 1 \in DOMAIN chain'[i] /\ chain'[i][n - 1] = chain[i][n]
    BY <1>0, <2>0
  <2>4. 1 \in DOMAIN chain[i]
    BY <1>0, <1>1, PersistMoves
  <2>5. ASSUME NEW n \in DOMAIN chain'[i], Starts(chain'[i][n])
        PROVE  /\ start' = "published" /\ ~Began'
               /\ \A m \in DOMAIN chain'[i] : Starts(chain'[i][m]) => m = n
    <3>1. n + 1 \in DOMAIN chain[i] /\ Starts(chain[i][n + 1]) /\ n + 1 # 1
      BY <2>0, <2>2, <2>5
    <3>2. start = "published" /\ ~Began /\ ~Starts(e)
      BY <1>g, <2>4, <3>1
    <3>3. \A m \in DOMAIN chain'[i] : Starts(chain'[i][m]) => m + 1 = n + 1
      BY <1>g, <2>2, <3>1
    <3> QED BY <2>0, <2>1, <3>2, <3>3
  <2>6. start' = "published" => Began' \/ \E n \in DOMAIN chain'[i] : Starts(chain'[i][n])
    BY <1>g, <2>0, <2>1, <2>3
  <2>7. Began' => start' = "published"
    BY <1>g, <2>0, <2>1, <2>4
  <2> HIDE DEF Starts, Began
  <2> QED BY <1>h, <2>5, <2>6, <2>7
<1>2. CASE ~Persist(i)
  <2>1. Began' <=> Began
    BY <1>0, <1>2, StatsMove
  <2>2. CASE UNCHANGED chain /\ UNCHANGED start
    BY <1>g, <1>h, <2>1, <2>2
  <2>3. CASE ~UNCHANGED start /\ \A k \in Instances : ~PublishStart(k)
    <3>1. StartFlow
      BY <2>3 DEF Next, index, handler, scheduled, callers, Handle, RunStep, RunRegister,
         PublishStart, ClearTracker, PublishCancel, Persist, OnTerminal, OnFlowStart,
         OnFlowCancel, UnscheduleCanceled, OnStepEvent, OnEmit, OnAwaitRegistered,
         SetAwaiting, OnAwaitResolved, OnAwaitTimeout, ReadIndex, ReadStream,
         EnqueuePending, EndTrigger, AnalyzeStream, DecideStatus, WriteStatus, StartStep,
         EmitEvent, CompleteStep, FailStep, RemoveJob, RegisterAwait, FinishRegister,
         TimerFires, ResolveWebhook, CheckWebhook, ReadPreviousStatus, StallTimeout,
         MarkStalled
    <3>2. UNCHANGED chain /\ start = "no" /\ start' = "enqueued"
      BY <3>1 DEF StartFlow, handler
    <3> QED BY <1>g, <1>h, <2>1, <3>2
  <2>4. CASE PublishStart(i)
    <3> DEFINE e == Record("flow.start", NoStep, "none")
    <3>1. e \in Records /\ Starts(e) /\ Publish(i, e) /\ start = "enqueued" /\ start' = "published"
      BY <2>4, RecordTypes DEF PublishStart, Record
    <3>2. \A n \in DOMAIN chain[i] : ~Starts(chain[i][n])
      BY <1>g, <3>1
    <3>3. ~Began
      BY <1>g, <3>1
    <3>4. chain'[i] = Append(chain[i], e)
      BY <1>0, <3>1 DEF TypeOK, Publish
    <3> HIDE DEF e
    <3>5. /\ Len(chain[i]) + 1 \in DOMAIN chain'[i] /\ chain'[i][Len(chain[i]) + 1] = e
          /\ \A n \in DOMAIN chain'[i] :
               \/ n = Len(chain[i]) + 1
               \/ n \in DOMAIN chain[i] /\ chain'[i][n] = chain[i][n]
      BY <1>0, <3>1, <3>4
    <3> QED BY <1>h, <2>1, <3>1, <3>2, <3>3, <3>5
  <2>5. CASE UNCHANGED start /\ ~UNCHANGED chain
    <3>1. PICK e \in Records : Publish(i, e) /\ Publisher(i, e)
      BY <1>0, <1>2, <2>5, WhoPublishes DEF EventMoves
    <3>2. ~Starts(e)
      BY <2>5, <3>1 DEF Publisher, PublishStart
    <3>3. \A n \in DOMAIN chain[i] : n \in DOMAIN chain'[i] /\ chain'[i][n] = chain[i][n]
      BY <1>0, <3>1, PublishAdds
    <3>4. \A n \in DOMAIN chain'[i] : Starts(chain'[i][n]) => n \in DOMAIN chain[i] /\ chain'[i][n] = chain[i][n]
      BY <1>0, <3>1, <3>2, PublishAdds
    <3> QED BY <1>g, <1>h, <2>1, <2>5, <3>3, <3>4
  <2> QED BY <1>0, <2>2, <2>3, <2>4, <2>5
<1> QED BY <1>1, <1>2

LEMMA CountedStep ==
  ASSUME NEW i, Instances = {i}, TypeOK, CurrentMatches, VerdictGuarded, CountsKept, Next
  PROVE  Counted'
<1> DEFINE Began == HasEvent(stream, "flow.start")
<1>0. i \in Instances /\ chain[i] \in Seq(Records) /\ stats \in [Counters -> Int]
  BY DEF TypeOK
<1>1. CASE Persist(i)
  <2> DEFINE e == chain[i][1]
  <2>0. /\ 1 \in DOMAIN chain[i] /\ e \in Records /\ e = Head(chain[i])
        /\ stats' = CountEvent(e)
    <3>1. chain[i] # <<>> /\ stats' = CountEvent(Head(chain[i]))
      BY <1>1 DEF Persist
    <3>2. e = Head(chain[i]) /\ 1 \in DOMAIN chain[i] /\ e \in Records
      BY <1>0, <3>1
    <3> QED BY <3>1, <3>2
  <2>1. Began' <=> Began \/ e.type = "flow.start"
    BY <1>0, <1>1, PersistMoves DEF HasEvent
  <2>2. Over' <=> Over \/ e.type \in TerminalTypes
    BY <1>0, <1>1, PersistMoves DEF Over, HasEvent
  <2>3. /\ e.type \notin AwaitTypes \cup {"flow.cancel"}
        /\ e.type = "flow.start" => ~Began
        /\ e.type \in TerminalTypes => ~Over
    BY <1>0, <2>0 DEF CountsKept, NothingAwaited, NothingCanceled, StartedOnce, VerdictGuarded
  <2> HIDE DEF e
  <2>4. CASE e.type = "flow.start"
    <3>1. stats'["running"] = stats["running"] + 1 /\ stats'["awaiting"] = stats["awaiting"]
      BY <1>0, <2>0, <2>4 DEF CountEvent, Add, Counters
    <3>2. e.type \notin TerminalTypes
      BY <2>4 DEF TerminalTypes
    <3> QED BY <2>1, <2>2, <2>3, <2>4, <3>1, <3>2 DEF CountsKept, Counted
  <2>5. CASE e.type \in TerminalTypes
    <3>1. stats'["running"] = stats["running"] - 1 /\ stats'["awaiting"] = stats["awaiting"]
      BY <1>0, <2>0, <2>5 DEF CountEvent, Move, Counters, TerminalTypes
    <3>2. e.type # "flow.start"
      BY <2>5 DEF TerminalTypes
    <3> QED BY <2>1, <2>2, <2>3, <2>5, <3>1, <3>2 DEF CountsKept, Counted
  <2>6. CASE e.type # "flow.start" /\ e.type \notin TerminalTypes
    <3>1. stats' = stats
      BY <2>0, <2>3, <2>6 DEF CountEvent, AwaitTypes, TerminalTypes
    <3> QED BY <2>1, <2>2, <2>6, <3>1 DEF CountsKept, Counted
  <2> QED BY <2>4, <2>5, <2>6
<1>2. CASE ~Persist(i)
  <2>1. UNCHANGED stats /\ (Began' <=> Began) /\ (Over' <=> Over)
    BY <1>0, <1>2, StatsMove DEF Over, TerminalTypes
  <2> QED BY <2>1 DEF CountsKept, Counted
<1> QED BY <1>1, <1>2

\* With one instance, no awaits and no cancellation the counters have let go of a run
\* that is over and has nothing left to happen, whatever its flow and its failures.
THEOREM CountersSettle ==
  ASSUME NEW i, Instances = {i}, AwaitBefore = {}, AwaitAfter = {}, MaxCancels = 0
  PROVE  Spec => []StatsSettle
<1>1. TypeOK /\ CurrentMatches /\ LocalBacked /\ VerdictGuarded /\ CountsKept /\ [Next]_vars
        => CountsKept'
  <2>1. CASE UNCHANGED vars
    BY <2>1 DEF vars, CountsKept, NothingAwaited, NothingCanceled, StartedOnce, Counted, HasEvent,
         Over
  <2> QED BY <2>1, AwaitedStep, CanceledStep, StartedStep, CountedStep DEF CountsKept
<1>2. CountsKept => StatsSettle
  <2> SUFFICES ASSUME CountsKept, Quiescent, Over
               PROVE  stats["running"] = 0 /\ stats["awaiting"] = 0
    BY DEF StatsSettle
  <2>1. i \in Instances /\ chain[i] = <<>> /\ start = "published"
    BY DEF Quiescent
  <2>2. HasEvent(stream, "flow.start")
    BY <2>1 DEF CountsKept, StartedOnce
  <2> QED BY <2>2 DEF CountsKept, Counted
<1>3. VerdictGuarded /\ OneTerminalEvent /\ TypeOK /\ CurrentMatches /\ [Next]_vars
        => VerdictGuarded' /\ OneTerminalEvent'
  BY VerdictStep
<1>4. Backed => LocalBacked
  BY DEF Backed
<1> QED
  BY <1>1, <1>2, <1>3, <1>4, CountsInit, VerdictInit, TypeCorrect, AlwaysBacked, PTL DEF Spec

-----------------------------------------------------------------------------
(* No run is left between states, with one instance and no awaits: what the   *)
(* jobs, the index and the handler know is what the events on their way tell, *)
(* so the handler of the last event that mattered has triggered every step    *)
(* that could run, and has found the outcome.                                 *)

\* The events that jobs report, by what they tell.
Reports == {"emit", "step.completed", "step.failed", "step.retry"}
Starts == {r \in Records : r.type = "flow.start"}
Emissions(x) == {r \in Records : r.type = "emit" /\ r.arg = x}
Told(t, s) == {r \in Records : r.type = t /\ r.step = s}
Terminals == {r \in Records : r.type \in TerminalTypes}

\* An event of S is in the stream, or ahead of the n-th that waits at instance i ..
Ahead(i, n, S) ==
  \/ \E m \in DOMAIN stream : stream[m] \in S
  \/ \E m \in DOMAIN chain[i] : m < n /\ chain[i][m] \in S

\* .. or on its way into the stream.
OnWay(i, S) == Ahead(i, Len(chain[i]) + 1, S)

\* The reports of a step come after flow.start, its completion after all it emits, and
\* none of its retries after its failure.
EventInOrder(i, n, e) ==
  /\ e.type \in Reports => Ahead(i, n, Starts)
  /\ e.type = "step.completed" => \A x \in Flow.emits[e.step] : Ahead(i, n, Emissions(x))
  /\ e.type = "step.retry" => ~Ahead(i, n, Told("step.failed", e.step))

ChainInOrder(i) == \A n \in DOMAIN chain[i] : EventInOrder(i, n, chain[i][n])

StreamInOrder ==
  \A n \in DOMAIN stream :
    /\ stream[n].type \in Reports => HasEvent(stream, "flow.start")
    /\ stream[n].type = "step.completed" => \A x \in Flow.emits[stream[n].step] : IsEmitted(x)
    /\ stream[n].type = "step.failed" =>
         \A m \in DOMAIN stream :
           stream[m].type = "step.retry" /\ stream[m].step = stream[n].step => m < n

\* The job of a step is as far as its reports tell.
JobTold(i, s) ==
  LET j == <<"step", s>>
  IN  /\ jobs[<<"resumed", s>>].st = "none"
      /\ jobs[j].st = "done" <=> OnWay(i, Told("step.completed", s))
      /\ jobs[j].st = "failed" <=> OnWay(i, Told("step.failed", s))
      /\ jobs[j].st = "failed" => s \in Faulty
      /\ jobs[j].st = "active" => \A x \in Flow.emits[s] \ jobs[j].left : OnWay(i, Emissions(x))
      /\ jobs[j].st # "none" /\ s # Entry => OnWay(i, Starts)

JobsTold(i) ==
  /\ \A s \in AllSteps : JobTold(i, s)
  /\ start # "no" => jobs[<<"step", Entry>>].st # "none"

\* The index entry is there before anything is reported, and holds every emit.
IndexKept(i) ==
  /\ entry.awaiting = NoAwaits
  /\ HasEvent(stream, "flow.start") => entry.status # "none" \/ pc[i] = "flow.start"
  /\ entry.status # "none" \/ stalling # "idle" => HasEvent(stream, "flow.start")
  /\ entry.status = "canceled" => HasEvent(stream, "flow.cancel")
  /\ \A x \in EmittedEvents :
       /\ pc[i] # "flow.start"
       /\ x \in entry.emitted \/ (pc[i] = "emit" /\ cur[i].arg = x)

\* The stages between the completion of a step and the analysis.
Feeding == {"trigger", "pending", "enqueue"}

\* What a handler has read is what there is, as far as it matters.
HandlerKept(i) ==
  /\ pc[i] \in Feeding \cup {"flow.start", "analyze", "decide", "write"} \cup Reports
       => HasEvent(stream, "flow.start")
  /\ pc[i] = "flow.cancel" => HasEvent(stream, "flow.cancel")
  /\ pc[i] \in Feeding => cur[i].type = "step.completed"
  /\ pc[i] = "pending" =>
       /\ local[i].entry.emitted = entry.emitted
       /\ local[i].entry.status # "none" /\ local[i].entry.awaiting = NoAwaits
  /\ \A j \in local[i].pending : j[1] = "step"
  /\ pc[i] \in {"decide", "write"} =>
       /\ local[i].verdict # "none"
       /\ local[i].verdict = "canceled" => HasEvent(stream, "flow.cancel")
       /\ local[i].seen => Over
  /\ tracker[i] # "off" => OnWay(i, Terminals)

\* All that step s waits for comes of steps that have completed.
Fed(s) ==
  \A x \in Flow.subs[s] :
    \E c \in CompletedSteps(stream) : x = c \/ x \in Flow.emits[c]

\* A step that is fed has its job, unless the handler that gives it one is under way.
StepsTriggered(i) ==
  \A s \in Steps : Fed(s) =>
    \/ jobs[<<"step", s>>].st # "none"
    \/ HasEvent(stream, "flow.cancel")
    \/ pc[i] \in {"step.completed", "trigger", "pending"}
    \/ pc[i] = "enqueue" /\ <<"step", s>> \in local[i].pending

\* A stream that tells the outcome has it published, or a handler about to.
RunDecided(i) ==
  AnalyzeFlowCompletion(Flow, stream) \in {"completed", "failed"} =>
    \/ OnWay(i, Terminals)
    \/ HasEvent(stream, "flow.cancel")
    \/ pc[i] \in Feeding \cup {"step.completed", "step.failed", "analyze"}
    \/ pc[i] \in {"decide", "write"} /\ local[i].verdict \in {"completed", "failed"}

LimboInv(i) ==
  /\ NothingAwaited /\ StartedOnce
  /\ ChainInOrder(i) /\ StreamInOrder /\ JobsTold(i)
  /\ IndexKept(i) /\ HandlerKept(i) /\ StepsTriggered(i) /\ RunDecided(i)

LEMMA AheadMoves ==
  ASSUME TypeOK, TypeOK', CurrentMatches, Next, NEW i, Instances = {i},
         NEW S, S \subseteq Records, \A r \in S : r.type # "flow.stalled"
  PROVE  /\ ~Persist(i) => \A n \in Nat : n <= Len(chain[i]) + 1 =>
              (Ahead(i, n, S)' <=> Ahead(i, n, S))
         /\ Persist(i) => \A n \in Nat : n >= 1 => (Ahead(i, n, S)' <=> Ahead(i, n + 1, S))
         /\ OnWay(i, S) => OnWay(i, S)'
         /\ OnWay(i, S)' => OnWay(i, S) \/ \E e \in S : Publisher(i, e)
<1>0. /\ i \in Instances /\ chain[i] \in Seq(Records) /\ chain'[i] \in Seq(Records)
      /\ stream \in Seq(Records) /\ stream' \in Seq(Records)
  BY DEF TypeOK
<1>1. CASE Persist(i)
  <2>0. chain'[i] = Tail(chain[i]) /\ chain[i] # <<>>
    BY <1>0, <1>1 DEF Persist, TypeOK
  <2>1. /\ \A m \in DOMAIN chain'[i] : m + 1 \in DOMAIN chain[i] /\ chain'[i][m] = chain[i][m + 1]
        /\ \A m \in DOMAIN chain[i] : m # 1 => m - 1 \in DOMAIN chain'[i] /\ chain'[i][m - 1] = chain[i][m]
        /\ 1 \in DOMAIN chain[i] /\ Len(chain[i]) = Len(chain'[i]) + 1
        /\ DOMAIN chain[i] \subseteq Nat /\ DOMAIN chain'[i] \subseteq Nat
    BY <1>0, <2>0
  <2>2. (\E m \in DOMAIN stream' : stream'[m] \in S) <=>
          (\E m \in DOMAIN stream : stream[m] \in S) \/ chain[i][1] \in S
    BY <1>0, <1>1, PersistMoves
  <2>3. ASSUME NEW n \in Nat, n >= 1
        PROVE  Ahead(i, n, S)' <=> Ahead(i, n + 1, S)
    <3>1. ASSUME Ahead(i, n, S)'
          PROVE  Ahead(i, n + 1, S)
      <4>1. CASE \E m \in DOMAIN stream' : stream'[m] \in S
        BY <2>1, <2>2, <2>3, <4>1 DEF Ahead
      <4>2. CASE \E m \in DOMAIN chain'[i] : m < n /\ chain'[i][m] \in S
        <5>1. PICK m \in DOMAIN chain'[i] : m < n /\ chain'[i][m] \in S
          BY <4>2
        <5>2. m + 1 \in DOMAIN chain[i] /\ m + 1 < n + 1 /\ chain[i][m + 1] \in S
          BY <2>1, <5>1
        <5> QED BY <5>2 DEF Ahead
      <4> QED BY <3>1, <4>1, <4>2 DEF Ahead
    <3>2. ASSUME Ahead(i, n + 1, S)
          PROVE  Ahead(i, n, S)'
      <4>1. CASE \E m \in DOMAIN stream : stream[m] \in S
        BY <2>2, <4>1 DEF Ahead
      <4>2. CASE \E m \in DOMAIN chain[i] : m < n + 1 /\ chain[i][m] \in S
        <5>1. PICK m \in DOMAIN chain[i] : m < n + 1 /\ chain[i][m] \in S
          BY <4>2
        <5>2. CASE m = 1
          BY <2>2, <5>1, <5>2 DEF Ahead
        <5>3. CASE m # 1
          <6>1. m - 1 \in DOMAIN chain'[i] /\ m - 1 < n /\ chain'[i][m - 1] \in S
            BY <2>1, <5>1, <5>3
          <6> QED BY <6>1 DEF Ahead
        <5> QED BY <5>2, <5>3
      <4> QED BY <3>2, <4>1, <4>2 DEF Ahead
    <3> QED BY <3>1, <3>2
  <2>4. OnWay(i, S)' <=> OnWay(i, S)
    <3>1. Len(chain'[i]) + 1 \in Nat /\ Len(chain'[i]) + 1 >= 1
      BY <1>0
    <3>2. Ahead(i, Len(chain[i]) + 1, S)' <=> Ahead(i, (Len(chain'[i]) + 1) + 1, S)
      BY <2>3, <3>1 DEF Ahead
    <3> QED BY <2>1, <3>2 DEF OnWay
  <2> QED BY <1>1, <2>3, <2>4
<1>2. CASE ~Persist(i)
  <2>1. \A m \in DOMAIN chain[i] : m \in DOMAIN chain'[i] /\ chain'[i][m] = chain[i][m]
    BY <1>0, <1>2, ChainMoves
  <2>2. \A m \in DOMAIN chain'[i] :
          \/ m \in DOMAIN chain[i] /\ chain'[i][m] = chain[i][m]
          \/ chain'[i][m] \in Records /\ Publisher(i, chain'[i][m])
    BY <1>0, <1>2, EventsMove
  <2>3. (\E m \in DOMAIN stream' : stream'[m] \in S) <=> (\E m \in DOMAIN stream : stream[m] \in S)
    <3>1. \A m \in DOMAIN stream : m \in DOMAIN stream' /\ stream'[m] = stream[m]
      BY <1>0, <1>2, StallMoves, WhoPublishes DEF EventMoves
    <3>2. \A m \in DOMAIN stream' :
            \/ m \in DOMAIN stream /\ stream'[m] = stream[m]
            \/ stream'[m].type = "flow.stalled"
      BY <1>0, <1>2, EventsMove
    <3> QED BY <3>1, <3>2
  <2>4. ASSUME NEW n \in Nat, n <= Len(chain[i]) + 1
        PROVE  Ahead(i, n, S)' <=> Ahead(i, n, S)
    <3>1. \A m \in DOMAIN chain'[i] : m < n => m \in DOMAIN chain[i]
      BY <1>0, <2>4
    <3> QED BY <2>1, <2>3, <3>1 DEF Ahead
  <2>5. ASSUME OnWay(i, S)
        PROVE  OnWay(i, S)'
    <3>1. \A m \in DOMAIN chain'[i] : m < Len(chain'[i]) + 1
      BY <1>0
    <3> QED BY <2>1, <2>3, <2>5, <3>1 DEF OnWay, Ahead
  <2>6. ASSUME OnWay(i, S)'
        PROVE  OnWay(i, S) \/ \E e \in S : Publisher(i, e)
    <3>1. \A m \in DOMAIN chain[i] : m < Len(chain[i]) + 1
      BY <1>0
    <3>2. CASE \E m \in DOMAIN stream' : stream'[m] \in S
      BY <2>3, <3>2 DEF OnWay, Ahead
    <3>3. CASE \E m \in DOMAIN chain'[i] : chain'[i][m] \in S
      BY <2>2, <3>1, <3>3 DEF OnWay, Ahead
    <3> QED BY <2>6, <3>2, <3>3 DEF OnWay, Ahead
  <2> QED BY <1>2, <2>4, <2>5, <2>6
<1> QED BY <1>1, <1>2

\* An event that is published is on its way.
LEMMA PublishOnWay ==
  ASSUME TypeOK, TypeOK', NEW i \in Instances, NEW e \in Records, Publish(i, e), NEW S, e \in S
  PROVE  OnWay(i, S)'
<1>1. chain[i] \in Seq(Records) /\ chain'[i] = Append(chain[i], e)
  BY DEF TypeOK, Publish
<1>2. /\ Len(chain[i]) + 1 \in DOMAIN chain'[i] /\ chain'[i][Len(chain[i]) + 1] = e
      /\ Len(chain[i]) + 1 < Len(chain'[i]) + 1
  BY <1>1
<1> QED BY <1>2 DEF OnWay, Ahead

\* What persisting leaves, and where a new event of a chain comes from.
LEMMA ChainAdds ==
  ASSUME TypeOK, CurrentMatches, Next, NEW i, Instances = {i}, ~Persist(i)
  PROVE  \A n \in DOMAIN chain'[i] :
           \/ n \in DOMAIN chain[i] /\ chain'[i][n] = chain[i][n]
           \/ n = Len(chain[i]) + 1 /\ chain'[i][n] \in Records /\ Publisher(i, chain'[i][n])
<1>1. ASSUME NEW k \in Instances, NEW e \in Records, Publish(k, e), Publisher(k, e)
      PROVE  \A n \in DOMAIN chain'[i] :
               \/ n \in DOMAIN chain[i] /\ chain'[i][n] = chain[i][n]
               \/ n = Len(chain[i]) + 1 /\ chain'[i][n] = e /\ k = i
  BY <1>1, PublishAdds
<1> QED BY <1>1, WhoPublishes DEF EventMoves

\* A report comes of the only job of its step, which is active, once flow.start is
\* on its way.
LEMMA ReportedBy ==
  ASSUME NEW i, Instances = {i}, EntryAfter # "any", TypeOK, NothingAwaited, StartedOnce,
         JobsTold(i), IndexKept(i), NEW e \in Records, e.type \in Reports, Publisher(i, e)
  PROVE  LET j == <<"step", e.step>>
         IN  /\ e.step \in AllSteps /\ j \in StepJobs
             /\ jobs[j].st = "active" /\ OnWay(i, Starts)
             /\ e.type = "emit" => EmitEvent(j, e.arg) /\ e.arg \in Events
             /\ e.type = "step.completed" => CompleteStep(j)
             /\ e.type \in {"step.failed", "step.retry"} =>
                  /\ FailStep(j)
                  /\ e.type = "step.retry" <=> jobs[j].att + 1 < MaxAttempts
<1> DEFINE s == e.step
           j == <<"step", s>>
<1>1. s \in AllSteps /\ (e.type = "emit" => e.arg \in Events)
  BY RecordFields DEF Reports, StepTypes
<1>2. \A k \in StepJobs : k[2] = s /\ jobs[k].st = "active" => k = j
  BY <1>1, JobNames, NoneIsNoJob DEF JobsTold, JobTold
<1>3. j \in StepJobs
  BY <1>1 DEF StepJobs
<1>4. ~OnAwaitTimeout(i)
  BY DEF NothingAwaited, OnAwaitTimeout, AwaitTypes
<1>5. /\ e.type = "emit" => EmitEvent(j, e.arg)
      /\ e.type = "step.completed" => CompleteStep(j)
      /\ e.type \in {"step.failed", "step.retry"} =>
           FailStep(j) /\ (e.type = "step.retry" <=> jobs[j].att + 1 < MaxAttempts)
  BY <1>2, <1>4 DEF Publisher, EmitEvent, CompleteStep, FailStep
<1>6. jobs[j].st = "active" /\ MayProceed(j)
  BY <1>5 DEF Reports, EmitEvent, CompleteStep, FailStep
<1>7. OnWay(i, Starts)
  <2>1. HasEvent(stream, "flow.start") => OnWay(i, Starts)
    BY DEF HasEvent, OnWay, Ahead, Starts, TypeOK
  <2>2. CASE s = Entry
    <3>1. start = "published" \/ entry.status # "none"
      BY <1>6, <2>2, FlowRunAssumption DEF MayProceed
    <3>2. (\E n \in DOMAIN chain[i] : chain[i][n].type = "flow.start") => OnWay(i, Starts)
      <4>1. chain[i] \in Seq(Records)
        BY DEF TypeOK
      <4> QED BY <4>1 DEF OnWay, Ahead, Starts
    <3> QED BY <2>1, <3>1, <3>2 DEF StartedOnce, IndexKept
  <2>3. CASE s # Entry
    BY <1>1, <1>6, <2>3 DEF JobsTold, JobTold
  <2> QED BY <2>2, <2>3
<1> QED BY <1>1, <1>3, <1>5, <1>6, <1>7

LEMMA ChainOrderStep ==
  ASSUME NEW i, Instances = {i}, EntryAfter # "any", Silent = {}, TypeOK, TypeOK', CurrentMatches,
         LimboInv(i), Next
  PROVE  ChainInOrder(i)'
<1>0. i \in Instances /\ chain[i] \in Seq(Records) /\ chain'[i] \in Seq(Records)
  BY DEF TypeOK
<1>1. /\ Starts \subseteq Records /\ \A r \in Starts : r.type # "flow.stalled"
      /\ \A x : Emissions(x) \subseteq Records /\ \A r \in Emissions(x) : r.type # "flow.stalled"
      /\ \A s : /\ Told("step.failed", s) \subseteq Records
                /\ \A r \in Told("step.failed", s) : r.type # "flow.stalled"
  BY DEF Starts, Emissions, Told
<1>2. SUFFICES ASSUME NEW n \in DOMAIN chain'[i], NEW e \in Records, e = chain'[i][n]
               PROVE  /\ e.type \in Reports => Ahead(i, n, Starts)'
                      /\ e.type = "step.completed" =>
                           \A x \in Flow.emits[e.step] : Ahead(i, n, Emissions(x))'
                      /\ e.type = "step.retry" => ~Ahead(i, n, Told("step.failed", e.step))'
  <2>1. \A n \in DOMAIN chain'[i] : chain'[i][n] \in Records
    BY <1>0
  <2> QED BY <1>2, <2>1 DEF ChainInOrder, EventInOrder
<1>3. n \in Nat /\ n >= 1
  BY <1>0
<1>4. CASE Persist(i)
  <2>1. n + 1 \in DOMAIN chain[i] /\ e = chain[i][n + 1]
    BY <1>0, <1>2, <1>4, PersistMoves
  <2>2. /\ Ahead(i, n, Starts)' <=> Ahead(i, n + 1, Starts)
        /\ \A x : Ahead(i, n, Emissions(x))' <=> Ahead(i, n + 1, Emissions(x))
        /\ \A s : Ahead(i, n, Told("step.failed", s))' <=> Ahead(i, n + 1, Told("step.failed", s))
    BY <1>1, <1>3, <1>4, AheadMoves
  <2> QED BY <2>1, <2>2 DEF LimboInv, ChainInOrder, EventInOrder
<1>5. CASE ~Persist(i)
  <2>1. n <= Len(chain[i]) + 1 =>
          /\ Ahead(i, n, Starts)' <=> Ahead(i, n, Starts)
          /\ \A x : Ahead(i, n, Emissions(x))' <=> Ahead(i, n, Emissions(x))
          /\ \A s : Ahead(i, n, Told("step.failed", s))' <=> Ahead(i, n, Told("step.failed", s))
    BY <1>1, <1>3, <1>5, AheadMoves
  <2>2. CASE n \in DOMAIN chain[i] /\ e = chain[i][n]
    <3>1. n <= Len(chain[i]) + 1
      BY <1>0, <2>2
    <3> QED BY <2>1, <2>2, <3>1 DEF LimboInv, ChainInOrder, EventInOrder
  <2>3. CASE n = Len(chain[i]) + 1 /\ Publisher(i, e)
    <3> DEFINE j == <<"step", e.step>>
    <3>1. SUFFICES ASSUME e.type \in Reports
                   PROVE  /\ OnWay(i, Starts)
                          /\ e.type = "step.completed" =>
                               \A x \in Flow.emits[e.step] : OnWay(i, Emissions(x))
                          /\ e.type = "step.retry" => ~OnWay(i, Told("step.failed", e.step))
      BY <1>0, <2>1, <2>3, <3>1 DEF Reports, OnWay
    <3>2. /\ e.step \in AllSteps /\ jobs[j].st = "active" /\ OnWay(i, Starts)
          /\ e.type = "step.completed" => CompleteStep(j)
      BY <2>3, <3>1, ReportedBy DEF LimboInv
    <3>3. JobTold(i, e.step)
      BY <3>2 DEF LimboInv, JobsTold
    <3>4. e.type = "step.completed" => jobs[j].left = {}
      BY <3>2 DEF CompleteStep
    <3>5. ~OnWay(i, Told("step.failed", e.step))
      BY <3>2, <3>3 DEF JobTold
    <3>6. e.type = "step.completed" => \A x \in Flow.emits[e.step] : OnWay(i, Emissions(x))
      BY <3>2, <3>3, <3>4 DEF JobTold
    <3> QED BY <3>2, <3>5, <3>6
  <2> QED BY <1>2, <1>5, <2>2, <2>3, ChainAdds
<1> QED BY <1>4, <1>5

LEMMA StreamOrderStep ==
  ASSUME NEW i, Instances = {i}, TypeOK, TypeOK', CurrentMatches, LimboInv(i), Next
  PROVE  StreamInOrder'
<1>0. i \in Instances /\ stream \in Seq(Records) /\ stream' \in Seq(Records)
  BY DEF TypeOK
<1>1. \A n \in DOMAIN stream : n \in DOMAIN stream' /\ stream'[n] = stream[n]
  BY <1>0, StreamMoves DEF StreamGrows
<1>2. /\ HasEvent(stream, "flow.start") => HasEvent(stream, "flow.start")'
      /\ \A x : IsEmitted(x) => IsEmitted(x)'
  BY <1>1 DEF HasEvent, IsEmitted
<1>3. SUFFICES ASSUME NEW n \in DOMAIN stream', NEW e \in Records, e = stream'[n]
               PROVE  /\ e.type \in Reports => HasEvent(stream, "flow.start")
                      /\ e.type = "step.completed" => \A x \in Flow.emits[e.step] : IsEmitted(x)
                      /\ e.type = "step.failed" =>
                           \A m \in DOMAIN stream' :
                             stream'[m].type = "step.retry" /\ stream'[m].step = e.step => m < n
  <2>1. \A n \in DOMAIN stream' : stream'[n] \in Records
    BY <1>0
  <2> QED BY <1>2, <1>3, <2>1 DEF StreamInOrder
<1>g. ASSUME n \in DOMAIN stream, e = stream[n]
      PROVE  /\ e.type \in Reports => HasEvent(stream, "flow.start")
             /\ e.type = "step.completed" => \A x \in Flow.emits[e.step] : IsEmitted(x)
             /\ e.type = "step.failed" =>
                  \A m \in DOMAIN stream :
                    stream[m].type = "step.retry" /\ stream[m].step = e.step => m < n
  BY <1>g DEF LimboInv, StreamInOrder
<1>4. CASE Persist(i)
  <2> DEFINE h == chain[i][1]
             l == Len(stream) + 1
  <2>1. /\ 1 \in DOMAIN chain[i] /\ h \in Records /\ stream'[l] = h
        /\ \A m \in DOMAIN stream' : m \in DOMAIN stream \/ m = l
    BY <1>0, <1>4, PersistMoves
  <2>2. /\ h.type \in Reports => Ahead(i, 1, Starts)
        /\ h.type = "step.completed" => \A x \in Flow.emits[h.step] : Ahead(i, 1, Emissions(x))
        /\ h.type = "step.retry" => ~Ahead(i, 1, Told("step.failed", h.step))
    BY <2>1 DEF LimboInv, ChainInOrder, EventInOrder
  <2>3. \A S : Ahead(i, 1, S) <=> \E m \in DOMAIN stream : stream[m] \in S
    <3>1. \A m \in DOMAIN chain[i] : ~(m < 1)
      BY <1>0 DEF TypeOK
    <3> QED BY <3>1 DEF Ahead
  <2>4. CASE n = l
    <3>1. e = h
      BY <1>3, <2>1, <2>4
    <3>2. e.type \in Reports => HasEvent(stream, "flow.start")
      BY <2>2, <2>3, <3>1 DEF Starts, HasEvent
    <3>3. e.type = "step.completed" => \A x \in Flow.emits[e.step] : IsEmitted(x)
      <4>1. \A x : (\E m \in DOMAIN stream : stream[m] \in Emissions(x)) => IsEmitted(x)
        BY DEF Emissions, IsEmitted
      <4> QED BY <2>2, <2>3, <3>1, <4>1
    <3>4. ASSUME e.type = "step.failed", NEW m \in DOMAIN stream', stream'[m].type = "step.retry"
          PROVE  m < n
      <4>1. m # l
        BY <2>1, <3>1, <3>4
      <4> QED BY <1>0, <2>1, <2>4, <4>1
    <3> QED BY <3>2, <3>3, <3>4
  <2>5. CASE n # l
    <3>1. n \in DOMAIN stream /\ e = stream[n]
      BY <1>1, <1>3, <2>1, <2>5
    <3>2. ASSUME e.type = "step.failed", NEW m \in DOMAIN stream', stream'[m].type = "step.retry",
                 stream'[m].step = e.step
          PROVE  m < n
      <4>1. CASE m = l
        <5>1. h.type = "step.retry" /\ h.step = e.step
          BY <2>1, <3>2, <4>1
        <5>2. e \in Told("step.failed", h.step)
          BY <3>2, <5>1 DEF Told
        <5> QED BY <2>2, <2>3, <3>1, <5>1, <5>2
      <4>2. CASE m # l
        BY <1>1, <1>g, <2>1, <3>1, <3>2, <4>2
      <4> QED BY <4>1, <4>2
    <3> QED BY <1>g, <3>1, <3>2
  <2> QED BY <2>4, <2>5
<1>5. CASE ~Persist(i)
  <2>1. \A m \in DOMAIN stream' :
          \/ m \in DOMAIN stream /\ stream'[m] = stream[m]
          \/ stream'[m].type = "flow.stalled"
    BY <1>0, <1>5, EventsMove
  <2>2. CASE e.type = "flow.stalled"
    BY <2>2 DEF Reports
  <2>3. CASE n \in DOMAIN stream /\ e = stream[n]
    BY <1>g, <2>1, <2>3
  <2> QED BY <1>3, <2>1, <2>2, <2>3
<1> QED BY <1>4, <1>5

\* What becomes of the job of a step while finished jobs are kept.
LEMMA StepJobMoves ==
  ASSUME TypeOK, Next, ~RemoveFinished, NEW j \in StepJobs
  PROVE  \/ jobs'[j] = jobs[j]
         \/ jobs[j].st = "none" /\ jobs'[j] = NewJob /\ Enqueuer(j)
         \/ \E i \in Instances : StartStep(i, j)
         \/ \E x \in Events : EmitEvent(j, x)
         \/ CompleteStep(j) \/ FailStep(j)
<1> USE DEF index, handler, scheduled, callers
<1>0. j \in JobIds /\ jobs \in [JobIds -> Jobs]
  BY JobTypes DEF TypeOK
<1> DEFINE Quiet == jobs'[j] = jobs[j] \/ (jobs[j].st = "none" /\ jobs'[j] = NewJob)
<1>1. ASSUME Quiet
      PROVE  jobs'[j] = jobs[j] \/ (jobs[j].st = "none" /\ jobs'[j] = NewJob /\ Enqueuer(j))
  BY <1>1, JobMoves, NoneIsNoJob
<1>2. ASSUME NEW ids, Enqueue(ids)
      PROVE  Quiet
  BY <1>0, <1>2 DEF Enqueue
<1>3. ASSUME NEW i \in Instances, Handle(i)
      PROVE  Quiet
  <2>1. UNCHANGED jobs \/ \E ids : Enqueue(ids)
    BY <1>3
       DEF Handle, Persist, OnTerminal, OnFlowStart, OnFlowCancel, UnscheduleCanceled,
           OnStepEvent, OnEmit, OnAwaitRegistered, SetAwaiting, OnAwaitResolved,
           OnAwaitTimeout, ReadIndex, ReadStream, EnqueuePending, EndTrigger, AnalyzeStream,
           DecideStatus, WriteStatus
  <2> QED BY <1>2, <2>1
<1>4. ASSUME NEW k \in StepJobs, RunStep(k), k # j
      PROVE  Quiet
  <2>1. j # <<"register-after", k[2]>>
    BY JobNames
  <2> QED BY <1>0, <1>4, <2>1 DEF RunStep, StartStep, EmitEvent, CompleteStep, FailStep
<1>5. ASSUME NEW k \in RegisterJobs, RunRegister(k)
      PROVE  Quiet
  <2>1. j # k
    BY JobNames
  <2> QED BY <1>0, <1>5, <2>1 DEF RunRegister, RegisterAwait, FinishRegister
<1>6. ASSUME StartFlow
      PROVE  Quiet
  <2>1. Enqueue({<<"step", Entry>>})
    BY <1>6 DEF StartFlow
  <2> QED BY <1>2, <2>1
<1>7. CASE UNCHANGED jobs
  BY <1>7
<1> QED
  BY <1>1, <1>3, <1>4, <1>5, <1>6, <1>7
     DEF Next, RunStep, PublishStart, ClearTracker, PublishCancel, TimerFires, ResolveWebhook,
         CheckWebhook, ReadPreviousStatus, StallTimeout, MarkStalled, RemoveJob

\* The reports that a worker publishes are on their way.
LEMMA ReportOnWay ==
  ASSUME NEW i, Instances = {i}, TypeOK, TypeOK', ActiveBacked, NEW s \in AllSteps
  PROVE  LET j == <<"step", s>>
         IN  /\ CompleteStep(j) => OnWay(i, Told("step.completed", s))' /\ jobs'[j].st = "done"
             /\ FailStep(j) =>
                  \/ OnWay(i, Told("step.failed", s))' /\ jobs'[j].st = "failed"
                  \/ jobs'[j].st = "waiting"
             /\ \A x \in Events : EmitEvent(j, x) => OnWay(i, Emissions(x))'
<1> DEFINE j == <<"step", s>>
<1>0. j \in StepJobs /\ j[2] = s /\ j \in JobIds /\ jobs \in [JobIds -> Jobs]
  BY JobNames DEF StepJobs, TypeOK
<1>1. jobs[j].st = "active" => jobs[j].at = i
  BY <1>0 DEF ActiveBacked
<1>2. /\ i \in Instances
      /\ \A t \in StepTypes : Record(t, s, "none") \in Records
      /\ \A x \in Events : Record("emit", s, x) \in Records
  BY RecordTypes
<1>3. ASSUME CompleteStep(j)
      PROVE  OnWay(i, Told("step.completed", s))' /\ jobs'[j].st = "done"
  <2> DEFINE e == Record("step.completed", s, "none")
  <2>1. e \in Records /\ e \in Told("step.completed", s)
    BY <1>2 DEF StepTypes, Told, Record
  <2>2. Publish(i, e)
    BY <1>0, <1>1, <1>3 DEF CompleteStep
  <2>3. jobs'[j].st = "done"
    <3>1. j # <<"register-after", j[2]>>
      BY <1>0, JobNames
    <3> QED BY <1>0, <1>3, <3>1 DEF CompleteStep, NoJob
  <2> QED BY <1>2, <2>1, <2>2, <2>3, PublishOnWay
<1>4. ASSUME FailStep(j)
      PROVE  \/ OnWay(i, Told("step.failed", s))' /\ jobs'[j].st = "failed"
             \/ jobs'[j].st = "waiting"
  <2> DEFINE e == Record("step.failed", s, "none")
  <2>1. e \in Records /\ e \in Told("step.failed", s)
    BY <1>2 DEF StepTypes, Told, Record
  <2>2. CASE jobs[j].att + 1 < MaxAttempts
    BY <1>0, <1>4, <2>2 DEF FailStep, NewJob, NoJob
  <2>3. CASE ~(jobs[j].att + 1 < MaxAttempts)
    <3>1. Publish(i, e) /\ jobs'[j].st = "failed"
      BY <1>0, <1>1, <1>4, <2>3 DEF FailStep, NoJob
    <3> QED BY <1>2, <2>1, <3>1, PublishOnWay
  <2> QED BY <2>2, <2>3
<1>5. ASSUME NEW x \in Events, EmitEvent(j, x)
      PROVE  OnWay(i, Emissions(x))'
  <2> DEFINE e == Record("emit", s, x)
  <2>1. e \in Records /\ e \in Emissions(x)
    BY <1>2 DEF Emissions, Record
  <2>2. Publish(i, e)
    BY <1>0, <1>1, <1>5 DEF EmitEvent
  <2> QED BY <1>2, <2>1, <2>2, PublishOnWay
<1> QED BY <1>3, <1>4, <1>5

LEMMA JobsToldStep ==
  ASSUME NEW i, Instances = {i}, EntryAfter # "any", ~RemoveFinished, TypeOK, TypeOK',
         CurrentMatches, ActiveBacked, LimboInv(i), Next
  PROVE  JobsTold(i)'
<1>0. i \in Instances /\ jobs \in [JobIds -> Jobs]
  BY DEF TypeOK
<1>1. /\ Starts \subseteq Records /\ \A r \in Starts : r.type # "flow.stalled"
      /\ \A x : Emissions(x) \subseteq Records /\ \A r \in Emissions(x) : r.type # "flow.stalled"
      /\ \A t, s : Told(t, s) \subseteq Records
      /\ \A s : \A r \in Told("step.failed", s) \cup Told("step.completed", s) : r.type # "flow.stalled"
  BY DEF Starts, Emissions, Told
<1>2. /\ OnWay(i, Starts) => OnWay(i, Starts)'
      /\ \A x : OnWay(i, Emissions(x)) => OnWay(i, Emissions(x))'
  BY <1>1, AheadMoves
<1>3. ASSUME NEW s \in AllSteps
      PROVE  /\ OnWay(i, Told("step.completed", s)) => OnWay(i, Told("step.completed", s))'
             /\ OnWay(i, Told("step.completed", s))' =>
                  OnWay(i, Told("step.completed", s)) \/ CompleteStep(<<"step", s>>)
             /\ OnWay(i, Told("step.failed", s)) => OnWay(i, Told("step.failed", s))'
             /\ OnWay(i, Told("step.failed", s))' =>
                  \/ OnWay(i, Told("step.failed", s))
                  \/ FailStep(<<"step", s>>) /\ jobs'[<<"step", s>>].st = "failed"
  <2> DEFINE P(S) == /\ OnWay(i, S) => OnWay(i, S)'
                     /\ OnWay(i, S)' => OnWay(i, S) \/ \E e \in S : Publisher(i, e)
  <2>1. P(Told("step.completed", s)) /\ P(Told("step.failed", s))
    BY <1>1, AheadMoves
  <2>2. ASSUME NEW e \in Told("step.completed", s), Publisher(i, e)
        PROVE  CompleteStep(<<"step", s>>)
    <3>1. e \in Records /\ e.type = "step.completed" /\ e.step = s /\ e.type \in Reports
      BY DEF Told, Reports
    <3> QED BY <2>2, <3>1, ReportedBy DEF LimboInv
  <2>3. ASSUME NEW e \in Told("step.failed", s), Publisher(i, e)
        PROVE  FailStep(<<"step", s>>) /\ jobs'[<<"step", s>>].st = "failed"
    <3> DEFINE j == <<"step", s>>
    <3>1. e \in Records /\ e.type = "step.failed" /\ e.step = s /\ e.type \in Reports
      BY DEF Told, Reports
    <3>2. FailStep(j) /\ ~(jobs[j].att + 1 < MaxAttempts) /\ j \in StepJobs
      BY <2>3, <3>1, ReportedBy DEF LimboInv
    <3>3. jobs'[j].st = "failed"
      BY <1>0, <3>2, JobNames DEF FailStep, NoJob
    <3> QED BY <3>2, <3>3
  <2> QED BY <2>1, <2>2, <2>3
<1>4. ASSUME NEW s \in AllSteps
      PROVE  JobTold(i, s)'
  <2> DEFINE j == <<"step", s>>
             done == Told("step.completed", s)
             failed == Told("step.failed", s)
  <2>0. j \in StepJobs /\ <<"resumed", s>> \in StepJobs /\ j # <<"resumed", s>>
    BY DEF StepJobs
  <2>1. /\ jobs[<<"resumed", s>>].st = "none"
        /\ jobs[j].st = "done" <=> OnWay(i, done)
        /\ jobs[j].st = "failed" <=> OnWay(i, failed)
        /\ jobs[j].st = "failed" => s \in Faulty
        /\ jobs[j].st = "active" => \A x \in Flow.emits[s] \ jobs[j].left : OnWay(i, Emissions(x))
        /\ jobs[j].st # "none" /\ s # Entry => OnWay(i, Starts)
    BY DEF LimboInv, JobsTold, JobTold
  <2>2. jobs'[<<"resumed", s>>].st = "none"
    <3>1. ASSUME Enqueuer(<<"resumed", s>>)
          PROVE  FALSE
      <4>1. <<"resumed", s>> \in local[i].pending
        BY <2>0, <3>1, JobNames DEF Enqueuer
      <4> QED BY <4>1 DEF LimboInv, HandlerKept
    <3> QED BY <2>0, <2>1, <3>1, JobMoves
  <2>3. /\ jobs[j].st = "done" => jobs'[j].st = "done"
        /\ jobs[j].st = "failed" => jobs'[j].st = "failed"
        /\ jobs'[j].st = "done" => jobs[j].st = "done" \/ CompleteStep(j)
        /\ jobs'[j].st = "failed" => jobs[j].st = "failed" \/ FailStep(j)
        /\ jobs'[j].st = "active" =>
             \/ jobs[j].st = "active" /\ jobs'[j].left = jobs[j].left
             \/ jobs'[j].left = Flow.emits[s]
             \/ \E x \in Events : EmitEvent(j, x) /\ jobs'[j].left = jobs[j].left \ {x}
        /\ jobs[j].st = "none" /\ jobs'[j].st # "none" => Enqueuer(j)
    <3> USE <1>0, <2>0
    <3>1. CASE jobs'[j] = jobs[j]
      BY <3>1
    <3>2. CASE jobs[j].st = "none" /\ jobs'[j] = NewJob /\ Enqueuer(j)
      BY <3>2 DEF NewJob, NoJob
    <3>3. CASE \E k \in Instances : StartStep(k, j)
      BY <3>3, JobNames DEF StartStep, Jobs
    <3>4. ASSUME NEW x \in Events, EmitEvent(j, x)
          PROVE  /\ jobs[j].st = "active" /\ jobs'[j].st = "active"
                 /\ jobs'[j].left = jobs[j].left \ {x}
      BY <3>4, JobNames DEF EmitEvent, Jobs
    <3>5. CASE CompleteStep(j)
      BY <3>5, ReportOnWay DEF CompleteStep
    <3>6. CASE FailStep(j)
      BY <3>6, ReportOnWay DEF FailStep
    <3> QED BY <3>1, <3>2, <3>3, <3>4, <3>5, <3>6, StepJobMoves
  <2>4. jobs'[j].st = "done" <=> OnWay(i, done)'
    BY <1>3, <2>1, <2>3, ReportOnWay
  <2>5. jobs'[j].st = "failed" <=> OnWay(i, failed)'
    BY <1>3, <2>1, <2>3, ReportOnWay
  <2>6. jobs'[j].st = "failed" => s \in Faulty
    BY <2>0, <2>1, <2>3, JobNames DEF FailStep
  <2>7. ASSUME jobs'[j].st = "active", NEW x \in Flow.emits[s] \ jobs'[j].left
        PROVE  OnWay(i, Emissions(x))'
    <3>1. CASE jobs[j].st = "active" /\ jobs'[j].left = jobs[j].left
      BY <1>2, <2>1, <2>7, <3>1
    <3>2. CASE jobs'[j].left = Flow.emits[s]
      BY <2>7, <3>2
    <3>3. ASSUME NEW y \in Events, EmitEvent(j, y), jobs'[j].left = jobs[j].left \ {y}
          PROVE  OnWay(i, Emissions(x))'
      <4>1. CASE x = y
        BY <3>3, <4>1, ReportOnWay
      <4>2. CASE x # y
        <5>1. x \in Flow.emits[s] \ jobs[j].left /\ jobs[j].st = "active"
          BY <2>7, <3>3, <4>2 DEF EmitEvent
        <5> QED BY <1>2, <2>1, <5>1
      <4> QED BY <4>1, <4>2
    <3> QED BY <2>3, <2>7, <3>1, <3>2, <3>3
  <2>8. ASSUME jobs'[j].st # "none", s # Entry
        PROVE  OnWay(i, Starts)'
    <3>1. CASE jobs[j].st # "none"
      BY <1>2, <2>1, <2>8, <3>1
    <3>2. CASE jobs[j].st = "none"
      <4>1. Enqueuer(j)
        BY <2>3, <2>8, <3>2
      <4>2. pc[i] = "enqueue"
        BY <2>8, <4>1, JobNames DEF Enqueuer, EnqueuePending, StepJobs
      <4>3. HasEvent(stream, "flow.start")
        BY <4>2 DEF LimboInv, HandlerKept, Feeding
      <4>4. OnWay(i, Starts)
        BY <4>3 DEF HasEvent, OnWay, Ahead, Starts, TypeOK
      <4> QED BY <1>2, <4>4
    <3> QED BY <3>1, <3>2
  <2> HIDE DEF done, failed
  <2> QED BY <2>2, <2>4, <2>5, <2>6, <2>7, <2>8 DEF JobTold, done, failed
<1>5. start' # "no" => jobs'[<<"step", Entry>>].st # "none"
  <2> DEFINE j == <<"step", Entry>>
  <2>0. j \in StepJobs /\ j \in JobIds
    BY JobNames DEF StepJobs, AllSteps
  <2>1. jobs[j].st # "none" => jobs'[j].st # "none"
    <3> USE <1>0, <2>0 DEF NewJob, NoJob
    <3>1. \A k \in Instances : StartStep(k, j) => jobs'[j].st = "active"
      BY DEF StartStep
    <3>2. \A x \in Events : EmitEvent(j, x) => jobs'[j].st = jobs[j].st
      BY DEF EmitEvent
    <3>3. CompleteStep(j) \/ FailStep(j) => jobs'[j].st # "none"
      BY ReportOnWay DEF AllSteps
    <3> QED BY <3>1, <3>2, <3>3, StepJobMoves
  <2>2. CASE StartFlow
    BY <1>0, <2>0, <2>2, NoneIsNoJob DEF StartFlow, Enqueue
  <2>3. CASE start = "no" /\ start' # "no"
    <3>1. StartFlow
      BY <2>3 DEF Next, index, handler, scheduled, callers, Handle, RunStep, RunRegister,
         PublishStart, ClearTracker, PublishCancel, Persist, OnTerminal, OnFlowStart,
         OnFlowCancel, UnscheduleCanceled, OnStepEvent, OnEmit, OnAwaitRegistered,
         SetAwaiting, OnAwaitResolved, OnAwaitTimeout, ReadIndex, ReadStream,
         EnqueuePending, EndTrigger, AnalyzeStream, DecideStatus, WriteStatus, StartStep,
         EmitEvent, CompleteStep, FailStep, RemoveJob, RegisterAwait, FinishRegister,
         TimerFires, ResolveWebhook, CheckWebhook, ReadPreviousStatus, StallTimeout,
         MarkStalled
    <3> QED BY <2>2, <3>1
  <2> QED BY <2>1, <2>3 DEF LimboInv, JobsTold
<1> QED BY <1>4, <1>5 DEF JobsTold

\* What the events of the stream tell while none is persisted.
LEMMA NothingPersisted ==
  ASSUME NEW i, Instances = {i}, TypeOK, TypeOK', CurrentMatches, Next, ~Persist(i)
  PROVE  /\ HasEvent(stream, "flow.start")' <=> HasEvent(stream, "flow.start")
         /\ HasEvent(stream, "flow.cancel")' <=> HasEvent(stream, "flow.cancel")
         /\ Over' <=> Over
         /\ EmittedEvents' = EmittedEvents
         /\ CompletedSteps(stream)' = CompletedSteps(stream)
         /\ FinalFailedSteps(stream)' = FinalFailedSteps(stream)
<1>0. i \in Instances /\ stream \in Seq(Records) /\ stream' \in Seq(Records)
  BY DEF TypeOK
<1>1. \A n \in DOMAIN stream : n \in DOMAIN stream' /\ stream'[n] = stream[n]
  BY <1>0, StreamMoves DEF StreamGrows
<1>2. \A n \in DOMAIN stream' :
        \/ n \in DOMAIN stream /\ stream'[n] = stream[n]
        \/ stream'[n].type = "flow.stalled"
  BY <1>0, EventsMove
<1>3. \A t : t # "flow.stalled" => (HasEvent(stream, t)' <=> HasEvent(stream, t))
  BY <1>1, <1>2 DEF HasEvent
<1>4. EmittedEvents' = EmittedEvents
  BY <1>1, <1>2 DEF EmittedEvents, IsEmitted
<1>5. CompletedSteps(stream)' = CompletedSteps(stream)
  BY <1>1, <1>2 DEF CompletedSteps
<1>6. FinalFailedSteps(stream)' = FinalFailedSteps(stream)
  BY <1>1, <1>2 DEF FinalFailedSteps
<1> QED BY <1>3, <1>4, <1>5, <1>6 DEF Over, TerminalTypes

\* What the persistence of an event finds, and what it adds.
LEMMA EventPersisted ==
  ASSUME NEW i, Instances = {i}, TypeOK, TypeOK', CurrentMatches, LimboInv(i), Persist(i),
         NEW e, e = chain[i][1]
  PROVE  /\ e \in Records /\ pc[i] = "idle" /\ pc'[i] = e.type /\ cur'[i] = e
         /\ UNCHANGED <<entry, local, tracker, jobs, stalling>>
         /\ e.type \in Reports => HasEvent(stream, "flow.start")
         /\ e.type = "flow.start" => EmittedEvents = {}
         /\ \A t : HasEvent(stream, t)' <=> HasEvent(stream, t) \/ e.type = t
         /\ \A x \in EmittedEvents' : x \in EmittedEvents \/ (e.type = "emit" /\ e.arg = x)
         /\ \A s : s \in CompletedSteps(stream)' <=>
              \/ s \in CompletedSteps(stream)
              \/ s \in AllSteps /\ e.type = "step.completed" /\ e.step = s
         /\ e.type # "step.failed" => FinalFailedSteps(stream)' = FinalFailedSteps(stream)
<1>0. /\ i \in Instances /\ chain[i] \in Seq(Records) /\ stream \in Seq(Records)
      /\ cur \in [Instances -> Records]
  BY DEF TypeOK
<1> DEFINE l == Len(stream) + 1
<1>1. /\ 1 \in DOMAIN chain[i] /\ e \in Records /\ stream'[l] = e /\ l \in DOMAIN stream'
      /\ \A m \in DOMAIN stream : m \in DOMAIN stream' /\ stream'[m] = stream[m] /\ m < l
      /\ \A m \in DOMAIN stream' : m \in DOMAIN stream \/ m = l
      /\ l \notin DOMAIN stream
      /\ pc[i] = "idle" /\ pc'[i] = e.type
  BY <1>0, PersistMoves
<1>2. cur'[i] = e /\ UNCHANGED <<entry, local, tracker, jobs, stalling>>
  BY <1>0 DEF Persist
<1>3. \A S : Ahead(i, 1, S) <=> \E m \in DOMAIN stream : stream[m] \in S
  <2>1. \A m \in DOMAIN chain[i] : ~(m < 1)
    BY <1>0
  <2> QED BY <2>1 DEF Ahead
<1>4. /\ e.type \in Reports => HasEvent(stream, "flow.start")
      /\ e.type = "step.retry" =>
           ~\E m \in DOMAIN stream : stream[m] \in Told("step.failed", e.step)
  <2>1. /\ e.type \in Reports => Ahead(i, 1, Starts)
        /\ e.type = "step.retry" => ~Ahead(i, 1, Told("step.failed", e.step))
    BY <1>1 DEF LimboInv, ChainInOrder, EventInOrder
  <2>2. (\E m \in DOMAIN stream : stream[m] \in Starts) => HasEvent(stream, "flow.start")
    BY DEF Starts, HasEvent
  <2> QED BY <1>3, <2>1, <2>2
<1>5. ASSUME e.type = "flow.start"
      PROVE  EmittedEvents = {}
  <2>1. ~HasEvent(stream, "flow.start")
    BY <1>0, <1>1, <1>5 DEF LimboInv, StartedOnce
  <2> QED BY <2>1 DEF LimboInv, StreamInOrder, EmittedEvents, IsEmitted, Reports
<1>6. \A t : HasEvent(stream, t)' <=> HasEvent(stream, t) \/ e.type = t
  BY <1>1 DEF HasEvent
<1>7. \A x \in EmittedEvents' : x \in EmittedEvents \/ (e.type = "emit" /\ e.arg = x)
  BY <1>1 DEF EmittedEvents, IsEmitted
<1>8. \A s : s \in CompletedSteps(stream)' <=>
        \/ s \in CompletedSteps(stream)
        \/ s \in AllSteps /\ e.type = "step.completed" /\ e.step = s
  BY <1>1 DEF CompletedSteps
<1>9. ASSUME e.type # "step.failed"
      PROVE  FinalFailedSteps(stream)' = FinalFailedSteps(stream)
  <2>1. ASSUME NEW s \in AllSteps, s \in FinalFailedSteps(stream)'
        PROVE  s \in FinalFailedSteps(stream)
    BY <1>1, <1>9, <2>1 DEF FinalFailedSteps
  <2>2. ASSUME NEW s \in AllSteps, s \in FinalFailedSteps(stream)
        PROVE  s \in FinalFailedSteps(stream)'
    <3>1. PICK n \in DOMAIN stream :
            /\ stream[n].type = "step.failed" /\ stream[n].step = s
            /\ \A m \in DOMAIN stream :
                 m > n /\ stream[m].step = s => stream[m].type # "step.retry"
      BY <2>2 DEF FinalFailedSteps
    <3>2. stream[n] \in Told("step.failed", s)
      BY <1>0, <3>1 DEF Told
    <3>3. ~(e.type = "step.retry" /\ e.step = s)
      BY <1>4, <3>2
    <3> QED BY <1>1, <3>1, <3>3 DEF FinalFailedSteps
  <2>3. FinalFailedSteps(stream)' \subseteq AllSteps /\ FinalFailedSteps(stream) \subseteq AllSteps
    BY DEF FinalFailedSteps
  <2> QED BY <2>1, <2>2, <2>3
<1> QED BY <1>1, <1>2, <1>4, <1>5, <1>6, <1>7, <1>8, <1>9

LEMMA HandlerStep ==
  ASSUME NEW i, Instances = {i}, AwaitBefore = {}, TypeOK, TypeOK', CurrentMatches, LimboInv(i),
         Next, ~Persist(i)
  PROVE  IndexKept(i)' /\ HandlerKept(i)'
<1> USE DEF index, handler, scheduled, callers
<1> DEFINE Began == HasEvent(stream, "flow.start")
           Canceled == HasEvent(stream, "flow.cancel")
           Told1 == OnWay(i, Terminals)
           Working == Feeding \cup {"flow.start", "analyze", "decide", "write"} \cup Reports
<1>0. /\ i \in Instances /\ entry \in Entries /\ pc \in [Instances -> Stages]
      /\ cur \in [Instances -> Records] /\ local \in [Instances -> Snapshots]
      /\ tracker \in [Instances -> {"off", "on", "clearing"}]
  BY DEF TypeOK
<1>1. /\ Began' <=> Began
      /\ Canceled' <=> Canceled
      /\ Over' <=> Over
      /\ EmittedEvents' = EmittedEvents
  BY NothingPersisted
<1>2. Told1 => Told1'
  <2>1. Terminals \subseteq Records /\ \A r \in Terminals : r.type # "flow.stalled"
    BY DEF Terminals, TerminalTypes
  <2> QED BY <2>1, AheadMoves
<1>g. /\ entry.awaiting = NoAwaits
      /\ Began => entry.status # "none" \/ pc[i] = "flow.start"
      /\ entry.status # "none" \/ stalling # "idle" => Began
      /\ entry.status = "canceled" => Canceled
      /\ \A x \in EmittedEvents :
           /\ pc[i] # "flow.start"
           /\ x \in entry.emitted \/ (pc[i] = "emit" /\ cur[i].arg = x)
  BY DEF LimboInv, IndexKept
<1>h. /\ pc[i] \in Working => Began
      /\ pc[i] = "flow.cancel" => Canceled
      /\ pc[i] \in Feeding => cur[i].type = "step.completed"
      /\ pc[i] = "pending" =>
           /\ local[i].entry.emitted = entry.emitted
           /\ local[i].entry.status # "none" /\ local[i].entry.awaiting = NoAwaits
      /\ pc[i] \in {"decide", "write"} =>
           /\ local[i].verdict # "none"
           /\ local[i].verdict = "canceled" => Canceled
           /\ local[i].seen => Over
      /\ tracker[i] # "off" => Told1
  BY DEF LimboInv, HandlerKept
<1>a. EmittedEvents # {} => Began
  BY DEF LimboInv, StreamInOrder, EmittedEvents, IsEmitted, Reports
<1>b. pc[i] \notin AwaitTypes \cup {"register"}
  BY <1>0 DEF LimboInv, NothingAwaited
<1>p. ASSUME NEW j \in local'[i].pending
      PROVE  j[1] = "step"
  <2>1. CASE j \in local[i].pending
    BY <2>1 DEF LimboInv, HandlerKept
  <2>2. CASE ReadStream(i) /\ \E s \in Steps : j = JobOf(s, local[i].entry)
    <3>1. local[i].entry.awaiting = NoAwaits
      BY <2>2, <1>h DEF ReadStream
    <3>2. PICK s \in Steps : j = JobOf(s, local[i].entry)
      BY <2>2
    <3>3. NoAwaits[<<s, "before">>] = "none"
      BY DEF NoAwaits, IndexKeys, AllSteps, Positions
    <3> QED BY <3>1, <3>2, <3>3 DEF JobOf
  <2> QED BY <1>p, <2>1, <2>2, PendingMoves DEF PendingSteps
<1> DEFINE EntryAfterwards ==
      /\ entry'.awaiting = NoAwaits
      /\ Began => entry'.status # "none" \/ pc'[i] = "flow.start"
      /\ entry'.status # "none" \/ stalling' # "idle" => Began
      /\ entry'.status = "canceled" => Canceled
      /\ \A x \in EmittedEvents :
           /\ pc'[i] # "flow.start"
           /\ x \in entry'.emitted \/ (pc'[i] = "emit" /\ cur'[i].arg = x)
           HandlerAfterwards ==
      /\ pc'[i] \in Working => Began
      /\ pc'[i] = "flow.cancel" => Canceled
      /\ pc'[i] \in Feeding => cur'[i].type = "step.completed"
      /\ pc'[i] = "pending" =>
           /\ local'[i].entry.emitted = entry'.emitted
           /\ local'[i].entry.status # "none" /\ local'[i].entry.awaiting = NoAwaits
      /\ pc'[i] \in {"decide", "write"} =>
           /\ local'[i].verdict # "none"
           /\ local'[i].verdict = "canceled" => Canceled
           /\ local'[i].seen => Over
      /\ tracker'[i] # "off" => Told1'
<1>3. ASSUME EntryAfterwards, HandlerAfterwards
      PROVE  IndexKept(i)' /\ HandlerKept(i)'
  <2>1. IndexKept(i)'
    BY <1>1, <1>3 DEF IndexKept
  <2>2. HandlerKept(i)'
    BY <1>1, <1>3, <1>p DEF HandlerKept
  <2> QED BY <2>1, <2>2
<1> HIDE DEF Began, Canceled, Told1
<1>4. ASSUME pc'[i] = "idle", entry'.awaiting = NoAwaits,
             Began => entry'.status # "none",
             entry'.status # "none" \/ stalling' # "idle" => Began,
             entry'.status = "canceled" => Canceled,
             EmittedEvents \subseteq entry'.emitted,
             tracker'[i] # "off" => Told1'
      PROVE  EntryAfterwards /\ HandlerAfterwards
  BY <1>4 DEF Reports, Feeding
<1>5. ASSUME UNCHANGED <<entry, stalling>>, pc'[i] = "idle", pc[i] \notin {"flow.start", "emit"},
             tracker'[i] \in {tracker[i], "off"} \/ Told1'
      PROVE  EntryAfterwards /\ HandlerAfterwards
  BY <1>2, <1>4, <1>5, <1>g, <1>h
<1>6. ASSUME UNCHANGED <<pc, cur, local>>, tracker'[i] \in {tracker[i], "off"},
             entry'.awaiting = entry.awaiting, entry'.emitted = entry.emitted,
             entry'.status = entry.status \/ (entry'.status = "stalled" /\ Began),
             stalling' \in {stalling, "idle"} \/ Began
      PROVE  EntryAfterwards /\ HandlerAfterwards
  BY <1>2, <1>6, <1>g, <1>h
<1>7. CASE OnTerminal(i) \/ UnscheduleCanceled(i)
  <2>1. /\ UNCHANGED <<entry, stalling>> /\ pc'[i] = "idle" /\ pc[i] \notin {"flow.start", "emit"}
        /\ tracker'[i] = tracker[i] \/ tracker[i] # "off"
    BY <1>0, <1>7 DEF OnTerminal, UnscheduleCanceled, EndHandler, TerminalTypes
  <2> QED BY <1>2, <1>3, <1>5, <1>h, <2>1
<1>8. CASE OnFlowStart(i)
  <2>1. /\ entry'.status = "running" /\ entry'.awaiting = NoAwaits /\ pc'[i] = "idle"
        /\ pc[i] = "flow.start" /\ UNCHANGED <<tracker, stalling>>
    BY <1>0, <1>8 DEF OnFlowStart, EndHandler, NoEntry
  <2> QED BY <1>2, <1>3, <1>4, <1>g, <1>h, <2>1
<1>9. CASE OnFlowCancel(i)
  <2>1. /\ pc[i] = "flow.cancel" /\ UNCHANGED <<tracker, stalling>>
        /\ entry'.emitted = entry.emitted /\ entry'.awaiting = entry.awaiting
        /\ \/ pc'[i] = "idle" /\ UNCHANGED entry
           \/ pc'[i] = "unschedule" /\ entry'.status = "canceled" /\ entry.status # "none"
    BY <1>0, <1>9 DEF OnFlowCancel, EndHandler, Entries
  <2>2. CASE pc'[i] = "idle" /\ UNCHANGED entry
    BY <1>3, <1>5, <2>1, <2>2
  <2>3. CASE pc'[i] = "unschedule" /\ entry'.status = "canceled" /\ entry.status # "none"
    BY <1>2, <1>3, <1>g, <1>h, <2>1, <2>3 DEF Reports, Feeding
  <2> QED BY <2>1, <2>2, <2>3
<1>10. CASE OnStepEvent(i)
  <2>1. /\ UNCHANGED <<entry, tracker, stalling>>
        /\ pc[i] \in StepTypes
        /\ \/ pc'[i] = "idle"
           \/ /\ pc[i] = "step.completed" /\ pc'[i] = "trigger" /\ cur'[i] = cur[i]
           \/ /\ pc[i] = "step.failed" /\ pc'[i] = "analyze"
    BY <1>0, <1>10 DEF OnStepEvent, EndHandler
  <2>2. CASE pc'[i] = "idle"
    BY <1>3, <1>5, <2>1, <2>2 DEF StepTypes
  <2>3. CASE pc[i] = "step.completed" /\ pc'[i] = "trigger" /\ cur'[i] = cur[i]
    <3>1. cur[i].type = "step.completed"
      BY <1>0, <2>3 DEF CurrentMatches, EventTypes, StepTypes
    <3> QED BY <1>2, <1>3, <1>g, <1>h, <2>1, <2>3, <3>1 DEF Reports, Feeding
  <2>4. CASE pc[i] = "step.failed" /\ pc'[i] = "analyze"
    BY <1>2, <1>3, <1>g, <1>h, <2>1, <2>4 DEF Reports, Feeding
  <2> QED BY <2>1, <2>2, <2>3, <2>4
<1>11. CASE OnEmit(i)
  <2>1. /\ pc[i] = "emit" /\ pc'[i] = "idle" /\ UNCHANGED <<tracker, stalling>>
        /\ entry'.status = entry.status /\ entry'.awaiting = entry.awaiting
        /\ entry.status # "none" => entry'.emitted = entry.emitted \cup {cur[i].arg}
    BY <1>0, <1>11 DEF OnEmit, EndHandler, Entries, Track
  <2>2. Began
    BY <1>h, <2>1 DEF Reports, Feeding
  <2> QED BY <1>2, <1>3, <1>4, <1>g, <1>h, <2>1, <2>2
<1>12. CASE ReadIndex(i)
  <2>1. /\ pc[i] = "trigger" /\ pc'[i] = "pending" /\ local'[i].entry = entry
        /\ UNCHANGED <<entry, cur, tracker, stalling>>
    BY <1>0, <1>12 DEF ReadIndex, Snapshots
  <2> QED BY <1>2, <1>3, <1>g, <1>h, <2>1 DEF Reports, Feeding
<1>13. CASE ReadStream(i) \/ EnqueuePending(i) \/ EndTrigger(i)
  <2>1. /\ pc[i] \in {"pending", "enqueue"}
        /\ UNCHANGED <<entry, tracker, stalling>>
        /\ \/ pc'[i] = "enqueue" /\ cur'[i] = cur[i]
           \/ pc'[i] \in {"analyze", "idle"}
    BY <1>0, <1>13 DEF ReadStream, EnqueuePending, EndTrigger, EndHandler
  <2> QED BY <1>2, <1>3, <1>g, <1>h, <2>1 DEF Reports, Feeding
<1>14. CASE AnalyzeStream(i)
  <2>1. /\ pc[i] = "analyze" /\ pc'[i] = "decide" /\ UNCHANGED <<entry, tracker, stalling>>
        /\ local'[i].verdict = AnalyzeFlowCompletion(Flow, stream) /\ local'[i].seen = Over
    BY <1>0, <1>14 DEF AnalyzeStream, Snapshots, Over
  <2>2. /\ AnalyzeFlowCompletion(Flow, stream) # "none"
        /\ AnalyzeFlowCompletion(Flow, stream) = "canceled" => Canceled
    BY DEF AnalyzeFlowCompletion, AnalyzeFlow, Canceled
  <2> QED BY <1>2, <1>3, <1>g, <1>h, <2>1, <2>2 DEF Reports, Feeding
<1>15. CASE DecideStatus(i)
  <2>1. ~SomeAwait("awaiting") /\ ~SomeAwait("timeout")
    BY <1>g DEF SomeAwait, NoAwaits
  <2>2. /\ pc[i] = "decide" /\ UNCHANGED <<entry, tracker, stalling>>
        /\ \/ pc'[i] = "idle"
           \/ /\ pc'[i] = "write" /\ local'[i].verdict = local[i].verdict
              /\ local'[i].seen = local[i].seen
    BY <1>0, <1>15, <2>1 DEF DecideStatus, EndHandler, Snapshots, Overridden
  <2>3. CASE pc'[i] = "idle"
    BY <1>3, <1>5, <2>2, <2>3
  <2>4. CASE /\ pc'[i] = "write" /\ local'[i].verdict = local[i].verdict
             /\ local'[i].seen = local[i].seen
    BY <1>2, <1>3, <1>g, <1>h, <2>2, <2>4 DEF Reports, Feeding
  <2> QED BY <2>2, <2>3, <2>4
<1>16. CASE WriteStatus(i)
  <2>1. /\ pc[i] = "write" /\ pc'[i] = "idle" /\ UNCHANGED stalling
        /\ entry'.emitted = entry.emitted /\ entry'.awaiting = entry.awaiting
        /\ entry.status = "none" => entry'.status = "none"
        /\ entry.status # "none" => entry'.status = local[i].verdict
    BY <1>0, <1>16 DEF WriteStatus, EndHandler, Entries
  <2>2. tracker'[i] = tracker[i] \/ Told1'
    <3>1. ASSUME NEW t \in TerminalTypes, Publish(i, Record(t, NoStep, "none"))
          PROVE  Told1'
      <4>1. Record(t, NoStep, "none") \in Records /\ Record(t, NoStep, "none") \in Terminals
        BY RecordTypes, TypeNames DEF Terminals, TerminalTypes, Record
      <4> QED BY <1>0, <3>1, <4>1, PublishOnWay DEF Told1
    <3> QED BY <1>16, <3>1 DEF WriteStatus, TerminalTypes
  <2> QED BY <1>2, <1>3, <1>4, <1>g, <1>h, <2>1, <2>2
<1>17. CASE ClearTracker(i)
  <2>1. tracker'[i] = "off" /\ UNCHANGED <<pc, cur, local, entry, stalling>>
    BY <1>0, <1>17 DEF ClearTracker
  <2> QED BY <1>3, <1>6, <2>1
<1>18. CASE StallTimeout
  <2>1. /\ UNCHANGED <<pc, cur, local, entry, tracker>>
        /\ stalling' # "idle" => entry.status # "none"
    BY <1>18 DEF StallTimeout
  <2> QED BY <1>3, <1>6, <1>g, <2>1
<1>19. CASE MarkStalled
  <2>1. /\ UNCHANGED <<pc, cur, local, tracker>> /\ stalling # "idle" /\ stalling' = "idle"
        /\ entry'.status = "stalled"
        /\ entry'.awaiting = entry.awaiting /\ entry'.emitted = entry.emitted
    BY <1>0, <1>19 DEF MarkStalled, Entries
  <2> QED BY <1>3, <1>6, <1>g, <2>1
<1>20. CASE UNCHANGED <<pc, cur, local, entry, tracker, stalling>>
  BY <1>3, <1>6, <1>20
<1>21. CASE OnAwaitRegistered(i) \/ SetAwaiting(i) \/ OnAwaitResolved(i) \/ OnAwaitTimeout(i)
  BY <1>b, <1>21
     DEF OnAwaitRegistered, SetAwaiting, OnAwaitResolved, OnAwaitTimeout, AwaitTypes
<1> QED
  BY <1>7, <1>8, <1>9, <1>10, <1>11, <1>12, <1>13, <1>14, <1>15, <1>16, <1>17, <1>18, <1>19,
     <1>20, <1>21
     DEF Next, Handle, RunStep, RunRegister, StartFlow, PublishStart, PublishCancel, StartStep,
         EmitEvent, CompleteStep, FailStep, RemoveJob, RegisterAwait, FinishRegister, TimerFires,
         ResolveWebhook, CheckWebhook, ReadPreviousStatus

LEMMA PersistHandled ==
  ASSUME NEW i, Instances = {i}, TypeOK, TypeOK', CurrentMatches, LimboInv(i), Next, Persist(i)
  PROVE  IndexKept(i)' /\ HandlerKept(i)'
<1> DEFINE e == chain[i][1]
<1>1. /\ e \in Records /\ pc[i] = "idle" /\ pc'[i] = e.type /\ cur'[i] = e
      /\ UNCHANGED <<entry, local, tracker, stalling>>
      /\ e.type \in Reports => HasEvent(stream, "flow.start")
      /\ e.type = "flow.start" => EmittedEvents = {}
      /\ \A t : HasEvent(stream, t)' <=> HasEvent(stream, t) \/ e.type = t
      /\ \A x \in EmittedEvents' : x \in EmittedEvents \/ (e.type = "emit" /\ e.arg = x)
  BY EventPersisted
<1>2. OnWay(i, Terminals) => OnWay(i, Terminals)'
  <2>1. Terminals \subseteq Records /\ \A r \in Terminals : r.type # "flow.stalled"
    BY DEF Terminals, TerminalTypes
  <2> QED BY <2>1, AheadMoves
<1>3. e.type \in EventTypes
  BY <1>1, RecordFields
<1> HIDE DEF e
<1>4. IndexKept(i)'
  BY <1>1 DEF LimboInv, IndexKept
<1>5. HandlerKept(i)'
  BY <1>1, <1>2, <1>3, StageTypes DEF LimboInv, HandlerKept, Feeding
<1> QED BY <1>4, <1>5

\* How a handler gets on with the pending steps and the analysis.
LEMMA WorkMoves ==
  ASSUME NEW i, Instances = {i}, TypeOK, Next, ~Persist(i)
  PROVE  /\ pc[i] \in {"step.completed", "trigger", "pending"} =>
              pc'[i] \in {"step.completed", "trigger", "pending"} \/ ReadStream(i)
         /\ pc[i] = "enqueue" =>
              \/ pc'[i] = pc[i] /\ local'[i] = local[i]
              \/ EnqueuePending(i) \/ EndTrigger(i)
         /\ pc[i] \in {"step.failed", "analyze"} =>
              pc'[i] \in {"step.failed", "analyze"} \/ AnalyzeStream(i)
         /\ pc[i] \in {"decide", "write"} =>
              \/ pc'[i] = pc[i] /\ local'[i] = local[i]
              \/ DecideStatus(i) \/ WriteStatus(i)
<1> USE DEF index, handler, scheduled, callers
<1>0. pc \in [Instances -> Stages] /\ i \in Instances
  BY DEF TypeOK
<1>1. CASE OnStepEvent(i)
  BY <1>0, <1>1 DEF OnStepEvent, EndHandler, StepTypes
<1>2. CASE ReadIndex(i)
  BY <1>0, <1>2 DEF ReadIndex
<1>3. CASE \/ ReadStream(i) \/ EnqueuePending(i) \/ EndTrigger(i)
           \/ AnalyzeStream(i) \/ DecideStatus(i) \/ WriteStatus(i)
  BY <1>3 DEF ReadStream, EnqueuePending, EndTrigger, AnalyzeStream, DecideStatus,
              WriteStatus
<1>4. CASE \/ OnTerminal(i) \/ OnFlowStart(i) \/ OnFlowCancel(i) \/ UnscheduleCanceled(i)
           \/ OnEmit(i)
           \/ OnAwaitRegistered(i) \/ SetAwaiting(i) \/ OnAwaitResolved(i) \/ OnAwaitTimeout(i)
  BY <1>4 DEF OnTerminal, OnFlowStart, OnFlowCancel, UnscheduleCanceled, OnEmit,
       OnAwaitRegistered, SetAwaiting, OnAwaitResolved, OnAwaitTimeout, TerminalTypes
<1>5. CASE UNCHANGED <<pc, local>>
  BY <1>5
<1> QED
  BY <1>1, <1>2, <1>3, <1>4, <1>5
     DEF Next, Handle, RunStep, RunRegister, StartFlow, PublishStart, ClearTracker, PublishCancel,
         StartStep, EmitEvent, CompleteStep, FailStep, RemoveJob, RegisterAwait, FinishRegister,
         TimerFires, ResolveWebhook, CheckWebhook, ReadPreviousStatus, StallTimeout, MarkStalled

\* A step that is fed and has no job is pending for the handler that reads the stream.
LEMMA FedIsTriggered ==
  ASSUME NEW i, Instances = {i}, AwaitBefore = {}, AwaitAfter = {}, TypeOK, LimboInv(i),
         ReadStream(i), ~HasEvent(stream, "flow.cancel"), NEW s \in Steps, Fed(s),
         jobs[<<"step", s>>].st = "none"
  PROVE  pc'[i] = "enqueue" /\ <<"step", s>> \in local'[i].pending
<1> DEFINE snapshot == local[i].entry
           j == <<"step", s>>
<1>1. /\ pc[i] = "pending"
      /\ snapshot.emitted = entry.emitted /\ snapshot.awaiting = NoAwaits
      /\ snapshot.status # "none"
  BY DEF ReadStream, LimboInv, HandlerKept
<1>2. snapshot.awaiting[<<s, "before">>] = "none" /\ s \in AllSteps
  <2>1. <<s, "before">> \in IndexKeys
    BY DEF IndexKeys, AllSteps, Positions
  <2> QED BY <1>1, <2>1 DEF NoAwaits, AllSteps
<1>3. s \notin CompletedSteps(stream)
  <2>1. ~OnWay(i, Told("step.completed", s))
    BY <1>2 DEF LimboInv, JobsTold, JobTold
  <2> QED BY <2>1 DEF CompletedSteps, OnWay, Ahead, Told, TypeOK
<1>4. ~IsDependencyAwaiting(s, snapshot.awaiting)
  <2>1. ASSUME NEW e \in Flow.subs[s] \cap Events, IsEmitted(e)
        PROVE  snapshot.awaiting[<<FirstEmitter(e), "after">>] = "none"
    <3>1. PICK n \in DOMAIN stream :
            stream[n].type = "emit" /\ stream[n].arg = e /\ FirstEmitter(e) = stream[n].step
      BY <2>1, EmitterFound
    <3>2. stream[n] \in Records
      BY DEF TypeOK
    <3>3. <<FirstEmitter(e), "after">> \in IndexKeys
      BY <3>1, <3>2, RecordFields DEF IndexKeys, Positions
    <3> QED BY <1>1, <3>3 DEF NoAwaits
  <2> QED BY <2>1 DEF IsDependencyAwaiting
<1>5. Flow.subs[s] \subseteq snapshot.emitted \cup CompletedSteps(stream)
  <2>1. ASSUME NEW x \in Flow.subs[s], NEW c \in CompletedSteps(stream), x \in Flow.emits[c]
        PROVE  x \in snapshot.emitted
    <3>1. IsEmitted(x)
      BY <2>1 DEF LimboInv, StreamInOrder, CompletedSteps
    <3>2. x \in Events
      BY <2>1, FlowRunAssumption DEF Flows, CompletedSteps
    <3> QED BY <1>1, <3>1, <3>2 DEF LimboInv, IndexKept, EmittedEvents
  <2> QED BY <2>1 DEF Fed
<1>6. s \in PendingSteps(snapshot)
  BY <1>2, <1>3, <1>4, <1>5 DEF PendingSteps, CanTrigger
<1>7. j = JobOf(s, snapshot)
  BY <1>2 DEF JobOf
<1> DEFINE held == {JobOf(u, snapshot) : u \in PendingSteps(snapshot)}
<1>8. local' = [local EXCEPT ![i].pending = held] /\ pc' = [pc EXCEPT ![i] = "enqueue"]
  BY <1>1 DEF ReadStream, MayTrigger
<1>9. j \in held
  BY <1>6, <1>7
<1>10. i \in Instances /\ local \in [Instances -> Snapshots] /\ pc \in [Instances -> Stages]
  BY DEF TypeOK
<1> HIDE DEF held
<1> QED BY <1>8, <1>9, <1>10 DEF Snapshots

LEMMA TriggeredStep ==
  ASSUME NEW i, Instances = {i}, AwaitBefore = {}, AwaitAfter = {}, ~RemoveFinished,
         TypeOK, TypeOK', CurrentMatches, LimboInv(i), JobsTold(i)', Next
  PROVE  StepsTriggered(i)'
<1> SUFFICES ASSUME NEW s \in Steps, Fed(s)'
             PROVE  \/ jobs'[<<"step", s>>].st # "none"
                    \/ HasEvent(stream, "flow.cancel")'
                    \/ pc'[i] \in {"step.completed", "trigger", "pending"}
                    \/ pc'[i] = "enqueue" /\ <<"step", s>> \in local'[i].pending
  BY DEF StepsTriggered
<1> DEFINE j == <<"step", s>>
           Canceled == HasEvent(stream, "flow.cancel")
<1>0. j \in StepJobs /\ i \in Instances
  BY JobNames DEF StepJobs, AllSteps
<1>1. jobs[j].st # "none" => jobs'[j].st # "none"
  <2> USE <1>0, NoneIsNoJob DEF NoJob
  <2>0. jobs \in [JobIds -> Jobs] /\ j \in JobIds
    BY JobNames DEF TypeOK
  <2>1. \A k \in Instances : StartStep(k, j) => jobs'[j].st = "active"
    BY <2>0 DEF StartStep
  <2>2. \A x \in Events : EmitEvent(j, x) => jobs'[j].st = jobs[j].st
    BY <2>0 DEF EmitEvent
  <2>3. CompleteStep(j) => jobs'[j].st = "done"
    <3>1. j # <<"register-after", j[2]>>
      BY JobNames
    <3> QED BY <2>0, <3>1 DEF CompleteStep
  <2>4. FailStep(j) => jobs'[j].st \in {"waiting", "failed"}
    BY <2>0 DEF FailStep, NewJob
  <2> QED BY <2>1, <2>2, <2>3, <2>4, StepJobMoves
<1>g. Fed(s) => \/ jobs[j].st # "none" \/ Canceled
                \/ pc[i] \in {"step.completed", "trigger", "pending"}
                \/ pc[i] = "enqueue" /\ j \in local[i].pending
  BY DEF LimboInv, StepsTriggered
<1>2. CASE Persist(i)
  <2> DEFINE e == chain[i][1]
  <2>1. /\ pc[i] = "idle" /\ pc'[i] = e.type
        /\ Canceled' <=> Canceled \/ e.type = "flow.cancel"
        /\ \A c : c \in CompletedSteps(stream)' <=>
             \/ c \in CompletedSteps(stream)
             \/ c \in AllSteps /\ e.type = "step.completed" /\ e.step = c
    BY <1>2, EventPersisted
  <2>2. e.type # "step.completed" => Fed(s)
    <3>1. e.type # "step.completed" => \A c : c \in CompletedSteps(stream)' => c \in CompletedSteps(stream)
      BY <2>1
    <3> QED BY <3>1 DEF Fed
  <2> QED BY <1>1, <1>g, <2>1, <2>2
<1>3. CASE ~Persist(i)
  <2>1. (Canceled' <=> Canceled) /\ CompletedSteps(stream)' = CompletedSteps(stream)
    BY <1>3, NothingPersisted
  <2>2. Fed(s)
    BY <2>1 DEF Fed
  <2>3. CASE ReadStream(i)
    BY <1>1, <2>1, <2>2, <2>3, FedIsTriggered
  <2>4. CASE EnqueuePending(i) /\ j \in local[i].pending
    <3>1. /\ jobs \in [JobIds -> Jobs] /\ local \in [Instances -> Snapshots] /\ j \in JobIds
          /\ pc'[i] = pc[i] /\ pc[i] = "enqueue"
      BY <1>0, <2>4, JobNames DEF TypeOK, EnqueuePending
    <3>2. PICK k \in local[i].pending :
            Enqueue({k}) /\ local' = [local EXCEPT ![i].pending = @ \ {k}]
      BY <2>4 DEF EnqueuePending
    <3>3. CASE k = j
      BY <3>1, <3>2, <3>3, NoneIsNoJob DEF Enqueue
    <3>4. CASE k # j
      BY <1>0, <2>4, <3>1, <3>2, <3>4 DEF Snapshots
    <3> QED BY <3>3, <3>4
  <2>5. CASE EndTrigger(i)
    <3>1. pc[i] = "enqueue" /\ local[i].pending = {}
      BY <2>5 DEF EndTrigger
    <3> QED BY <1>1, <1>g, <2>1, <2>2, <3>1
  <2> QED BY <1>1, <1>3, <1>g, <2>1, <2>2, <2>3, <2>4, <2>5, WorkMoves
<1> QED BY <1>2, <1>3

LEMMA DecidedStep ==
  ASSUME NEW i, Instances = {i}, TypeOK, TypeOK', CurrentMatches, LimboInv(i), Next
  PROVE  RunDecided(i)'
<1> DEFINE Outcome == AnalyzeFlowCompletion(Flow, stream)
           Canceled == HasEvent(stream, "flow.cancel")
           Ending == OnWay(i, Terminals)
           Working == Feeding \cup {"step.completed", "step.failed", "analyze"}
           Decided == {"completed", "failed"}
<1> SUFFICES ASSUME Outcome' \in Decided
             PROVE  \/ Ending' \/ Canceled'
                    \/ pc'[i] \in Working
                    \/ pc'[i] \in {"decide", "write"} /\ local'[i].verdict \in Decided
  BY DEF RunDecided
<1>0. /\ i \in Instances /\ pc \in [Instances -> Stages] /\ local \in [Instances -> Snapshots]
  BY DEF TypeOK
<1>1. Ending => Ending'
  <2>1. Terminals \subseteq Records /\ \A r \in Terminals : r.type # "flow.stalled"
    BY DEF Terminals, TerminalTypes
  <2> QED BY <2>1, AheadMoves
<1>g. Outcome \in Decided =>
        \/ Ending \/ Canceled
        \/ pc[i] \in Working
        \/ pc[i] \in {"decide", "write"} /\ local[i].verdict \in Decided
  BY DEF LimboInv, RunDecided
<1>h. /\ pc[i] \in {"decide", "write"} => HasEvent(stream, "flow.start")
      /\ pc[i] \in {"decide", "write"} /\ local[i].seen => Over
      /\ pc[i] = "enqueue" => cur[i].type = "step.completed"
      /\ tracker[i] # "off" => Ending
      /\ entry.awaiting = NoAwaits
      /\ HasEvent(stream, "flow.start") => entry.status # "none" \/ pc[i] = "flow.start"
      /\ entry.status = "canceled" => Canceled
  BY DEF LimboInv, HandlerKept, IndexKept, Feeding
<1>2. CASE Persist(i)
  <2> DEFINE e == chain[i][1]
  <2>1. /\ pc[i] = "idle" /\ pc'[i] = e.type
        /\ Canceled' <=> Canceled \/ e.type = "flow.cancel"
        /\ \A s : s \in CompletedSteps(stream)' <=>
             \/ s \in CompletedSteps(stream)
             \/ s \in AllSteps /\ e.type = "step.completed" /\ e.step = s
        /\ e.type # "step.failed" => FinalFailedSteps(stream)' = FinalFailedSteps(stream)
    BY <1>2, EventPersisted
  <2>2. CASE e.type \in {"step.completed", "step.failed", "flow.cancel"}
    BY <2>1, <2>2
  <2>3. CASE e.type \notin {"step.completed", "step.failed", "flow.cancel"}
    <3>1. CompletedSteps(stream)' = CompletedSteps(stream)
      BY <2>1, <2>3 DEF CompletedSteps
    <3>2. Outcome' = Outcome
      BY <2>1, <2>3, <3>1 DEF AnalyzeFlowCompletion, AnalyzeFlow, HasBlockingFailure, HasCriticalLayerFailure
    <3> QED BY <1>1, <1>g, <2>1, <3>2 DEF Feeding
  <2> QED BY <2>2, <2>3
<1>3. CASE ~Persist(i)
  <2>1. /\ Canceled' <=> Canceled
        /\ CompletedSteps(stream)' = CompletedSteps(stream)
        /\ FinalFailedSteps(stream)' = FinalFailedSteps(stream)
    BY <1>3, NothingPersisted
  <2>2. Outcome' = Outcome
    BY <2>1 DEF AnalyzeFlowCompletion, AnalyzeFlow, HasBlockingFailure, HasCriticalLayerFailure
  <2> HIDE DEF Outcome, Canceled, Ending
  <2>3. CASE ReadStream(i) \/ EnqueuePending(i) \/ EndTrigger(i)
    BY <1>0, <1>h, <2>3 DEF ReadStream, EnqueuePending, EndTrigger, Feeding
  <2>4. CASE AnalyzeStream(i)
    <3>1. pc'[i] = "decide" /\ local'[i].verdict = Outcome
      BY <1>0, <2>4 DEF AnalyzeStream, Snapshots, Outcome
    <3> QED BY <2>2, <3>1
  <2>5. CASE DecideStatus(i)
    <3>1. ~SomeAwait("awaiting") /\ ~SomeAwait("timeout")
      BY <1>h DEF SomeAwait, NoAwaits
    <3>2. \/ pc'[i] = "write" /\ local'[i].verdict = local[i].verdict
          \/ entry.status = "canceled"
      BY <1>0, <2>5, <3>1 DEF DecideStatus, Snapshots, Overridden, IsOpen
    <3> QED BY <1>1, <1>g, <1>h, <2>1, <2>2, <2>5, <3>2 DEF DecideStatus, Feeding
  <2>6. CASE WriteStatus(i)
    <3>1. pc[i] = "write" /\ entry.status # "none"
      BY <1>h, <2>6 DEF WriteStatus
    <3>2. Over => Ending
      BY DEF Over, HasEvent, Ending, OnWay, Ahead, Terminals, TypeOK, TerminalTypes
    <3>3. CASE local[i].verdict \in Decided /\ ~AlreadyPublished(i)
      <4>1. \E t \in TerminalTypes : Publish(i, Record(t, NoStep, "none"))
        BY <2>6, <3>1, <3>3 DEF WriteStatus, TerminalTypes
      <4>2. \A t \in TerminalTypes : /\ Record(t, NoStep, "none") \in Records
                                     /\ Record(t, NoStep, "none") \in Terminals
        BY RecordTypes, TypeNames DEF Terminals, TerminalTypes, Record
      <4> QED BY <1>0, <4>1, <4>2, PublishOnWay DEF Ending
    <3>4. CASE AlreadyPublished(i)
      BY <1>1, <1>h, <3>1, <3>2, <3>4 DEF AlreadyPublished
    <3>5. CASE local[i].verdict \notin Decided
      BY <1>1, <1>g, <2>1, <2>2, <3>1, <3>5 DEF Feeding
    <3> QED BY <3>3, <3>4, <3>5
  <2> QED BY <1>1, <1>3, <1>g, <2>1, <2>2, <2>3, <2>4, <2>5, <2>6, WorkMoves
         DEF Feeding
<1> QED BY <1>2, <1>3

LEMMA LimboInit ==
  ASSUME NEW i, Instances = {i}, \A s \in Steps : Flow.subs[s] # {}
  PROVE  Init => LimboInv(i)
<1> SUFFICES ASSUME Init PROVE LimboInv(i)
  OBVIOUS
<1>1. NothingAwaited /\ StartedOnce
  BY CountsInit DEF CountsKept
<1>2. /\ stream = <<>> /\ chain[i] = <<>> /\ entry = NoEntry /\ pc[i] = "idle"
      /\ tracker[i] = "off" /\ start = "no" /\ stalling = "idle"
      /\ local[i].pending = {} /\ \A j \in JobIds : jobs[j].st = "none"
  BY NoneIsNoJob DEF Init, NoLocal
<1>3. ChainInOrder(i) /\ StreamInOrder
  BY <1>2 DEF ChainInOrder, StreamInOrder
<1>4. JobsTold(i)
  <2>1. \A S : ~OnWay(i, S)
    BY <1>2 DEF OnWay, Ahead
  <2>2. \A s \in AllSteps : <<"step", s>> \in JobIds /\ <<"resumed", s>> \in JobIds
    BY JobNames DEF StepJobs
  <2> QED BY <1>2, <2>1, <2>2 DEF JobsTold, JobTold
<1>5. IndexKept(i) /\ HandlerKept(i)
  BY <1>2 DEF IndexKept, HandlerKept, HasEvent, EmittedEvents, IsEmitted, NoEntry, Reports,
              Feeding
<1>6. CompletedSteps(stream) = {} /\ FinalFailedSteps(stream) = {} /\ ~HasEvent(stream, "flow.cancel")
  BY <1>2 DEF CompletedSteps, FinalFailedSteps, HasEvent
<1>7. StepsTriggered(i)
  BY <1>6 DEF StepsTriggered, Fed
<1>8. RunDecided(i)
  <2>1. AnalyzeFlowCompletion(Flow, stream) = "running"
    BY <1>6 DEF AnalyzeFlowCompletion, AnalyzeFlow, HasBlockingFailure, HasCriticalLayerFailure,
       AllSteps
  <2> QED BY <2>1 DEF RunDecided
<1> QED BY <1>1, <1>3, <1>4, <1>5, <1>7, <1>8 DEF LimboInv

LEMMA LimboStep ==
  ASSUME NEW i, Instances = {i}, AwaitBefore = {}, AwaitAfter = {}, ~RemoveFinished,
         EntryAfter # "any", Silent = {}
  PROVE  /\ TypeOK /\ TypeOK' /\ CurrentMatches /\ ActiveBacked /\ LocalBacked /\ LimboInv(i)
         /\ [Next]_vars
         => LimboInv(i)'
<1> SUFFICES ASSUME TypeOK, TypeOK', CurrentMatches, ActiveBacked, LocalBacked, LimboInv(i),
                    [Next]_vars
             PROVE  LimboInv(i)'
  OBVIOUS
<1>1. CASE Next
  <2>1. NothingAwaited' /\ StartedOnce'
    BY <1>1, AwaitedStep, StartedStep DEF LimboInv
  <2>2. ChainInOrder(i)' /\ StreamInOrder'
    BY <1>1, ChainOrderStep, StreamOrderStep
  <2>3. JobsTold(i)'
    BY <1>1, JobsToldStep
  <2>4. IndexKept(i)' /\ HandlerKept(i)'
    BY <1>1, HandlerStep, PersistHandled
  <2>5. StepsTriggered(i)'
    BY <1>1, <2>3, TriggeredStep
  <2>6. RunDecided(i)'
    BY <1>1, DecidedStep
  <2> QED BY <2>1, <2>2, <2>3, <2>4, <2>5, <2>6 DEF LimboInv
<1>2. CASE UNCHANGED vars
  <2> USE <1>2 DEF vars, LimboInv
  <2>1. NothingAwaited' /\ StartedOnce'
    BY DEF NothingAwaited, StartedOnce, HasEvent
  <2>2. \A n, S : Ahead(i, n, S)' <=> Ahead(i, n, S)
    BY DEF Ahead
  <2>3. \A S : OnWay(i, S)' <=> OnWay(i, S)
    BY DEF OnWay, Ahead
  <2>4. ChainInOrder(i)'
    BY <2>2 DEF ChainInOrder, EventInOrder
  <2>5. StreamInOrder'
    BY DEF StreamInOrder, HasEvent, IsEmitted
  <2>6. JobsTold(i)'
    BY <2>3 DEF JobsTold, JobTold
  <2>7. IndexKept(i)'
    BY DEF IndexKept, HasEvent, EmittedEvents, IsEmitted
  <2>8. HandlerKept(i)'
    BY <2>3 DEF HandlerKept, HasEvent, Over
  <2>9. CompletedSteps(stream)' = CompletedSteps(stream)
    BY DEF CompletedSteps
  <2>10. StepsTriggered(i)'
    BY <2>9 DEF StepsTriggered, Fed, HasEvent
  <2>11. RunDecided(i)'
    <3>1. FinalFailedSteps(stream)' = FinalFailedSteps(stream)
      BY DEF FinalFailedSteps
    <3>2. AnalyzeFlowCompletion(Flow, stream)' = AnalyzeFlowCompletion(Flow, stream)
      BY <2>9, <3>1 DEF AnalyzeFlowCompletion, AnalyzeFlow, HasBlockingFailure,
         HasCriticalLayerFailure, HasEvent
    <3> QED BY <2>3, <3>2 DEF RunDecided, HasEvent
  <2> QED BY <2>1, <2>4, <2>5, <2>6, <2>7, <2>8, <2>10, <2>11
<1> QED BY <1>1, <1>2

\* Every step is reached from the entry, and none waits for the completion of a step
\* that may fail.
StepsReached ==
  /\ \A s \in Steps : Flow.subs[s] # {} /\ Flow.subs[s] \cap Faulty = {}
  /\ \A U \in SUBSET Steps : U # {} =>
       \E s \in U : \A x \in Flow.subs[s] :
         x \in AllSteps \ U \/ \E t \in AllSteps \ U : x \in Flow.emits[t]

\* A run that has nothing left to happen has had its outcome told by the stream.
LEMMA QuietIsDecided ==
  ASSUME NEW i, Instances = {i}, StepsReached, TypeOK, LimboInv(i), Quiescent,
         ~HasEvent(stream, "flow.cancel")
  PROVE  AnalyzeFlowCompletion(Flow, stream) \in {"completed", "failed"}
<1> DEFINE C == CompletedSteps(stream)
           F == {s \in AllSteps : InStream("step.failed", s)}
           U == AllSteps \ (C \cup F)
<1>1. i \in Instances /\ chain[i] = <<>> /\ pc[i] = "idle" /\ start = "published"
  BY DEF Quiescent
<1>2. \A S : OnWay(i, S) <=> \E n \in DOMAIN stream : stream[n] \in S
  BY <1>1 DEF OnWay, Ahead
<1>3. ASSUME NEW s \in AllSteps
      PROVE  LET j == <<"step", s>>
             IN  /\ jobs[j].st \in {"none", "done", "failed"}
                 /\ jobs[j].st = "done" <=> s \in C
                 /\ jobs[j].st = "failed" <=> s \in F
                 /\ jobs[j].st = "failed" => s \in Faulty
  <2> DEFINE j == <<"step", s>>
  <2>1. JobTold(i, s)
    BY DEF LimboInv, JobsTold
  <2>2. j \in StepJobs /\ j \in JobIds
    BY JobNames DEF StepJobs
  <2>3. jobs[j].st \in {"none", "done", "failed"}
    BY <2>2 DEF Quiescent, TypeOK, Jobs, JobStates
  <2>4. OnWay(i, Told("step.completed", s)) <=> s \in C
    BY <1>2 DEF Told, CompletedSteps, TypeOK
  <2>5. OnWay(i, Told("step.failed", s)) <=> s \in F
    BY <1>2 DEF Told, InStream, TypeOK
  <2> QED BY <2>1, <2>3, <2>4, <2>5 DEF JobTold
<1>4. F \subseteq FinalFailedSteps(stream)
  <2> SUFFICES ASSUME NEW s \in F
               PROVE  s \in FinalFailedSteps(stream)
    OBVIOUS
  <2>1. PICK n \in DOMAIN stream : stream[n].type = "step.failed" /\ stream[n].step = s
    BY DEF InStream
  <2>2. \A m \in DOMAIN stream :
          stream[m].type = "step.retry" /\ stream[m].step = s => m < n
    BY <2>1 DEF LimboInv, StreamInOrder
  <2>3. stream \in Seq(Records)
    BY DEF TypeOK
  <2> QED BY <2>1, <2>2, <2>3 DEF FinalFailedSteps
<1>5. Entry \in C \cup F
  BY <1>1, <1>3 DEF LimboInv, JobsTold, AllSteps
<1> HIDE DEF C, F
<1>6. CASE U = {}
  <2>1. AllSteps \subseteq C \cup FinalFailedSteps(stream)
    BY <1>4, <1>6
  <2> QED BY <2>1 DEF AnalyzeFlowCompletion, AnalyzeFlow, C
<1>7. CASE U # {}
  <2>1. U \in SUBSET Steps
    BY <1>5 DEF AllSteps
  <2>2. PICK s \in U : \A x \in Flow.subs[s] :
          x \in AllSteps \ U \/ \E t \in AllSteps \ U : x \in Flow.emits[t]
    BY <1>7, <2>1 DEF StepsReached
  <2>3. s \in Steps /\ s \in AllSteps /\ jobs[<<"step", s>>].st = "none"
    BY <1>3, <2>1 DEF AllSteps
  <2>4. ~Fed(s)
    BY <1>1, <2>3 DEF LimboInv, StepsTriggered
  <2>5. PICK x \in Flow.subs[s] : \A c \in C : x # c /\ x \notin Flow.emits[c]
    BY <2>4 DEF Fed, C
  <2>6. x \notin F
    <3>1. x \in F => x \in Faulty
      BY <1>3 DEF F
    <3> QED BY <2>3, <3>1 DEF StepsReached
  <2>7. PICK t \in F : x \in Flow.emits[t]
    BY <2>2, <2>5, <2>6
  <2>8. s \in StepDependents(Flow, t)
    <3>1. t \in AllSteps
      BY <2>7 DEF F
    <3> QED BY <2>3, <2>5, <2>7, <3>1 DEF StepDependents, StepDependencies
  <2>9. HasBlockingFailure(Flow, C, FinalFailedSteps(stream))
    BY <1>4, <2>7, <2>8 DEF HasBlockingFailure
  <2> QED BY <2>9 DEF AnalyzeFlowCompletion, AnalyzeFlow, C
<1> QED BY <1>6, <1>7

\* When nothing is left to happen to a run of any flow, whatever failed, it has its
\* verdict or is canceled: with one instance, no awaits and finished jobs kept, when
\* the entry reports nothing before its flow.start is published and every handler that
\* returns has emitted all that its step declares.
THEOREM NeverInLimbo ==
  ASSUME NEW i, Instances = {i}, AwaitBefore = {}, AwaitAfter = {}, ~RemoveFinished,
         EntryAfter # "any", Silent = {}, StepsReached
  PROVE  Spec => []NoLimbo
<1>1. TypeOK /\ LimboInv(i) => NoLimbo
  <2> SUFFICES ASSUME TypeOK, LimboInv(i), Quiescent, ~HasEvent(stream, "flow.cancel")
               PROVE  Over
    BY DEF NoLimbo
  <2>1. AnalyzeFlowCompletion(Flow, stream) \in {"completed", "failed"}
    BY QuietIsDecided
  <2>2. i \in Instances /\ chain[i] = <<>> /\ pc[i] = "idle"
    BY DEF Quiescent
  <2>3. OnWay(i, Terminals)
    BY <2>1, <2>2 DEF LimboInv, RunDecided, Feeding
  <2> QED BY <2>2, <2>3 DEF OnWay, Ahead, Terminals, Over, HasEvent
<1>2. Backed => ActiveBacked /\ LocalBacked
  BY DEF Backed
<1>3. Init => LimboInv(i)
  BY LimboInit DEF StepsReached
<1> QED BY <1>1, <1>2, <1>3, LimboStep, TypeCorrect, AlwaysBacked, PTL DEF Spec
=============================================================================
