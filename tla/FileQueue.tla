------------------------------ MODULE FileQueue ------------------------------
(***************************************************************************)
(* One queue of the built-in file adapter (adapters/builtin/file-queue.ts)  *)
(* in the one process it is made for: the map of jobs, their files, and the *)
(* dispatcher that fastq runs with a bounded concurrency.                   *)
(*                                                                         *)
(* A file is written behind an await, so it lags behind the map.  A write   *)
(* is in flight for as long as its caller waits for it; a process that      *)
(* stops in that time leaves the old file, the new one or a torn one.       *)
(*                                                                         *)
(* The definitions whose names end in Bug are faults such code could have,  *)
(* put in place of the definition after them to test the properties.        *)
(***************************************************************************)
EXTENDS Integers, Sequences, FiniteSets

CONSTANTS
  JobIds,        \* the ids callers enqueue under
  DelayIds,      \* the ids that schedule() makes for jobs with a delay
  LaterJob,      \* the id of the jobs that are delayed or repeated
  RepeatLimit,   \* opts.repeat.limit of the cron schedule; 0: there is none
  Concurrency,   \* of the worker
  MaxAttempts,   \* opts.attempts of every job
  MaxQueueSize,  \* options.maxQueueSize
  Outcomes,      \* what handlers may do: "returns", "throws", "awaits"
  KeepFinished,  \* FALSE: removeOnComplete and removeOnFail are true
  ReuseAtOnce,   \* callers enqueue an id whose file is still being unlinked
  EarlyEnqueue,  \* callers enqueue before the workers are registered
  MayCrash,      \* the process may stop at any time
  MayClose,      \* the adapter may be closed, after which the process stops
  MayPause       \* the queue may be paused

ASSUME FileQueueAssumption ==
  /\ IsFiniteSet(JobIds)
  /\ Concurrency \in Nat \ {0} /\ MaxAttempts \in Nat \ {0} /\ MaxQueueSize \in Nat
  /\ JobIds \cap DelayIds = {} /\ LaterJob \in JobIds /\ RepeatLimit \in Nat
  /\ Outcomes \subseteq {"returns", "throws", "awaits"}
  /\ KeepFinished \in BOOLEAN /\ ReuseAtOnce \in BOOLEAN /\ EarlyEnqueue \in BOOLEAN
  /\ MayCrash \in BOOLEAN /\ MayClose \in BOOLEAN /\ MayPause \in BOOLEAN

Slots == 1..Concurrency
Finished == {"completed", "failed"}
JobStates == {"waiting", "active", "delayed"} \cup Finished
Ids == JobIds \cup DelayIds
Job(st, att) == [st |-> st, att |-> att]
NoJob == Job("none", 0)
Torn == Job("torn", 0)
Jobs == [st : JobStates, att : 0..MaxAttempts]

NoCron == [on |-> FALSE, armed |-> FALSE, busy |-> FALSE, runs |-> 0]
Idle == [pc |-> "idle", id |-> "none", att |-> 0, job |-> NoJob, victims |-> {}]
Stages == {"idle", "activate", "handler", "complete", "retry", "fail", "unlink"}

VARIABLES
  up,        \* "down", "loaded" (after init), "serving" (workers registered);
             \* or "closing" (close() waits for the dispatchers)
  jobs,      \* the map of jobs
  files,     \* the job files
  adding,    \* the ids whose enqueue waits for its first write
  tasks,     \* what fastq holds back
  slots,     \* [Slots -> ..]: the dispatchers at work; job is the write in flight
  timers,    \* [JobIds -> Nat]: retries waiting for their backoff
  delays,    \* [DelayIds -> BOOLEAN]: delays whose timer is running
  cron,      \* the schedule: [on, armed, busy, runs], busy while it enqueues
  paused,    \* workerInfo.paused
  starts,    \* history, [JobIds -> Nat]: handler calls since the id was enqueued
  disturbed  \* history: the process has stopped, or the queue has been paused, once

store == <<jobs, files>>
work == <<adding, tasks, slots, timers>>
later == <<delays, cron>>
vars == <<up, jobs, files, adding, tasks, slots, timers,
          delays, cron, paused, starts, disturbed>>

Init ==
  /\ up = "loaded"
  /\ jobs = [j \in Ids |-> NoJob]
  /\ files = [j \in Ids |-> NoJob]
  /\ adding = {}
  /\ tasks = <<>>
  /\ slots = [w \in Slots |-> Idle]
  /\ timers = [j \in JobIds |-> 0]
  /\ delays = [d \in DelayIds |-> FALSE]
  /\ cron = NoCron
  /\ paused = FALSE
  /\ starts = [j \in JobIds |-> 0]
  /\ disturbed = FALSE

Held == {j \in Ids : jobs[j] # NoJob}
JobsIn(states) == {j \in Ids : jobs[j].st \in states}

-----------------------------------------------------------------------------
(* enqueue: a known id is returned as it is, a full queue throws.            *)

IsKnown_WaitingBug(j) == jobs[j].st \notin {"none", "waiting"}

IsKnown(j) == jobs[j] # NoJob

IsFull == Cardinality(Held) >= MaxQueueSize
Running == up \in {"serving", "closing"}

\* One enqueue of an id is in flight at a time.
Put(j) ==
  /\ ~IsKnown(j) /\ ~IsFull /\ j \notin adding
  /\ ReuseAtOnce \/ ~\E w \in Slots : slots[w].pc = "unlink" /\ slots[w].id = j
  /\ jobs' = [jobs EXCEPT ![j] = Job("waiting", 0)]
  /\ adding' = adding \cup {j}
  /\ starts' = [starts EXCEPT ![j] = 0]

Enqueue(j) ==
  /\ up = "serving" \/ (EarlyEnqueue /\ up = "loaded")
  /\ Put(j)
  /\ UNCHANGED <<up, files, tasks, slots, timers, later, paused, disturbed>>

\* The file is written, and the job goes to fastq unless the queue is paused.
FinishEnqueue(j) ==
  /\ j \in adding \ DelayIds
  /\ adding' = adding \ {j}
  /\ files' = [files EXCEPT ![j] = IF jobs[j] = NoJob THEN Job("waiting", 0) ELSE jobs[j]]
  /\ tasks' = IF Running /\ ~paused THEN Append(tasks, j) ELSE tasks
  /\ UNCHANGED <<up, jobs, slots, timers, later, paused, starts, disturbed>>

-----------------------------------------------------------------------------
(* The dispatcher.  updateJobState changes the map and then awaits the file. *)

Update_UnwrittenBug(w, stage, job) ==
  LET j == slots[w].id
  IN  /\ jobs' = [jobs EXCEPT ![j] = IF @ = NoJob THEN @ ELSE job]
      /\ slots' = [slots EXCEPT ![w].pc = stage]

Update(w, stage, job) ==
  LET j == slots[w].id
  IN  IF jobs[j] = NoJob
      THEN /\ slots' = [slots EXCEPT ![w].pc = stage]
           /\ UNCHANGED jobs
      ELSE /\ jobs' = [jobs EXCEPT ![j] = job]
           /\ slots' = [slots EXCEPT ![w].pc = stage, ![w].job = job]

\* The write of slot w lands: of nothing, when the map had lost the job.
Land(w) ==
  files' = IF slots[w].job = NoJob THEN files
           ELSE [files EXCEPT ![slots[w].id] = slots[w].job]

StartTask(w) ==
  /\ Running /\ ~paused
  /\ slots[w].pc = "idle" /\ tasks # <<>>
  /\ tasks' = Tail(tasks)
  /\ LET j == Head(tasks)
         active == Job("active", jobs[j].att)
     IN  IF jobs[j] = NoJob                         \* Job .. not found
         THEN UNCHANGED <<jobs, slots>>
         ELSE /\ jobs' = [jobs EXCEPT ![j] = active]
              /\ slots' = [slots EXCEPT ![w] = [pc |-> "activate", id |-> j,
                             att |-> jobs[j].att, job |-> active, victims |-> {}]]
  /\ UNCHANGED <<up, files, adding, timers, later, paused, starts, disturbed>>

CallHandler(w) ==
  /\ slots[w].pc = "activate"
  /\ Land(w)
  /\ slots' = [slots EXCEPT ![w].pc = "handler", ![w].job = NoJob]
  /\ starts' = [starts EXCEPT ![slots[w].id] = @ + 1]
  /\ UNCHANGED <<up, jobs, adding, tasks, timers, later, paused, disturbed>>

HandlerReturns(w) ==
  /\ slots[w].pc = "handler" /\ "returns" \in Outcomes
  /\ Update(w, "complete", Job("completed", jobs[slots[w].id].att))
  /\ UNCHANGED <<up, files, adding, tasks, timers, later, paused, starts, disturbed>>

\* The result says awaiting: the job is dropped, to be enqueued anew.
HandlerAwaits(w) ==
  /\ slots[w].pc = "handler" /\ "awaits" \in Outcomes
  /\ jobs' = [jobs EXCEPT ![slots[w].id] = NoJob]
  /\ slots' = [slots EXCEPT ![w].pc = "unlink"]
  /\ UNCHANGED <<up, files, adding, tasks, timers, later, paused, starts, disturbed>>

RetriesLeft_OffByOneBug(att) == att <= MaxAttempts

RetriesLeft(att) == att < MaxAttempts

HandlerThrows(w) ==
  /\ slots[w].pc = "handler" /\ "throws" \in Outcomes
  /\ LET att == slots[w].att + 1
     IN  IF RetriesLeft(att) THEN Update(w, "retry", Job("waiting", att))
                             ELSE Update(w, "fail", Job("failed", att))
  /\ UNCHANGED <<up, files, adding, tasks, timers, later, paused, starts, disturbed>>

ScheduleRetry_TimerBug(w) ==
  /\ slots[w].pc = "retry"
  /\ Land(w)
  /\ slots' = [slots EXCEPT ![w] = Idle]
  /\ UNCHANGED <<up, jobs, adding, tasks, timers, later, paused, starts, disturbed>>

\* setTimeout, after which the task is pushed again.
ScheduleRetry(w) ==
  /\ slots[w].pc = "retry"
  /\ Land(w)
  /\ timers' = [timers EXCEPT ![slots[w].id] = @ + 1]
  /\ slots' = [slots EXCEPT ![w] = Idle]
  /\ UNCHANGED <<up, jobs, adding, tasks, later, paused, starts, disturbed>>

RetryTimer(j) ==
  /\ timers[j] > 0
  /\ timers' = [timers EXCEPT ![j] = @ - 1]
  /\ tasks' = Append(tasks, j)
  /\ UNCHANGED <<up, jobs, files, adding, slots, later, paused, starts, disturbed>>

\* cleanupCompletedJobs and cleanupFailedJobs: the victims are listed once, and
\* each is taken from the map and then, behind an await, unlinked.
Clean(w, victims) ==
  IF victims = {}
  THEN slots' = [slots EXCEPT ![w] = Idle] /\ UNCHANGED jobs
  ELSE \E v \in victims :
         /\ jobs' = [jobs EXCEPT ![v] = NoJob]
         /\ slots' = [slots EXCEPT ![w] = [Idle EXCEPT !.pc = "unlink", !.id = v,
                                                       !.victims = victims \ {v}]]

FinishJob(w) ==
  /\ slots[w].pc \in {"complete", "fail"}
  /\ Land(w)
  /\ Clean(w, IF KeepFinished THEN {}
              ELSE JobsIn({IF slots[w].pc = "complete" THEN "completed" ELSE "failed"}))
  /\ UNCHANGED <<up, adding, tasks, timers, later, paused, starts, disturbed>>

Unlink(w) ==
  /\ slots[w].pc = "unlink"
  /\ files' = [files EXCEPT ![slots[w].id] = NoJob]
  /\ Clean(w, slots[w].victims)
  /\ UNCHANGED <<up, adding, tasks, timers, later, paused, starts, disturbed>>

-----------------------------------------------------------------------------
(* schedule: with a delay, a job of its own stands for the one to come, and   *)
(* stays when that is enqueued; with a cron pattern, nothing is in the map.    *)
(* Bounds: one cron schedule in a process, and none beside a delayed job; none  *)
(* is scheduled after a crash or a pause.                                      *)
Delay(d) ==
  /\ up = "serving" /\ jobs[d] = NoJob /\ d \notin adding
  /\ cron = NoCron /\ ~disturbed
  /\ jobs' = [jobs EXCEPT ![d] = Job("delayed", 0)]
  /\ adding' = adding \cup {d}
  /\ UNCHANGED <<up, files, tasks, slots, timers, later, paused, starts, disturbed>>

StartDelay(d) ==
  /\ d \in adding
  /\ adding' = adding \ {d}
  /\ files' = [files EXCEPT ![d] = Job("delayed", 0)]
  /\ delays' = [delays EXCEPT ![d] = TRUE]
  /\ UNCHANGED <<up, jobs, tasks, slots, timers, cron, paused, starts, disturbed>>

\* The timer enqueues the job; if the queue is full that is lost.
DelayEnds(d) ==
  /\ delays[d] /\ delays' = [delays EXCEPT ![d] = FALSE]
  /\ IF IsKnown(LaterJob) \/ IsFull THEN UNCHANGED <<jobs, adding, starts>> ELSE Put(LaterJob)
  /\ UNCHANGED <<up, files, tasks, slots, timers, cron, paused, disturbed>>

ScheduleCron ==
  /\ up = "serving" /\ RepeatLimit > 0
  /\ cron = NoCron /\ ~disturbed /\ \A d \in DelayIds : jobs[d] = NoJob
  /\ cron' = [cron EXCEPT !.on = TRUE, !.armed = TRUE]
  /\ UNCHANGED <<up, store, work, delays, paused, starts, disturbed>>

\* The callback after its enqueue: the next run, unless that was the last.  When the
\* queue is full enqueue throws, and the timer is set again as it was.
Counted(c) ==
  IF c.runs + 1 < RepeatLimit
  THEN [c EXCEPT !.runs = @ + 1, !.armed = TRUE, !.busy = FALSE]
  ELSE [c EXCEPT !.runs = @ + 1, !.on = FALSE, !.busy = FALSE]

CronFires ==
  /\ cron.armed
  /\ \/ /\ IsKnown(LaterJob)
        /\ cron' = Counted([cron EXCEPT !.armed = FALSE])
        /\ UNCHANGED <<jobs, adding, starts>>
     \/ Put(LaterJob) /\ cron' = [cron EXCEPT !.armed = FALSE, !.busy = TRUE]
  /\ UNCHANGED <<up, files, tasks, slots, timers, delays, paused, disturbed>>

CronGoesOn ==
  /\ cron.busy /\ LaterJob \notin adding
  /\ cron' = Counted(cron)
  /\ UNCHANGED <<up, store, work, delays, paused, starts, disturbed>>

\* The entry and its timer go; a callback that has begun goes on all the same.
Removed == [cron EXCEPT !.on = FALSE, !.armed = IF cron.on THEN FALSE ELSE @]

RemoveScheduledJob ==
  /\ cron.on /\ up = "serving"
  /\ cron' = Removed
  /\ UNCHANGED <<up, store, work, delays, paused, starts, disturbed>>

-----------------------------------------------------------------------------
(* pause and resume, and the life of the process.                            *)

Pause ==
  /\ MayPause /\ up = "serving" /\ ~paused
  /\ paused' = TRUE /\ disturbed' = TRUE
  /\ UNCHANGED <<up, store, work, later, starts>>

\* fastq goes on with what it holds; nothing else is pushed.
Resume ==
  /\ paused
  /\ paused' = FALSE
  /\ UNCHANGED <<up, store, work, later, starts, disturbed>>

IsPending_ActiveBug(j) == jobs[j].st \in {"waiting", "active"}

IsPending(j) == jobs[j].st = "waiting"

\* registerWorker for every handler, then startProcessingQueue, in one go.
StartProcessing ==
  /\ up = "loaded"
  /\ up' = "serving"
  /\ LET pending == {j \in JobIds : IsPending(j)}
     IN  \E order \in [1..Cardinality(pending) -> pending] :
           /\ \A m, n \in DOMAIN order : order[m] = order[n] => m = n
           /\ tasks' = order
  /\ UNCHANGED <<store, adding, slots, timers, later, paused, starts, disturbed>>

\* What a write of job over file leaves when the process stops before it is done.
Leftover(file, job) == {file, job, Torn}

\* What may be left of the file of j, where saved[j] is what has landed.
Leftovers(saved, j) ==
  LET writing == {w \in Slots : slots[w].id = j /\ slots[w].job # NoJob}
      unlinking == {w \in Slots : slots[w].id = j /\ slots[w].pc = "unlink"}
  IN  {saved[j]}
        \cup (UNION {Leftover(saved[j], slots[w].job) : w \in writing})
        \cup (IF j \in adding THEN Leftover(saved[j], jobs[j]) ELSE {})
        \cup (IF unlinking # {} THEN {NoJob} ELSE {})

\* The process stops.
Stops(saved) ==
  /\ up' = "down"
  /\ files' \in {left \in [Ids -> UNION {Leftovers(saved, j) : j \in Ids}] :
                   \A j \in Ids : left[j] \in Leftovers(saved, j)}
  /\ jobs' = [j \in Ids |-> NoJob]
  /\ adding' = {} /\ tasks' = <<>> /\ paused' = FALSE
  /\ slots' = [w \in Slots |-> Idle]
  /\ timers' = [j \in JobIds |-> 0]
  /\ delays' = [d \in DelayIds |-> FALSE]
  /\ cron' = NoCron
  /\ UNCHANGED starts

Crash ==
  /\ MayCrash /\ up # "down" /\ disturbed' = TRUE
  /\ Stops(files)

\* close: schedules end, then the dispatchers' work is waited for; retries and
\* delays keep their timers.
Close ==
  /\ MayClose /\ up = "serving"
  /\ up' = "closing"
  /\ cron' = Removed
  /\ UNCHANGED <<store, work, delays, paused, starts, disturbed>>

\* Every job is written and forgotten, and the process stops.  What timers do while
\* the files are written is left out.
FinishClose ==
  /\ up = "closing"
  /\ tasks = <<>> /\ \A w \in Slots : slots[w] = Idle
  /\ disturbed' = (disturbed \/ adding # {})
  /\ Stops([j \in Ids |-> IF jobs[j] = NoJob THEN files[j] ELSE jobs[j]])

\* loadJobsFromDisk: a file that does not parse ends the loop over the queue's
\* files, and which of them readdir listed before it is not specified.
Restart ==
  /\ up = "down"
  /\ up' = "loaded"
  /\ LET intact == {j \in Ids : files[j] \notin {NoJob, Torn}}
     IN  \E loaded \in SUBSET intact :
           /\ (\A j \in Ids : files[j] # Torn) => loaded = intact
           /\ jobs' = [j \in Ids |-> IF j \in loaded THEN files[j] ELSE NoJob]
  /\ UNCHANGED <<files, work, later, paused, starts, disturbed>>

-----------------------------------------------------------------------------
Dispatch(w) ==
  \/ StartTask(w) \/ CallHandler(w)
  \/ HandlerReturns(w) \/ HandlerAwaits(w) \/ HandlerThrows(w)
  \/ ScheduleRetry(w) \/ FinishJob(w) \/ Unlink(w)

Next ==
  \/ \E j \in JobIds : Enqueue(j) \/ FinishEnqueue(j) \/ RetryTimer(j)
  \/ \E w \in Slots : Dispatch(w)
  \/ \E d \in DelayIds : Delay(d) \/ StartDelay(d) \/ DelayEnds(d)
  \/ ScheduleCron \/ CronFires \/ CronGoesOn \/ RemoveScheduledJob
  \/ Pause \/ Resume \/ StartProcessing \/ Close \/ FinishClose \/ Crash \/ Restart

Spec == Init /\ [][Next]_vars

\* Writes land, handlers end, timers fire, the plugin registers the workers, and
\* a process that has stopped is started again.
Fairness ==
  /\ \A j \in JobIds : WF_vars(FinishEnqueue(j)) /\ WF_vars(RetryTimer(j))
  /\ \A d \in DelayIds : WF_vars(StartDelay(d))
  /\ \A w \in Slots : WF_vars(Dispatch(w))
  /\ WF_vars(StartProcessing) /\ WF_vars(FinishClose) /\ WF_vars(Restart)

FairSpec == Spec /\ Fairness

-----------------------------------------------------------------------------
Dispatchers == [pc : Stages, id : JobIds \cup {"none"}, att : 0..MaxAttempts,
                job : Jobs \cup {NoJob}, victims : SUBSET JobIds]
CronRecords == [on : BOOLEAN, armed : BOOLEAN, busy : BOOLEAN, runs : 0..RepeatLimit]

\* A schedule is armed or enqueues, and has a run left to count when it does.
Schedules ==
  {c \in CronRecords : ~(c.armed /\ c.busy) /\ (c.armed \/ c.busy => c.runs < RepeatLimit)}

\* Every variable stays within its type; no job is ever given more attempts than
\* MaxAttempts allows.
TypeOK ==
  /\ up \in {"down", "loaded", "serving", "closing"}
  /\ jobs \in [Ids -> Jobs \cup {NoJob}]
  /\ files \in [Ids -> Jobs \cup {NoJob, Torn}]
  /\ adding \subseteq Ids
  /\ tasks \in Seq(JobIds)
  /\ slots \in [Slots -> Dispatchers]
  /\ timers \in [JobIds -> Nat]
  /\ delays \in [DelayIds -> BOOLEAN]
  /\ cron \in Schedules
  /\ paused \in BOOLEAN
  /\ starts \in [JobIds -> Nat]
  /\ disturbed \in BOOLEAN

(* What keeps a job in one pair of hands, while finished jobs are kept, an id is  *)
(* not reused before its file is gone, and nothing is enqueued before the workers *)
(* are registered.                                                                *)

Busy(w, j) == slots[w].pc # "idle" /\ slots[w].id = j
Queued(j) == \E n \in DOMAIN tasks : tasks[n] = j

\* A process that does not serve yet, or no more, has nothing in hand.
NothingInHand ==
  up \in {"down", "loaded"} =>
    /\ adding = {} /\ tasks = <<>> /\ cron = NoCron
    /\ \A w \in Slots : slots[w] = Idle
    /\ \A j \in JobIds : timers[j] = 0
    /\ \A d \in DelayIds : ~delays[d]

\* The map agrees with the stage each dispatcher has reached.
SlotsAgree ==
  \A w \in Slots :
    IF slots[w].pc = "idle" THEN slots[w] = Idle
    ELSE LET j == slots[w].id
         IN  /\ j \in JobIds /\ slots[w].victims = {}
             /\ slots[w].job = IF slots[w].pc \in {"handler", "unlink"} THEN NoJob ELSE jobs[j]
             /\ slots[w].pc \in {"activate", "handler"} => jobs[j] = Job("active", slots[w].att)
             /\ slots[w].pc = "complete" => jobs[j].st = "completed"
             /\ slots[w].pc = "retry" => jobs[j].st = "waiting"
             /\ slots[w].pc = "fail" => jobs[j].st = "failed"
             /\ slots[w].pc = "unlink" => jobs[j] = NoJob

\* A job is with its enqueue, in fastq, behind a backoff or in a dispatcher, once.
OneHolder ==
  /\ \A m, n \in DOMAIN tasks : tasks[m] = tasks[n] => m = n
  /\ \A v, w \in Slots : \A j \in JobIds : Busy(v, j) /\ Busy(w, j) => v = w
  /\ \A j \in JobIds :
       /\ j \in adding \/ Queued(j) \/ timers[j] > 0 =>
            jobs[j].st = "waiting" /\ \A w \in Slots : ~Busy(w, j)
       /\ j \in adding => ~Queued(j) /\ timers[j] = 0
       /\ timers[j] > 0 => ~Queued(j) /\ timers[j] = 1
  /\ \A d \in adding \cap DelayIds : jobs[d] = Job("delayed", 0)

\* The attempts that a waiting job, or its file, has behind it count the calls of
\* its handler.
AttemptsCount ==
  \A j \in JobIds :
    /\ starts[j] <= MaxAttempts
    /\ jobs[j].st = "waiting" => starts[j] <= jobs[j].att /\ jobs[j].att < MaxAttempts
    /\ files[j].st = "waiting" => starts[j] <= files[j].att /\ files[j].att < MaxAttempts
    /\ \A w \in Slots : slots[w].id = j =>
         /\ slots[w].pc = "activate" => starts[j] <= slots[w].att /\ slots[w].att < MaxAttempts
         /\ slots[w].pc = "handler" => starts[j] <= slots[w].att + 1 /\ slots[w].att < MaxAttempts

\* A job is in one dispatcher at a time.
HandledOnce ==
  \A v, w \in Slots :
    slots[v].pc \in {"activate", "handler"} /\ slots[w].pc \in {"activate", "handler"}
    /\ slots[v].id = slots[w].id => v = w

\* However often the process restarts, the handler of a job is called at most
\* opts.attempts times for one enqueue.
AttemptsBounded == \A j \in JobIds : starts[j] <= MaxAttempts

\* What the map holds is in the file, once no write of it is in flight.
FilesAgree ==
  \A j \in Held :
    \/ j \in adding
    \/ \E w \in Slots : slots[w].id = j /\ slots[w].job # NoJob
    \/ files[j] = jobs[j]

\* Nothing is left for the queue to do.
AtRest ==
  /\ up = "serving" /\ ~paused
  /\ adding = {} /\ tasks = <<>>
  /\ \A w \in Slots : slots[w] = Idle
  /\ \A j \in JobIds : timers[j] = 0

\* A queue that has come to rest has finished every job it was given, also
\* those it was given before a restart.
NothingForgotten ==
  AtRest => \A j \in JobIds : jobs[j].st \in Finished \cup {"none"}

\* A schedule that is no longer listed enqueues nothing more.
SchedulesEnd == cron.armed => cron.on

\* Every job is finished or dropped, also when the adapter is closed and the process
\* started again, unless the process stops otherwise or the queue is paused.
JobsFinish ==
  \A j \in JobIds :
    jobs[j].st = "waiting" ~>
      \/ jobs[j].st \in Finished
      \/ up = "serving" /\ jobs[j] = NoJob
      \/ disturbed
==============================================================================
