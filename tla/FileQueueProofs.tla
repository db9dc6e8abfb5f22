--------------------------- MODULE FileQueueProofs ---------------------------
(***************************************************************************)
(* The file queue handles a job in one place, as often as its attempts      *)
(* allow, and keeps its file in step with the map, for every number of      *)
(* jobs, dispatchers and attempts, across crashes, restarts, pauses and     *)
(* closes.                                                                  *)
(***************************************************************************)
EXTENDS FileQueue, FiniteSetTheorems, TLAPS

QInv ==
  /\ TypeOK /\ NothingInHand /\ SlotsAgree /\ OneHolder /\ AttemptsCount /\ FilesAgree

Plain == KeepFinished /\ ~ReuseAtOnce /\ ~EarlyEnqueue

LEMMA JobFacts ==
  /\ NoJob.st = "none" /\ Torn.st = "torn" /\ NoJob \notin Jobs /\ Torn \notin Jobs
  /\ Torn # NoJob
  /\ \A st \in JobStates, att \in 0..MaxAttempts : Job(st, att) \in Jobs
  /\ \A st, att : Job(st, att).st = st /\ Job(st, att).att = att
  /\ {"waiting", "active", "delayed", "completed", "failed"} \subseteq JobStates
  /\ \A x \in Jobs : x.st \in JobStates /\ x.att \in 0..MaxAttempts /\ x.st # "none" /\ x.st # "torn"
BY DEF NoJob, Torn, Job, Jobs, JobStates, Finished

LEMMA Bounds ==
  /\ 0 \in 0..MaxAttempts /\ MaxAttempts \in Nat \ {0} /\ Concurrency \in Nat \ {0}
  /\ LaterJob \in JobIds /\ JobIds \subseteq Ids /\ DelayIds \subseteq Ids
  /\ JobIds \cap DelayIds = {}
BY FileQueueAssumption DEF Ids

LEMMA IdleFacts ==
  /\ Idle \in Dispatchers /\ Idle.pc = "idle" /\ Idle.job = NoJob
BY Bounds DEF Idle, Dispatchers, Stages

\* What the map, the files and the dispatchers hold.
LEMMA Holds ==
  ASSUME TypeOK
  PROVE  /\ \A j \in Ids : jobs[j] \in Jobs \cup {NoJob} /\ files[j] \in Jobs \cup {NoJob, Torn}
         /\ \A j \in Ids : jobs[j] = NoJob <=> jobs[j].st = "none"
         /\ \A w \in Slots : slots[w] \in Dispatchers
BY JobFacts DEF TypeOK

\* The dispatchers' stages as SlotsAgree sees them.
LEMMA SlotFacts ==
  ASSUME TypeOK, SlotsAgree, NEW w \in Slots, slots[w].pc # "idle"
  PROVE  /\ slots[w].id \in JobIds /\ slots[w].id \in Ids /\ slots[w].victims = {}
         /\ Busy(w, slots[w].id)
         /\ slots[w].job = IF slots[w].pc \in {"handler", "unlink"} THEN NoJob
                           ELSE jobs[slots[w].id]
         /\ slots[w].pc \in {"activate", "handler"} =>
              jobs[slots[w].id] = Job("active", slots[w].att)
         /\ slots[w].pc = "complete" => jobs[slots[w].id].st = "completed"
         /\ slots[w].pc = "retry" => jobs[slots[w].id].st = "waiting"
         /\ slots[w].pc = "fail" => jobs[slots[w].id].st = "failed"
         /\ slots[w].pc = "unlink" => jobs[slots[w].id] = NoJob
         /\ slots[w].att \in 0..MaxAttempts
<1>1. slots[w] \in Dispatchers
  BY DEF TypeOK
<1> QED BY <1>1, Bounds DEF SlotsAgree, Busy, Dispatchers

LEMMA InitInv == Init => QInv
<1> SUFFICES ASSUME Init PROVE QInv
  OBVIOUS
<1>1. TypeOK
  <2>1. NoCron \in Schedules
    BY FileQueueAssumption DEF NoCron, Schedules, CronRecords
  <2>2. /\ jobs \in [Ids -> Jobs \cup {NoJob}] /\ files \in [Ids -> Jobs \cup {NoJob, Torn}]
        /\ slots \in [Slots -> Dispatchers]
    BY IdleFacts DEF Init
  <2>3. /\ timers \in [JobIds -> Nat] /\ delays \in [DelayIds -> BOOLEAN]
        /\ starts \in [JobIds -> Nat] /\ tasks \in Seq(JobIds) /\ adding \subseteq Ids
    BY DEF Init
  <2> QED BY <2>1, <2>2, <2>3 DEF Init, TypeOK
<1>2. NothingInHand /\ SlotsAgree
  BY IdleFacts DEF Init, NothingInHand, SlotsAgree
<1>3. \A j \in Ids : jobs[j].st = "none" /\ files[j].st = "none" /\ jobs[j] = NoJob
  BY JobFacts DEF Init
<1>4. \A w \in Slots : slots[w].pc = "idle"
  BY IdleFacts DEF Init
<1>5. tasks = <<>> /\ adding = {} /\ \A j \in JobIds : timers[j] = 0 /\ starts[j] = 0
  BY DEF Init
<1>6. OneHolder
  BY <1>4, <1>5 DEF OneHolder, Busy, Queued
<1>7. AttemptsCount
  BY <1>3, <1>4, <1>5, Bounds DEF AttemptsCount
<1>8. FilesAgree
  BY <1>3 DEF FilesAgree, Held
<1> QED BY <1>1, <1>2, <1>6, <1>7, <1>8 DEF QInv

-----------------------------------------------------------------------------
(* A job is put into the map. *)

LEMMA PutKeeps ==
  ASSUME Plain, QInv, NEW j \in JobIds, Put(j), up \notin {"down", "loaded"},
         UNCHANGED <<up, files, tasks, slots, timers, paused, disturbed>>,
         delays' \in [DelayIds -> BOOLEAN], cron' \in Schedules
  PROVE  QInv'
<1> USE DEF QInv
<1>0. j \in Ids /\ jobs[j] = NoJob /\ j \notin adding /\ jobs \in [Ids -> Jobs \cup {NoJob}]
  BY Bounds DEF Put, IsKnown, TypeOK
<1>1. \A w \in Slots : ~Busy(w, j)
  <2> SUFFICES ASSUME NEW w \in Slots, Busy(w, j) PROVE FALSE
    OBVIOUS
  <2>1. slots[w].pc # "unlink"
    BY DEF Plain, Put, Busy
  <2>2. jobs[j] # NoJob
    <3>1. slots[w].pc \in Stages \ {"idle", "unlink"} /\ slots[w].id = j
      BY <2>1, Holds DEF Busy, Dispatchers
    <3>2. jobs[j].st \in {"active", "completed", "waiting", "failed"}
      BY <3>1, SlotFacts, JobFacts DEF Stages
    <3> QED BY <3>2, JobFacts
  <2> QED BY <1>0, <2>2
<1>2. ~Queued(j) /\ timers[j] = 0
  <2>1. jobs[j].st # "waiting"
    BY <1>0, JobFacts
  <2> QED BY <2>1 DEF OneHolder, TypeOK
<1>3. /\ jobs'[j] = Job("waiting", 0) /\ \A k \in Ids \ {j} : jobs'[k] = jobs[k]
      /\ adding' = adding \cup {j}
      /\ starts'[j] = 0 /\ \A k \in JobIds \ {j} : starts'[k] = starts[k]
  BY <1>0, Bounds DEF Put, TypeOK
<1>4. TypeOK'
  <2>1. jobs' \in [Ids -> Jobs \cup {NoJob}]
    BY <1>0, JobFacts, Bounds DEF Put
  <2>2. starts' \in [JobIds -> Nat] /\ adding' \subseteq Ids
    BY <1>0 DEF Put, TypeOK
  <2> QED BY <2>1, <2>2 DEF TypeOK
<1>5. NothingInHand'
  BY DEF NothingInHand
<1>6. SlotsAgree'
  <2> SUFFICES ASSUME NEW w \in Slots, slots[w].pc # "idle"
               PROVE  jobs'[slots[w].id] = jobs[slots[w].id]
    BY DEF SlotsAgree
  <2> QED BY <1>1, <1>3, SlotFacts
<1>7. OneHolder'
  <2>1. \A k \in JobIds : Queued(k)' = Queued(k) /\ \A w \in Slots : Busy(w, k)' = Busy(w, k)
    BY DEF Queued, Busy
  <2>2. \A k \in JobIds : k # j => jobs'[k] = jobs[k] /\ (k \in adding' <=> k \in adding)
    BY <1>3, Bounds
  <2>3. jobs'[j].st = "waiting"
    BY <1>3, JobFacts
  <2>4. \A d \in adding' \cap DelayIds : d \in adding /\ jobs'[d] = jobs[d]
    BY <1>3, Bounds
  <2> QED BY <1>1, <1>2, <2>1, <2>2, <2>3, <2>4 DEF OneHolder
<1>8. AttemptsCount'
  <2>1. jobs'[j].att = 0 /\ starts'[j] = 0
    BY <1>3, JobFacts
  <2>2. files[j].st = "waiting" => files[j].att \in Nat
    BY <1>0, Holds, JobFacts
  <2>3. \A w \in Slots : slots[w].id = j => slots[w].pc = "idle"
    BY <1>1 DEF Busy
  <2>4. \A k \in JobIds : k # j => jobs'[k] = jobs[k] /\ starts'[k] = starts[k]
    BY <1>3, Bounds
  <2> QED BY <2>1, <2>2, <2>3, <2>4, Bounds DEF AttemptsCount
<1>9. FilesAgree'
  BY <1>3 DEF FilesAgree, Held
<1> QED BY <1>4, <1>5, <1>6, <1>7, <1>8, <1>9

-----------------------------------------------------------------------------
(* A dispatcher goes on with its job. *)

\* x is what becomes of the job in the map, s of the dispatcher.
StageAgrees(s, j, x) ==
  IF s.pc = "idle" THEN s = Idle
  ELSE /\ s.id = j /\ s.victims = {}
       /\ s.job = IF s.pc \in {"handler", "unlink"} THEN NoJob ELSE x
       /\ s.pc \in {"activate", "handler"} => x = Job("active", s.att)
       /\ s.pc = "complete" => x.st = "completed"
       /\ s.pc = "retry" => x.st = "waiting"
       /\ s.pc = "fail" => x.st = "failed"
       /\ s.pc = "unlink" => x = NoJob

LEMMA HolderStep ==
  ASSUME Plain, QInv, NEW w \in Slots, NEW j, j = slots[w].id, slots[w].pc # "idle",
         NEW s \in Dispatchers, NEW x \in Jobs \cup {NoJob},
         slots' = [slots EXCEPT ![w] = s], jobs' = [jobs EXCEPT ![j] = x],
         UNCHANGED <<up, adding, tasks, later, paused, disturbed>>,
         files' = files \/ files' = [files EXCEPT ![j] = x],
         timers' = [timers EXCEPT ![j] = IF slots[w].pc = "retry" THEN @ + 1 ELSE @],
         starts' = [starts EXCEPT ![j] = IF slots[w].pc = "activate" THEN @ + 1 ELSE @],
         StageAgrees(s, j, x),
         slots[w].pc = "retry" => s = Idle /\ x.st = "waiting",
         x = NoJob \/ s.job # NoJob \/ files'[j] = x,
         starts'[j] <= MaxAttempts,
         x.st = "waiting" => starts'[j] <= x.att /\ x.att < MaxAttempts,
         files'[j].st = "waiting" => starts'[j] <= files'[j].att /\ files'[j].att < MaxAttempts,
         s.pc = "activate" => starts'[j] <= s.att /\ s.att < MaxAttempts,
         s.pc = "handler" => starts'[j] <= s.att + 1 /\ s.att < MaxAttempts
  PROVE  QInv'
<1> USE DEF QInv
<1>0. /\ j \in JobIds /\ j \in Ids /\ Busy(w, j)
      /\ jobs \in [Ids -> Jobs \cup {NoJob}] /\ files \in [Ids -> Jobs \cup {NoJob, Torn}]
      /\ slots \in [Slots -> Dispatchers] /\ timers \in [JobIds -> Nat]
      /\ starts \in [JobIds -> Nat]
  BY SlotFacts DEF TypeOK
<1>1. \A v \in Slots : v # w => ~Busy(v, j) /\ slots'[v] = slots[v]
  BY <1>0 DEF OneHolder
<1>2. j \notin adding /\ ~Queued(j) /\ timers[j] = 0
  BY <1>0 DEF OneHolder
<1>3. /\ slots'[w] = s /\ jobs'[j] = x /\ files'[j] \in {files[j], x}
      /\ \A k \in Ids : k # j => jobs'[k] = jobs[k] /\ files'[k] = files[k]
      /\ \A k \in JobIds : k # j => timers'[k] = timers[k] /\ starts'[k] = starts[k]
  BY <1>0
<1>4. TypeOK'
  <2>1. jobs' \in [Ids -> Jobs \cup {NoJob}] /\ slots' \in [Slots -> Dispatchers]
    BY <1>0
  <2>2. files' \in [Ids -> Jobs \cup {NoJob, Torn}]
    BY <1>0
  <2>3. timers' \in [JobIds -> Nat] /\ starts' \in [JobIds -> Nat]
    BY <1>0
  <2> QED BY <2>1, <2>2, <2>3 DEF TypeOK, later
<1>5. NothingInHand'
  <2>1. up \notin {"down", "loaded"}
    BY IdleFacts DEF NothingInHand
  <2> QED BY <2>1 DEF NothingInHand
<1>6. SlotsAgree'
  <2>1. ASSUME NEW v \in Slots, v # w, slots[v].pc # "idle"
        PROVE  jobs'[slots[v].id] = jobs[slots[v].id]
    <3>1. slots[v].id # j /\ slots[v].id \in Ids
      BY <1>1, <2>1, SlotFacts
    <3> QED BY <1>3, <3>1
  <2>2. ASSUME NEW v \in Slots
        PROVE  slots'[v].pc # "idle" => slots'[v].id \in JobIds
    BY <1>0, <1>1, <1>3, SlotFacts DEF StageAgrees
  <2> QED BY <1>1, <1>3, <2>1, <2>2 DEF SlotsAgree, StageAgrees
<1>7. OneHolder'
  <2>1. \A k \in JobIds : Queued(k)' = Queued(k)
    BY DEF Queued
  <2>2. \A k \in JobIds, v \in Slots : Busy(v, k)' => Busy(v, k)
    BY <1>0, <1>1, <1>3, IdleFacts DEF Busy, StageAgrees
  <2>3. CASE slots[w].pc = "retry"
    <3>1. \A v \in Slots : ~Busy(v, j)'
      BY <1>1, <1>3, <2>3, IdleFacts DEF Busy
    <3>2. timers'[j] = 1 /\ jobs'[j].st = "waiting"
      BY <1>0, <1>2, <1>3, <2>3
    <3>3. \A d \in adding \cap DelayIds : jobs'[d] = jobs[d]
      BY <1>2, <1>3, Bounds
    <3>4. \A k \in JobIds : k # j => jobs'[k] = jobs[k] /\ timers'[k] = timers[k]
      BY <1>3, Bounds
    <3> QED BY <1>2, <2>1, <2>2, <3>1, <3>2, <3>3, <3>4 DEF OneHolder
  <2>4. CASE slots[w].pc # "retry"
    <3>1. timers'[j] = 0
      BY <1>0, <1>2, <2>4
    <3>2. \A d \in adding \cap DelayIds : jobs'[d] = jobs[d]
      BY <1>2, <1>3, Bounds
    <3>3. \A k \in JobIds : k # j => jobs'[k] = jobs[k] /\ timers'[k] = timers[k]
      BY <1>3, Bounds
    <3> QED BY <1>2, <2>1, <2>2, <3>1, <3>2, <3>3 DEF OneHolder
  <2> QED BY <2>3, <2>4
<1>8. AttemptsCount'
  <2>1. \A k \in JobIds : k # j =>
          jobs'[k] = jobs[k] /\ files'[k] = files[k] /\ starts'[k] = starts[k]
    BY <1>3, Bounds
  <2>2. \A v \in Slots : v # w => slots'[v] = slots[v] /\ (slots[v].id = j => slots[v].pc = "idle")
    BY <1>1 DEF Busy
  <2>3. slots'[w].id = j \/ slots'[w].pc = "idle"
    BY <1>3, IdleFacts DEF StageAgrees
  <2>4. slots'[w] = s /\ jobs'[j] = x
    BY <1>3
  <2> QED BY <2>1, <2>2, <2>3, <2>4 DEF AttemptsCount
<1>9. FilesAgree'
  <2> SUFFICES ASSUME NEW k \in Ids, jobs'[k] # NoJob, k \notin adding,
                      \A v \in Slots : ~(slots'[v].id = k /\ slots'[v].job # NoJob)
               PROVE  files'[k] = jobs'[k]
    BY DEF FilesAgree, Held
  <2>1. CASE k = j
    <3>1. s.job = NoJob
      BY <1>3, <2>1, IdleFacts DEF StageAgrees
    <3> QED BY <1>3, <2>1, <3>1
  <2>2. CASE k # j
    <3>1. \A v \in Slots : ~(slots[v].id = k /\ slots[v].job # NoJob)
      BY <1>1, <1>3, <2>2
    <3> QED BY <1>3, <2>2, <3>1 DEF FilesAgree, Held
  <2> QED BY <2>1, <2>2
<1> QED BY <1>4, <1>5, <1>6, <1>7, <1>8, <1>9

LEMMA DispatchKeeps ==
  ASSUME Plain, QInv, NEW w \in Slots, Dispatch(w), ~StartTask(w)
  PROVE  QInv'
<1> DEFINE j == slots[w].id
<1> USE DEF later
<1>q. TypeOK /\ SlotsAgree
  BY DEF QInv
<1>0. /\ slots[w] \in Dispatchers /\ slots \in [Slots -> Dispatchers]
      /\ jobs \in [Ids -> Jobs \cup {NoJob}] /\ files \in [Ids -> Jobs \cup {NoJob, Torn}]
      /\ timers \in [JobIds -> Nat] /\ starts \in [JobIds -> Nat]
  BY <1>q DEF TypeOK
<1>1. slots[w].pc # "idle"
  BY DEF Dispatch, CallHandler, HandlerReturns, HandlerAwaits, HandlerThrows, ScheduleRetry,
         FinishJob, Unlink
<1>2. /\ j \in JobIds /\ j \in Ids /\ slots[w].victims = {} /\ slots[w].att \in 0..MaxAttempts
      /\ slots[w].job = IF slots[w].pc \in {"handler", "unlink"} THEN NoJob ELSE jobs[j]
      /\ slots[w].pc \in {"activate", "handler"} => jobs[j] = Job("active", slots[w].att)
      /\ slots[w].pc = "complete" => jobs[j].st = "completed"
      /\ slots[w].pc = "retry" => jobs[j].st = "waiting"
      /\ slots[w].pc = "fail" => jobs[j].st = "failed"
      /\ slots[w].pc = "unlink" => jobs[j] = NoJob
  BY <1>1, <1>q, SlotFacts
<1>3. /\ starts[j] \in Nat /\ starts[j] <= MaxAttempts
      /\ jobs[j].st = "waiting" => starts[j] <= jobs[j].att /\ jobs[j].att < MaxAttempts
      /\ files[j].st = "waiting" => starts[j] <= files[j].att /\ files[j].att < MaxAttempts
      /\ slots[w].pc = "activate" => starts[j] <= slots[w].att /\ slots[w].att < MaxAttempts
      /\ slots[w].pc = "handler" => starts[j] <= slots[w].att + 1 /\ slots[w].att < MaxAttempts
  BY <1>0, <1>2 DEF QInv, AttemptsCount
<1>4. jobs[j] \in Jobs \cup {NoJob} /\ jobs' = jobs => jobs' = [jobs EXCEPT ![j] = jobs[j]]
  BY <1>0, <1>2
<1>5. \A n : n = timers[j] => timers = [timers EXCEPT ![j] = n]
  BY <1>0
<1>6. \A n : n = starts[j] => starts = [starts EXCEPT ![j] = n]
  BY <1>0
<1> HIDE DEF j
<1>7. CASE CallHandler(w)
  <2> DEFINE s == [slots[w] EXCEPT !.pc = "handler", !.job = NoJob]
  <2>0. slots[w].pc = "activate" /\ slots[w].job = jobs[j] /\ jobs[j] # NoJob /\ jobs[j] \in Jobs
    <3>1. jobs[j] = Job("active", slots[w].att)
      BY <1>2, <1>7 DEF CallHandler
    <3> QED BY <1>0, <1>2, <1>7, <3>1, JobFacts DEF CallHandler
  <2>1. s \in Dispatchers /\ slots' = [slots EXCEPT ![w] = s]
    BY <1>0, <1>7 DEF CallHandler, Dispatchers, Stages
  <2>2. /\ s.pc = "handler" /\ s.job = NoJob /\ s.id = j /\ s.att = slots[w].att
        /\ s.victims = {}
    BY <1>0, <1>2 DEF Dispatchers, j
  <2>3. files' = [files EXCEPT ![j] = jobs[j]] /\ files'[j] = jobs[j]
    BY <1>0, <1>2, <1>7, <2>0 DEF CallHandler, Land, j
  <2>4. starts' = [starts EXCEPT ![j] = @ + 1] /\ starts'[j] = starts[j] + 1
    BY <1>0, <1>2, <1>7 DEF CallHandler, j
  <2>5. jobs[j].st = "active"
    BY <1>2, <2>0, JobFacts
  <2>6. StageAgrees(s, j, jobs[j])
    BY <1>2, <2>0, <2>2 DEF StageAgrees
  <2>7. starts'[j] <= slots[w].att + 1 /\ starts'[j] <= MaxAttempts /\ slots[w].att < MaxAttempts
    BY <1>2, <1>3, <2>0, <2>4, Bounds
  <2>8. UNCHANGED <<up, jobs, adding, tasks, timers, later, paused, disturbed>>
    BY <1>7 DEF CallHandler
  <2> HIDE DEF s
  <2> QED
    BY <1>1, <1>4, <1>5, <2>0, <2>1, <2>2, <2>3, <2>4, <2>5, <2>6, <2>7, <2>8, HolderStep DEF j
<1>8. ASSUME NEW stage \in {"complete", "retry", "fail"}, NEW x \in Jobs,
             slots[w].pc = "handler", Update(w, stage, x),
             stage = "complete" => x.st = "completed",
             stage = "retry" => x.st = "waiting" /\ starts[j] <= x.att /\ x.att < MaxAttempts,
             stage = "fail" => x.st = "failed",
             UNCHANGED <<up, files, adding, tasks, timers, later, paused, starts, disturbed>>
      PROVE  QInv'
  <2> DEFINE s == [slots[w] EXCEPT !.pc = stage, !.job = x]
  <2>0. jobs[j] # NoJob
    BY <1>2, <1>8, JobFacts
  <2>1. s \in Dispatchers /\ slots' = [slots EXCEPT ![w] = s]
    BY <1>0, <1>8, <2>0 DEF Update, Dispatchers, Stages, j
  <2>2. s.pc = stage /\ s.job = x /\ s.id = j /\ s.victims = {}
    BY <1>0, <1>2 DEF Dispatchers, j
  <2>3. jobs' = [jobs EXCEPT ![j] = x]
    BY <1>8, <2>0 DEF Update, j
  <2>4. StageAgrees(s, j, x)
    BY <1>8, <2>2 DEF StageAgrees
  <2>5. x # NoJob
    BY JobFacts
  <2> HIDE DEF s
  <2> QED
    BY <1>1, <1>3, <1>5, <1>6, <1>8, <2>1, <2>2, <2>3, <2>4, <2>5, HolderStep DEF j
<1>9. CASE HandlerReturns(w)
  <2> DEFINE x == Job("completed", jobs[slots[w].id].att)
  <2>1. x \in Jobs /\ x.st = "completed"
    <3>1. jobs[j] \in Jobs
      BY <1>2, <1>9, JobFacts DEF HandlerReturns
    <3> QED BY <3>1, JobFacts DEF j
  <2>2. slots[w].pc = "handler" /\ Update(w, "complete", x)
    BY <1>9 DEF HandlerReturns
  <2>3. UNCHANGED <<up, files, adding, tasks, timers, later, paused, starts, disturbed>>
    BY <1>9 DEF HandlerReturns
  <2> HIDE DEF x
  <2> QED BY <1>8, <2>1, <2>2, <2>3
<1>10. CASE HandlerThrows(w)
  <2> DEFINE att == slots[w].att + 1
  <2>0. slots[w].pc = "handler" /\ att \in 0..MaxAttempts /\ starts[j] <= att
    BY <1>2, <1>3, <1>10, Bounds DEF HandlerThrows
  <2>1. UNCHANGED <<up, files, adding, tasks, timers, later, paused, starts, disturbed>>
    BY <1>10 DEF HandlerThrows
  <2>2. CASE RetriesLeft(att)
    <3>1. Update(w, "retry", Job("waiting", att))
      BY <1>10, <2>2 DEF HandlerThrows
    <3>2. Job("waiting", att) \in Jobs /\ Job("waiting", att).st = "waiting"
          /\ Job("waiting", att).att = att /\ att < MaxAttempts
      BY <2>0, <2>2, JobFacts DEF RetriesLeft
    <3> QED BY <1>8, <2>0, <2>1, <3>1, <3>2
  <2>3. CASE ~RetriesLeft(att)
    <3>1. Update(w, "fail", Job("failed", att))
      BY <1>10, <2>3 DEF HandlerThrows
    <3>2. Job("failed", att) \in Jobs /\ Job("failed", att).st = "failed"
      BY <2>0, JobFacts
    <3> QED BY <1>8, <2>0, <2>1, <3>1, <3>2
  <2> QED BY <2>2, <2>3
<1>11. CASE HandlerAwaits(w)
  <2> DEFINE s == [slots[w] EXCEPT !.pc = "unlink"]
  <2>1. s \in Dispatchers /\ slots' = [slots EXCEPT ![w] = s]
    BY <1>0, <1>11 DEF HandlerAwaits, Dispatchers, Stages
  <2>2. s.pc = "unlink" /\ s.job = NoJob /\ s.id = j /\ s.victims = {} /\ slots[w].pc = "handler"
    BY <1>0, <1>2, <1>11 DEF HandlerAwaits, Dispatchers, j
  <2>3. jobs' = [jobs EXCEPT ![j] = NoJob]
    BY <1>11 DEF HandlerAwaits, j
  <2>4. StageAgrees(s, j, NoJob)
    BY <2>2 DEF StageAgrees
  <2>5. UNCHANGED <<up, files, adding, tasks, timers, later, paused, starts, disturbed>>
    BY <1>11 DEF HandlerAwaits
  <2> HIDE DEF s
  <2> QED
    BY <1>1, <1>3, <1>5, <1>6, <2>1, <2>2, <2>3, <2>4, <2>5, JobFacts, HolderStep DEF j
<1>12. CASE ScheduleRetry(w)
  <2>1. slots[w].pc = "retry" /\ slots' = [slots EXCEPT ![w] = Idle] /\ slots[w].job = jobs[j]
    BY <1>2, <1>12 DEF ScheduleRetry
  <2>2. jobs[j].st = "waiting" /\ jobs[j] # NoJob
    BY <1>2, <2>1, JobFacts
  <2>3. files' = [files EXCEPT ![j] = jobs[j]] /\ files'[j] = jobs[j]
    BY <1>0, <1>2, <1>12, <2>1, <2>2 DEF ScheduleRetry, Land, j
  <2>4. timers' = [timers EXCEPT ![j] = @ + 1]
    BY <1>12 DEF ScheduleRetry, j
  <2>5. StageAgrees(Idle, j, jobs[j])
    BY IdleFacts DEF StageAgrees
  <2>6. UNCHANGED <<up, jobs, adding, tasks, later, paused, starts, disturbed>>
    BY <1>12 DEF ScheduleRetry
  <2> QED
    BY <1>0, <1>1, <1>2, <1>3, <1>4, <1>6, <2>1, <2>2, <2>3, <2>4, <2>5, <2>6, IdleFacts, HolderStep DEF j
<1>13. CASE FinishJob(w)
  <2>1. slots[w].pc \in {"complete", "fail"} /\ slots[w].job = jobs[j]
    BY <1>2, <1>13 DEF FinishJob
  <2>2. slots' = [slots EXCEPT ![w] = Idle] /\ UNCHANGED jobs
    BY <1>13 DEF FinishJob, Clean, Plain
  <2>3. jobs[j].st \in {"completed", "failed"} /\ jobs[j] # NoJob
    BY <1>2, <2>1, JobFacts
  <2>4. files' = [files EXCEPT ![j] = jobs[j]] /\ files'[j] = jobs[j]
    BY <1>0, <1>2, <1>13, <2>1, <2>3 DEF FinishJob, Land, j
  <2>5. StageAgrees(Idle, j, jobs[j])
    BY IdleFacts DEF StageAgrees
  <2>6. UNCHANGED <<up, adding, tasks, timers, later, paused, starts, disturbed>>
    BY <1>13 DEF FinishJob
  <2> QED
    BY <1>0, <1>1, <1>2, <1>3, <1>4, <1>5, <1>6, <2>1, <2>2, <2>3, <2>4, <2>5, <2>6, IdleFacts, HolderStep DEF j
<1>14. CASE Unlink(w)
  <2>1. slots[w].pc = "unlink" /\ jobs[j] = NoJob
    BY <1>2, <1>14 DEF Unlink
  <2>2. slots' = [slots EXCEPT ![w] = Idle] /\ UNCHANGED jobs
    BY <1>2, <1>14 DEF Unlink, Clean
  <2>3. files' = [files EXCEPT ![j] = jobs[j]] /\ files'[j] = NoJob
    BY <1>0, <1>2, <1>14, <2>1 DEF Unlink, j
  <2>4. StageAgrees(Idle, j, jobs[j])
    BY IdleFacts DEF StageAgrees
  <2>5. UNCHANGED <<up, adding, tasks, timers, later, paused, starts, disturbed>>
    BY <1>14 DEF Unlink
  <2> QED
    BY <1>0, <1>1, <1>2, <1>3, <1>4, <1>5, <1>6, <2>1, <2>2, <2>3, <2>4, <2>5, JobFacts, IdleFacts, HolderStep DEF j
<1> QED BY <1>7, <1>9, <1>10, <1>11, <1>12, <1>13, <1>14 DEF Dispatch

-----------------------------------------------------------------------------
(* fastq: a task is taken, pushed, or pushed again after its backoff. *)

LEMMA StartTaskKeeps ==
  ASSUME Plain, QInv, NEW w \in Slots, StartTask(w)
  PROVE  QInv'
<1> USE DEF QInv, later
<1> DEFINE j == Head(tasks)
           s == [pc |-> "activate", id |-> j, att |-> jobs[j].att,
                 job |-> Job("active", jobs[j].att), victims |-> {}]
<1>0. /\ tasks \in Seq(JobIds) /\ tasks # <<>> /\ slots[w].pc = "idle"
      /\ jobs \in [Ids -> Jobs \cup {NoJob}] /\ files \in [Ids -> Jobs \cup {NoJob, Torn}]
      /\ slots \in [Slots -> Dispatchers]
      /\ UNCHANGED <<up, files, adding, timers, delays, cron, paused, starts, disturbed>>
      /\ up \notin {"down", "loaded"}
  BY DEF StartTask, TypeOK, Running
<1>1. 1 \in DOMAIN tasks /\ j = tasks[1] /\ j \in JobIds /\ j \in Ids
  BY <1>0, Bounds
<1>2. /\ Queued(j) /\ jobs[j].st = "waiting" /\ jobs[j] \in Jobs /\ j \notin adding
      /\ timers[j] = 0 /\ \A v \in Slots : ~Busy(v, j)
  <2>1. Queued(j)
    BY <1>1 DEF Queued
  <2>2. jobs[j].st = "waiting" /\ jobs[j] # NoJob
    BY <1>1, <2>1, JobFacts DEF OneHolder
  <2> QED BY <1>0, <1>1, <2>1, <2>2 DEF OneHolder, TypeOK
<1>3. /\ jobs' = [jobs EXCEPT ![j] = Job("active", jobs[j].att)]
      /\ slots' = [slots EXCEPT ![w] = s] /\ tasks' = Tail(tasks)
  BY <1>2, JobFacts DEF StartTask
<1>4. Job("active", jobs[j].att) \in Jobs /\ jobs[j].att \in 0..MaxAttempts
  BY <1>2, JobFacts
<1>5. s \in Dispatchers
  BY <1>1, <1>4 DEF Dispatchers, Stages
<1>6. /\ s.pc = "activate" /\ s.id = j /\ s.att = jobs[j].att /\ s.victims = {}
      /\ s.job = Job("active", jobs[j].att)
  OBVIOUS
<1>7. /\ jobs'[j] = Job("active", jobs[j].att) /\ slots'[w] = s
      /\ \A k \in Ids : k # j => jobs'[k] = jobs[k]
      /\ \A v \in Slots : v # w => slots'[v] = slots[v]
  BY <1>0, <1>1, <1>3
<1>8. Job("active", jobs[j].att).st = "active" /\ Job("active", jobs[j].att) # NoJob
  BY JobFacts, <1>4
<1>9. /\ tasks' \in Seq(JobIds)
      /\ \A n \in DOMAIN tasks' : n + 1 \in DOMAIN tasks /\ tasks'[n] = tasks[n + 1] /\ n + 1 # 1
  BY <1>0, <1>3
<1> HIDE DEF j, s
<1>10. TypeOK'
  <2>1. jobs' \in [Ids -> Jobs \cup {NoJob}] /\ slots' \in [Slots -> Dispatchers]
    BY <1>0, <1>3, <1>4, <1>5
  <2> QED BY <1>0, <1>9, <2>1 DEF TypeOK
<1>11. NothingInHand'
  BY <1>0 DEF NothingInHand
<1>12. SlotsAgree'
  <2>1. ASSUME NEW v \in Slots, v # w, slots[v].pc # "idle"
        PROVE  jobs'[slots[v].id] = jobs[slots[v].id]
    <3>1. slots[v].id # j /\ slots[v].id \in Ids
      BY <1>2, <2>1, SlotFacts
    <3> QED BY <1>7, <3>1
  <2> QED BY <1>1, <1>6, <1>7, <2>1 DEF SlotsAgree
<1>13. OneHolder'
  <2>1. \A k \in JobIds : Queued(k)' => Queued(k) /\ k # j
    <3> SUFFICES ASSUME NEW k \in JobIds, NEW n \in DOMAIN tasks', tasks'[n] = k
                 PROVE  Queued(k) /\ k # j
      BY DEF Queued
    <3> QED BY <1>1, <1>9 DEF Queued, OneHolder
  <2>2. \A m, n \in DOMAIN tasks' : tasks'[m] = tasks'[n] => m = n
    <3> SUFFICES ASSUME NEW m \in DOMAIN tasks', NEW n \in DOMAIN tasks', tasks'[m] = tasks'[n]
                 PROVE  m = n
      OBVIOUS
    <3>1. m + 1 = n + 1
      BY <1>9 DEF OneHolder
    <3>2. m \in Nat /\ n \in Nat
      BY <1>9
    <3> QED BY <3>1, <3>2
  <2>3. \A v \in Slots, k \in JobIds : Busy(v, k)' <=> (IF v = w THEN k = j ELSE Busy(v, k))
    BY <1>6, <1>7 DEF Busy
  <2>4. \A k \in JobIds : k # j => jobs'[k] = jobs[k]
    BY <1>7, Bounds
  <2>5. \A d \in adding \cap DelayIds : jobs'[d] = jobs[d]
    BY <1>2, <1>7, Bounds
  <2>6. \A v \in Slots : v # w => ~Busy(v, j)
    BY <1>2
  <2>7. \A k \in JobIds : ~Busy(w, k)
    BY <1>0 DEF Busy
  <2>8. \A v1, v2 \in Slots : \A k \in JobIds : Busy(v1, k)' /\ Busy(v2, k)' => v1 = v2
    BY <2>3, <2>6 DEF OneHolder
  <2>9. ASSUME NEW k \in JobIds, k \in adding \/ Queued(k)' \/ timers[k] > 0
        PROVE  jobs'[k].st = "waiting" /\ \A v \in Slots : ~Busy(v, k)'
    <3>1. k # j
      BY <1>2, <2>1, <2>9, Bounds
    <3> QED BY <2>1, <2>3, <2>4, <2>9, <3>1 DEF OneHolder
  <2>10. \A k \in JobIds : k \in adding => ~Queued(k)' /\ timers[k] = 0
    BY <2>1 DEF OneHolder
  <2>11. \A k \in JobIds : timers[k] > 0 => ~Queued(k)' /\ timers[k] = 1
    BY <2>1 DEF OneHolder
  <2>12. \A d \in adding \cap DelayIds : jobs'[d] = Job("delayed", 0)
    BY <2>5 DEF OneHolder
  <2> QED BY <1>0, <2>2, <2>8, <2>9, <2>10, <2>11, <2>12 DEF OneHolder
<1>14. AttemptsCount'
  <2>1. starts[j] <= jobs[j].att /\ jobs[j].att < MaxAttempts
    BY <1>1, <1>2 DEF AttemptsCount
  <2>2. \A k \in JobIds : k # j => jobs'[k] = jobs[k]
    BY <1>7, Bounds
  <2>3. \A v \in Slots : v # w /\ slots[v].id = j => slots[v].pc = "idle"
    BY <1>2 DEF Busy
  <2> QED BY <1>0, <1>6, <1>7, <1>8, <2>1, <2>2, <2>3 DEF AttemptsCount
<1>15. FilesAgree'
  <2> SUFFICES ASSUME NEW k \in Ids, jobs'[k] # NoJob, k \notin adding,
                      \A v \in Slots : ~(slots'[v].id = k /\ slots'[v].job # NoJob)
               PROVE  files[k] = jobs'[k]
    BY <1>0 DEF FilesAgree, Held
  <2>1. k # j
    BY <1>6, <1>7, <1>8
  <2>2. slots[w].job = NoJob
    BY <1>0, IdleFacts DEF SlotsAgree
  <2>3. \A v \in Slots : ~(slots[v].id = k /\ slots[v].job # NoJob)
    BY <1>7, <2>2
  <2> QED BY <1>7, <2>1, <2>3 DEF FilesAgree, Held
<1> QED BY <1>10, <1>11, <1>12, <1>13, <1>14, <1>15

\* A push: the task of j goes to the end of the queue.
LEMMA PushKeeps ==
  ASSUME QInv, NEW j \in JobIds, tasks' = Append(tasks, j), ~Queued(j)
  PROVE  /\ tasks' \in Seq(JobIds)
         /\ \A k \in JobIds : Queued(k)' <=> Queued(k) \/ k = j
         /\ \A m, n \in DOMAIN tasks' : tasks'[m] = tasks'[n] => m = n
<1>0. tasks \in Seq(JobIds) /\ \A m, n \in DOMAIN tasks : tasks[m] = tasks[n] => m = n
  BY DEF QInv, TypeOK, OneHolder
<1>1. /\ DOMAIN tasks' = 1..(Len(tasks) + 1) /\ tasks'[Len(tasks) + 1] = j
      /\ \A n \in DOMAIN tasks : n \in DOMAIN tasks' /\ tasks'[n] = tasks[n]
      /\ DOMAIN tasks = 1..Len(tasks) /\ Len(tasks) \in Nat
  BY <1>0
<1>2. \A n \in DOMAIN tasks : tasks[n] # j
  BY DEF Queued
<1>3. \A n \in DOMAIN tasks' : n \in DOMAIN tasks \/ n = Len(tasks) + 1
  BY <1>1
<1> QED BY <1>0, <1>1, <1>2, <1>3 DEF Queued

LEMMA RetryTimerKeeps ==
  ASSUME Plain, QInv, NEW j \in JobIds, RetryTimer(j)
  PROVE  QInv'
<1> USE DEF QInv, later
<1>0. /\ timers \in [JobIds -> Nat] /\ timers[j] = 1 /\ timers'[j] = 0 /\ ~Queued(j)
      /\ tasks' = Append(tasks, j)
      /\ \A k \in JobIds : k # j => timers'[k] = timers[k]
      /\ UNCHANGED <<up, jobs, files, adding, slots, delays, cron, paused, starts, disturbed>>
  <2>1. timers \in [JobIds -> Nat] /\ timers[j] > 0
    BY DEF RetryTimer, TypeOK
  <2>2. timers[j] = 1 /\ ~Queued(j)
    BY <2>1 DEF OneHolder
  <2> QED BY <2>1, <2>2 DEF RetryTimer
<1>1. /\ jobs[j].st = "waiting" /\ j \notin adding /\ \A w \in Slots : ~Busy(w, j)
  BY <1>0 DEF OneHolder
<1>2. timers' \in [JobIds -> Nat]
  BY <1>0 DEF RetryTimer
<1>3. TypeOK'
  BY <1>0, <1>2, PushKeeps DEF TypeOK
<1>4. NothingInHand'
  <2>1. up \notin {"down", "loaded"}
    BY <1>0 DEF NothingInHand
  <2> QED BY <1>0, <2>1 DEF NothingInHand
<1>5. SlotsAgree'
  BY <1>0 DEF SlotsAgree
<1>6. OneHolder'
  <2>1. \A v \in Slots, k \in JobIds : Busy(v, k)' <=> Busy(v, k)
    BY <1>0 DEF Busy
  <2> QED BY <1>0, <1>1, <2>1, PushKeeps DEF OneHolder
<1>7. AttemptsCount' /\ FilesAgree'
  BY <1>0 DEF AttemptsCount, FilesAgree, Held
<1> QED BY <1>3, <1>4, <1>5, <1>6, <1>7

LEMMA FinishEnqueueKeeps ==
  ASSUME Plain, QInv, NEW j \in JobIds, FinishEnqueue(j)
  PROVE  QInv'
<1> USE DEF QInv, later
<1>0. /\ j \in adding /\ j \in Ids /\ adding' = adding \ {j}
      /\ files \in [Ids -> Jobs \cup {NoJob, Torn}] /\ jobs \in [Ids -> Jobs \cup {NoJob}]
      /\ UNCHANGED <<up, jobs, slots, timers, delays, cron, paused, starts, disturbed>>
  BY Bounds DEF FinishEnqueue, TypeOK
<1>1. /\ jobs[j].st = "waiting" /\ jobs[j] # NoJob /\ ~Queued(j) /\ timers[j] = 0
      /\ \A w \in Slots : ~Busy(w, j)
  BY <1>0, JobFacts DEF OneHolder
<1>2. files' = [files EXCEPT ![j] = jobs[j]]
  BY <1>1 DEF FinishEnqueue
<1>3. files'[j] = jobs[j] /\ \A k \in Ids : k # j => files'[k] = files[k]
  BY <1>0, <1>2
<1>4. \/ tasks' = Append(tasks, j)
      \/ tasks' = tasks
  BY DEF FinishEnqueue
<1>5. /\ tasks' \in Seq(JobIds)
      /\ \A k \in JobIds : Queued(k)' => Queued(k) \/ k = j
      /\ \A m, n \in DOMAIN tasks' : tasks'[m] = tasks'[n] => m = n
  <2>1. CASE tasks' = tasks
    BY <2>1 DEF TypeOK, Queued, OneHolder
  <2> QED BY <1>1, <1>4, <2>1, PushKeeps
<1>6. TypeOK'
  <2>1. files' \in [Ids -> Jobs \cup {NoJob, Torn}]
    BY <1>0, <1>2
  <2> QED BY <1>0, <1>5, <2>1 DEF TypeOK
<1>7. NothingInHand'
  <2>1. up \notin {"down", "loaded"}
    BY <1>0 DEF NothingInHand
  <2> QED BY <1>0, <2>1 DEF NothingInHand
<1>8. SlotsAgree'
  BY <1>0 DEF SlotsAgree
<1>9. OneHolder'
  <2>1. \A v \in Slots, k \in JobIds : Busy(v, k)' <=> Busy(v, k)
    BY <1>0 DEF Busy
  <2> QED BY <1>0, <1>1, <1>5, <2>1 DEF OneHolder
<1>10. AttemptsCount'
  <2>1. \A k \in JobIds : k # j => files'[k] = files[k]
    BY <1>3, Bounds
  <2> QED BY <1>0, <1>3, <2>1 DEF AttemptsCount
<1>11. FilesAgree'
  BY <1>0, <1>3 DEF FilesAgree, Held
<1> QED BY <1>6, <1>7, <1>8, <1>9, <1>10, <1>11

-----------------------------------------------------------------------------
(* Everything else. *)

\* Schedules, pauses and the end of service leave the jobs and their holders alone.
LEMMA AsideKeeps ==
  ASSUME QInv, UNCHANGED <<jobs, files, adding, tasks, slots, timers, starts>>,
         cron' \in Schedules, delays' \in [DelayIds -> BOOLEAN],
         paused' \in BOOLEAN, disturbed' \in BOOLEAN,
         \/ up' \in {"serving", "closing"}
         \/ UNCHANGED <<up, cron, delays>>
  PROVE  QInv'
<1> USE DEF QInv
<1>1. TypeOK'
  BY DEF TypeOK
<1>2. NothingInHand'
  BY DEF NothingInHand
<1>3. SlotsAgree' /\ AttemptsCount' /\ FilesAgree'
  BY DEF SlotsAgree, AttemptsCount, FilesAgree, Held
<1>4. OneHolder'
  BY DEF OneHolder, Busy, Queued
<1> QED BY <1>1, <1>2, <1>3, <1>4

LEMMA ScheduleFacts ==
  /\ NoCron \in Schedules /\ ~NoCron.armed /\ ~NoCron.busy
  /\ RepeatLimit > 0 => [NoCron EXCEPT !.on = TRUE, !.armed = TRUE] \in Schedules
<1>1. NoCron \in Schedules /\ ~NoCron.armed /\ ~NoCron.busy
  BY FileQueueAssumption DEF NoCron, Schedules, CronRecords
<1>2. ASSUME RepeatLimit > 0 PROVE [NoCron EXCEPT !.on = TRUE, !.armed = TRUE] \in Schedules
  <2>1. NoCron \in CronRecords /\ ~NoCron.busy /\ NoCron.runs = 0
    BY FileQueueAssumption DEF NoCron, CronRecords
  <2> QED BY <1>2, <2>1 DEF Schedules, CronRecords
<1> QED BY <1>1, <1>2

\* A schedule that is disarmed, removed, or goes on after its run.
LEMMA ScheduleSteps ==
  ASSUME NEW c \in Schedules
  PROVE  /\ [c EXCEPT !.on = FALSE, !.armed = IF c.on THEN FALSE ELSE @] \in Schedules
         /\ c.armed => /\ [c EXCEPT !.armed = FALSE, !.busy = TRUE] \in Schedules
                       /\ Counted([c EXCEPT !.armed = FALSE]) \in Schedules
         /\ c.busy => Counted(c) \in Schedules
<1>0. /\ c \in CronRecords /\ c.runs \in 0..RepeatLimit /\ ~(c.armed /\ c.busy)
      /\ c.armed \/ c.busy => c.runs < RepeatLimit
      /\ c.on \in BOOLEAN /\ c.armed \in BOOLEAN /\ c.busy \in BOOLEAN /\ RepeatLimit \in Nat
  BY FileQueueAssumption DEF Schedules, CronRecords
<1>1. [c EXCEPT !.on = FALSE, !.armed = IF c.on THEN FALSE ELSE @] \in Schedules
  <2>1. CASE c.on
    BY <1>0, <2>1 DEF Schedules, CronRecords
  <2>2. CASE ~c.on
    BY <1>0, <2>2 DEF Schedules, CronRecords
  <2> QED BY <1>0, <2>1, <2>2
<1>2. ASSUME c.armed PROVE [c EXCEPT !.armed = FALSE, !.busy = TRUE] \in Schedules
  BY <1>0, <1>2 DEF Schedules, CronRecords
<1>3. ASSUME NEW b \in CronRecords, ~b.armed, b.runs < RepeatLimit
      PROVE  Counted(b) \in Schedules
  <2>1. b.runs \in 0..RepeatLimit
    BY DEF CronRecords
  <2>2. CASE b.runs + 1 < RepeatLimit
    <3> DEFINE d == [b EXCEPT !.runs = @ + 1, !.armed = TRUE, !.busy = FALSE]
    <3>0. b.runs + 1 \in 0..RepeatLimit
      BY <1>0, <2>1, <2>2
    <3>1. d \in CronRecords /\ d.runs = b.runs + 1 /\ ~d.busy
      BY <1>3, <3>0 DEF CronRecords
    <3>2. d \in Schedules
      BY <2>2, <3>1 DEF Schedules
    <3> QED BY <2>2, <3>2 DEF Counted
  <2>3. CASE ~(b.runs + 1 < RepeatLimit)
    <3> DEFINE d == [b EXCEPT !.runs = @ + 1, !.on = FALSE, !.busy = FALSE]
    <3>0. b.runs + 1 \in 0..RepeatLimit
      BY <1>0, <1>3, <2>1, <2>3
    <3>1. d \in CronRecords /\ ~d.armed /\ ~d.busy
      BY <1>3, <3>0 DEF CronRecords
    <3>2. d \in Schedules
      BY <3>1 DEF Schedules
    <3> QED BY <2>3, <3>2 DEF Counted
  <2> QED BY <2>2, <2>3
<1>4. ASSUME c.armed PROVE Counted([c EXCEPT !.armed = FALSE]) \in Schedules
  <2> DEFINE b == [c EXCEPT !.armed = FALSE]
  <2>1. b \in CronRecords /\ ~b.armed /\ b.runs < RepeatLimit
    BY <1>0, <1>4 DEF CronRecords
  <2> HIDE DEF b
  <2>2. Counted(b) \in Schedules
    BY <1>3, <2>1
  <2> QED BY <2>2 DEF b
<1>5. c.busy => Counted(c) \in Schedules
  BY <1>0, <1>3
<1> QED BY <1>1, <1>2, <1>4, <1>5

LEMMA DelayKeeps ==
  ASSUME Plain, QInv, NEW d \in DelayIds, Delay(d)
  PROVE  QInv'
<1> USE DEF QInv, later
<1>0. /\ d \in Ids /\ d \notin JobIds /\ jobs[d] = NoJob /\ up = "serving"
      /\ jobs \in [Ids -> Jobs \cup {NoJob}]
      /\ jobs' = [jobs EXCEPT ![d] = Job("delayed", 0)] /\ adding' = adding \cup {d}
      /\ UNCHANGED <<up, files, tasks, slots, timers, delays, cron, paused, starts, disturbed>>
  BY Bounds DEF Delay, TypeOK
<1>1. /\ jobs'[d] = Job("delayed", 0) /\ \A k \in Ids : k # d => jobs'[k] = jobs[k]
      /\ \A k \in JobIds : jobs'[k] = jobs[k] /\ (k \in adding' <=> k \in adding)
  BY <1>0, Bounds
<1>2. TypeOK'
  <2>1. jobs' \in [Ids -> Jobs \cup {NoJob}]
    BY <1>0, JobFacts, Bounds
  <2> QED BY <1>0, <2>1 DEF TypeOK
<1>3. NothingInHand'
  BY <1>0 DEF NothingInHand
<1>4. SlotsAgree'
  BY <1>0, <1>1 DEF SlotsAgree
<1>5. OneHolder'
  <2>1. /\ \A k \in JobIds : Queued(k)' <=> Queued(k)
        /\ \A v \in Slots, k \in JobIds : Busy(v, k)' <=> Busy(v, k)
    BY <1>0 DEF Queued, Busy
  <2>2. \A k \in adding' \cap DelayIds : jobs'[k] = Job("delayed", 0)
    BY <1>0, <1>1, Bounds DEF OneHolder
  <2> QED BY <1>0, <1>1, <2>1, <2>2 DEF OneHolder
<1>6. AttemptsCount'
  BY <1>0, <1>1 DEF AttemptsCount
<1>7. FilesAgree'
  BY <1>0, <1>1 DEF FilesAgree, Held
<1> QED BY <1>2, <1>3, <1>4, <1>5, <1>6, <1>7

LEMMA StartDelayKeeps ==
  ASSUME Plain, QInv, NEW d \in DelayIds, StartDelay(d)
  PROVE  QInv'
<1> USE DEF QInv, later
<1>0. /\ d \in Ids /\ d \notin JobIds /\ d \in adding /\ jobs[d] = Job("delayed", 0)
      /\ files \in [Ids -> Jobs \cup {NoJob, Torn}] /\ delays \in [DelayIds -> BOOLEAN]
      /\ files' = [files EXCEPT ![d] = Job("delayed", 0)] /\ adding' = adding \ {d}
      /\ delays' = [delays EXCEPT ![d] = TRUE]
      /\ UNCHANGED <<up, jobs, tasks, slots, timers, cron, paused, starts, disturbed>>
  BY Bounds DEF StartDelay, TypeOK, OneHolder
<1>1. /\ files'[d] = jobs[d] /\ \A k \in Ids : k # d => files'[k] = files[k]
      /\ \A k \in JobIds : files'[k] = files[k] /\ (k \in adding' <=> k \in adding)
  BY <1>0, Bounds
<1>2. TypeOK'
  <2>1. files' \in [Ids -> Jobs \cup {NoJob, Torn}] /\ delays' \in [DelayIds -> BOOLEAN]
    BY <1>0, JobFacts, Bounds
  <2> QED BY <1>0, <2>1 DEF TypeOK
<1>3. NothingInHand'
  <2>1. up \notin {"down", "loaded"}
    BY <1>0 DEF NothingInHand
  <2> QED BY <1>0, <2>1 DEF NothingInHand
<1>4. SlotsAgree'
  BY <1>0 DEF SlotsAgree
<1>5. OneHolder'
  <2>1. /\ \A k \in JobIds : Queued(k)' <=> Queued(k)
        /\ \A v \in Slots, k \in JobIds : Busy(v, k)' <=> Busy(v, k)
    BY <1>0 DEF Queued, Busy
  <2> QED BY <1>0, <1>1, <2>1 DEF OneHolder
<1>6. AttemptsCount'
  BY <1>0, <1>1 DEF AttemptsCount
<1>7. FilesAgree'
  BY <1>0, <1>1 DEF FilesAgree, Held
<1> QED BY <1>2, <1>3, <1>4, <1>5, <1>6, <1>7

\* What each callback of schedule() does.
LEMMA SchedulesKeep ==
  ASSUME Plain, QInv,
         \/ \E d \in DelayIds : DelayEnds(d)
         \/ ScheduleCron \/ CronFires \/ CronGoesOn \/ RemoveScheduledJob
  PROVE  QInv'
<1> USE DEF store, work, later
<1>0. /\ cron \in Schedules /\ delays \in [DelayIds -> BOOLEAN]
      /\ paused \in BOOLEAN /\ disturbed \in BOOLEAN
  BY DEF QInv, TypeOK
<1>1. ASSUME NEW d \in DelayIds, DelayEnds(d) PROVE QInv'
  <2>1. up \notin {"down", "loaded"}
    BY <1>1 DEF QInv, NothingInHand, DelayEnds
  <2>2. up \in {"serving", "closing"}
    BY <2>1 DEF QInv, TypeOK
  <2>3. delays' \in [DelayIds -> BOOLEAN]
    BY <1>0, <1>1 DEF DelayEnds
  <2>4. CASE IsKnown(LaterJob) \/ IsFull
    BY <1>0, <1>1, <2>2, <2>3, <2>4, AsideKeeps DEF DelayEnds
  <2>5. CASE ~(IsKnown(LaterJob) \/ IsFull)
    BY <1>0, <1>1, <2>1, <2>3, <2>5, Bounds, PutKeeps DEF DelayEnds
  <2> QED BY <2>4, <2>5
<1>2. ASSUME ScheduleCron PROVE QInv'
  <2>1. cron' \in Schedules
    BY <1>2, ScheduleFacts DEF ScheduleCron
  <2> QED BY <1>0, <1>2, <2>1, AsideKeeps DEF ScheduleCron
<1>3. ASSUME CronFires PROVE QInv'
  <2>1. up \notin {"down", "loaded"} /\ cron.armed
    BY <1>3, ScheduleFacts DEF QInv, NothingInHand, CronFires
  <2>2. up \in {"serving", "closing"}
    BY <2>1 DEF QInv, TypeOK
  <2>3. cron' \in Schedules
    BY <1>0, <1>3, <2>1, ScheduleSteps DEF CronFires
  <2>4. CASE Put(LaterJob)
    BY <1>0, <1>3, <2>1, <2>3, <2>4, Bounds, PutKeeps DEF CronFires
  <2>5. CASE UNCHANGED <<jobs, adding, starts>>
    BY <1>0, <1>3, <2>2, <2>3, <2>5, AsideKeeps DEF CronFires
  <2> QED BY <1>3, <2>4, <2>5 DEF CronFires
<1>4. ASSUME CronGoesOn PROVE QInv'
  <2>1. up \notin {"down", "loaded"} /\ cron.busy
    BY <1>4, ScheduleFacts DEF QInv, NothingInHand, CronGoesOn
  <2>2. up' \in {"serving", "closing"}
    BY <1>4, <2>1 DEF QInv, TypeOK, CronGoesOn
  <2>3. cron' \in Schedules
    BY <1>0, <1>4, <2>1, ScheduleSteps DEF CronGoesOn
  <2> QED BY <1>0, <1>4, <2>2, <2>3, AsideKeeps DEF CronGoesOn
<1>5. ASSUME RemoveScheduledJob PROVE QInv'
  <2>1. cron' \in Schedules
    BY <1>0, <1>5, ScheduleSteps DEF RemoveScheduledJob, Removed
  <2> QED BY <1>0, <1>5, <2>1, AsideKeeps DEF RemoveScheduledJob
<1> QED BY <1>1, <1>2, <1>3, <1>4, <1>5

\* The process stops, and finds its files again.
LEMMA LeftoversOK ==
  ASSUME QInv, NEW saved \in [Ids -> Jobs \cup {NoJob, Torn}],
         \A j \in JobIds : saved[j].st = "waiting" =>
           starts[j] <= saved[j].att /\ saved[j].att < MaxAttempts,
         NEW j \in Ids, NEW x \in Leftovers(saved, j)
  PROVE  /\ x \in Jobs \cup {NoJob, Torn}
         /\ j \in JobIds /\ x.st = "waiting" => starts[j] <= x.att /\ x.att < MaxAttempts
<1> USE DEF QInv
<1>1. /\ \A w \in Slots : slots[w].id = j /\ slots[w].job # NoJob => slots[w].job = jobs[j]
      /\ jobs[j] \in Jobs \cup {NoJob}
      /\ j \in JobIds /\ jobs[j].st = "waiting" =>
           starts[j] <= jobs[j].att /\ jobs[j].att < MaxAttempts
  BY IdleFacts DEF SlotsAgree, TypeOK, AttemptsCount
<1>2. x \in {saved[j], jobs[j], Torn, NoJob}
  <2> DEFINE writing == {w \in Slots : slots[w].id = j /\ slots[w].job # NoJob}
             unlinking == {w \in Slots : slots[w].id = j /\ slots[w].pc = "unlink"}
             landing == UNION {Leftover(saved[j], slots[w].job) : w \in writing}
             first == IF j \in adding THEN Leftover(saved[j], jobs[j]) ELSE {}
             gone == IF unlinking # {} THEN {NoJob} ELSE {}
  <2>0. x \in {saved[j]} \cup landing \cup first \cup gone
    BY DEF Leftovers
  <2>1. CASE x \in landing
    <3>1. PICK w \in writing : x \in Leftover(saved[j], slots[w].job)
      BY <2>1
    <3> QED BY <1>1, <3>1 DEF Leftover
  <2>2. CASE x \in first
    BY <2>2 DEF Leftover
  <2> QED BY <2>0, <2>1, <2>2
<1> QED BY <1>1, <1>2, JobFacts

LEMMA StopsKeeps ==
  ASSUME QInv, NEW saved \in [Ids -> Jobs \cup {NoJob, Torn}],
         \A j \in JobIds : saved[j].st = "waiting" =>
           starts[j] <= saved[j].att /\ saved[j].att < MaxAttempts,
         Stops(saved), disturbed' \in BOOLEAN
  PROVE  QInv'
<1> USE DEF QInv
<1>1. /\ DOMAIN files' = Ids /\ \A j \in Ids : files'[j] \in Leftovers(saved, j)
      /\ files' = [j \in Ids |-> files'[j]]
  BY DEF Stops
<1>2. /\ up' = "down" /\ jobs' = [j \in Ids |-> NoJob] /\ adding' = {} /\ tasks' = <<>>
      /\ slots' = [w \in Slots |-> Idle] /\ timers' = [j \in JobIds |-> 0]
      /\ delays' = [d \in DelayIds |-> FALSE] /\ cron' = NoCron /\ paused' = FALSE
      /\ starts' = starts
  BY DEF Stops
<1>3. TypeOK'
  <2>1. files' \in [Ids -> Jobs \cup {NoJob, Torn}]
    BY <1>1, LeftoversOK
  <2>2. jobs' \in [Ids -> Jobs \cup {NoJob}] /\ slots' \in [Slots -> Dispatchers]
    BY <1>2, IdleFacts
  <2>3. timers' \in [JobIds -> Nat] /\ delays' \in [DelayIds -> BOOLEAN]
    BY <1>2
  <2>4. tasks' \in Seq(JobIds) /\ cron' \in Schedules
    BY <1>2, ScheduleFacts
  <2> QED BY <1>2, <2>1, <2>2, <2>3, <2>4 DEF TypeOK
<1>4. NothingInHand' /\ SlotsAgree'
  BY <1>2, IdleFacts DEF NothingInHand, SlotsAgree
<1>5. OneHolder'
  <2>1. /\ \A k \in JobIds : ~Queued(k)'
        /\ \A v \in Slots, k \in JobIds : ~Busy(v, k)'
    BY <1>2, IdleFacts DEF Queued, Busy
  <2> QED BY <1>2, <2>1 DEF OneHolder
<1>6. AttemptsCount'
  <2>1. \A j \in JobIds : files'[j].st = "waiting" =>
          starts[j] <= files'[j].att /\ files'[j].att < MaxAttempts
    BY <1>1, LeftoversOK, Bounds
  <2>2. \A j \in JobIds : jobs'[j].st # "waiting"
    BY <1>2, JobFacts, Bounds
  <2> QED BY <1>2, <2>1, <2>2, IdleFacts DEF AttemptsCount
<1>7. FilesAgree'
  BY <1>2 DEF FilesAgree, Held
<1> QED BY <1>3, <1>4, <1>5, <1>6, <1>7

LEMMA RestartKeeps ==
  ASSUME QInv, Restart
  PROVE  QInv'
<1> USE DEF QInv, work, later
<1>1. /\ up = "down" /\ up' = "loaded"
      /\ UNCHANGED <<files, adding, tasks, slots, timers, delays, cron, paused, starts, disturbed>>
      /\ files \in [Ids -> Jobs \cup {NoJob, Torn}]
  BY DEF Restart, TypeOK
<1>2. /\ jobs' \in [Ids -> Jobs \cup {NoJob}]
      /\ \A j \in Ids : jobs'[j] \in {files[j], NoJob}
  BY <1>1 DEF Restart
<1>3. /\ adding = {} /\ tasks = <<>> /\ \A w \in Slots : slots[w] = Idle
      /\ \A j \in JobIds : timers[j] = 0
  BY <1>1 DEF NothingInHand
<1>4. TypeOK' /\ NothingInHand'
  BY <1>1, <1>2 DEF TypeOK, NothingInHand
<1>5. SlotsAgree'
  BY <1>1, <1>3, IdleFacts DEF SlotsAgree
<1>6. OneHolder'
  <2>1. /\ \A k \in JobIds : ~Queued(k)'
        /\ \A v \in Slots, k \in JobIds : ~Busy(v, k)'
    BY <1>1, <1>3, IdleFacts DEF Queued, Busy
  <2> QED BY <1>1, <1>3, <2>1 DEF OneHolder
<1>7. AttemptsCount'
  <2>1. \A j \in JobIds : jobs'[j].st = "waiting" => jobs'[j] = files[j]
    BY <1>2, JobFacts, Bounds
  <2> QED BY <1>1, <1>3, <2>1, IdleFacts DEF AttemptsCount
<1>8. FilesAgree'
  BY <1>1, <1>2 DEF FilesAgree, Held
<1> QED BY <1>4, <1>5, <1>6, <1>7, <1>8

LEMMA StartProcessingKeeps ==
  ASSUME QInv, StartProcessing
  PROVE  QInv'
<1> USE DEF QInv, store, later
<1> DEFINE pending == {j \in JobIds : IsPending(j)}
<1>1. /\ up = "loaded" /\ up' = "serving"
      /\ UNCHANGED <<jobs, files, adding, slots, timers, delays, cron, paused, starts, disturbed>>
  BY DEF StartProcessing
<1>2. /\ adding = {} /\ tasks = <<>> /\ \A w \in Slots : slots[w] = Idle
      /\ \A j \in JobIds : timers[j] = 0
  BY <1>1 DEF NothingInHand
<1>3. Cardinality(pending) \in Nat
  <2>1. IsFiniteSet(JobIds) /\ pending \subseteq JobIds
    BY FileQueueAssumption
  <2> QED BY <2>1, FS_Subset, FS_CardinalityType
<1>4. /\ tasks' \in Seq(pending)
      /\ \A m, n \in DOMAIN tasks' : tasks'[m] = tasks'[n] => m = n
  <2>1. PICK order \in [1..Cardinality(pending) -> pending] :
          /\ \A m, n \in DOMAIN order : order[m] = order[n] => m = n
          /\ tasks' = order
    BY DEF StartProcessing
  <2> HIDE DEF pending
  <2>2. \A n \in Nat : [1..n -> pending] \subseteq Seq(pending)
    OBVIOUS
  <2> QED BY <1>3, <2>1, <2>2
<1>5. \A n \in DOMAIN tasks' : tasks'[n] \in JobIds /\ jobs[tasks'[n]].st = "waiting"
  BY <1>4 DEF IsPending
<1>6. TypeOK'
  <2>1. tasks' \in Seq(JobIds)
    BY <1>4
  <2> QED BY <1>1, <2>1 DEF TypeOK
<1>7. NothingInHand' /\ SlotsAgree' /\ AttemptsCount' /\ FilesAgree'
  BY <1>1 DEF NothingInHand, SlotsAgree, AttemptsCount, FilesAgree, Held
<1>8. OneHolder'
  <2>1. /\ \A k \in JobIds : Queued(k)' => jobs[k].st = "waiting"
        /\ \A v \in Slots, k \in JobIds : ~Busy(v, k)'
    BY <1>1, <1>2, <1>5, IdleFacts DEF Queued, Busy
  <2> QED BY <1>1, <1>2, <1>4, <2>1 DEF OneHolder
<1> QED BY <1>6, <1>7, <1>8

-----------------------------------------------------------------------------
(* The theorems. *)

LEMMA StepInv == ASSUME Plain, QInv, [Next]_vars PROVE QInv'
<1> USE DEF store, work, later
<1>0. /\ cron \in Schedules /\ delays \in [DelayIds -> BOOLEAN]
      /\ paused \in BOOLEAN /\ disturbed \in BOOLEAN
  BY DEF QInv, TypeOK
<1>1. ASSUME NEW j \in JobIds, Enqueue(j) PROVE QInv'
  <2>1. up = "serving" /\ Put(j)
        /\ UNCHANGED <<up, files, tasks, slots, timers, later, paused, disturbed>>
    BY <1>1 DEF Enqueue, Plain
  <2> QED BY <1>0, <2>1, PutKeeps
<1>2. ASSUME NEW w \in Slots, Dispatch(w) PROVE QInv'
  BY <1>2, StartTaskKeeps, DispatchKeeps
<1>3. ASSUME Pause \/ Resume PROVE QInv'
  BY <1>0, <1>3, AsideKeeps DEF Pause, Resume
<1>4. ASSUME Close PROVE QInv'
  <2>1. cron' \in Schedules
    BY <1>0, <1>4, ScheduleSteps DEF Close, Removed
  <2> QED BY <1>0, <1>4, <2>1, AsideKeeps DEF Close
<1>5. ASSUME Crash PROVE QInv'
  <2>1. Stops(files) /\ disturbed' \in BOOLEAN /\ files \in [Ids -> Jobs \cup {NoJob, Torn}]
    BY <1>5 DEF Crash, QInv, TypeOK
  <2>2. \A j \in JobIds : files[j].st = "waiting" =>
          starts[j] <= files[j].att /\ files[j].att < MaxAttempts
    BY DEF QInv, AttemptsCount
  <2> QED BY <2>1, <2>2, StopsKeeps
<1>6. ASSUME FinishClose PROVE QInv'
  <2> DEFINE saved == [j \in Ids |-> IF jobs[j] = NoJob THEN files[j] ELSE jobs[j]]
  <2>1. Stops(saved) /\ disturbed' \in BOOLEAN
    BY <1>6 DEF FinishClose
  <2>2. saved \in [Ids -> Jobs \cup {NoJob, Torn}]
    BY DEF QInv, TypeOK
  <2>3. \A j \in JobIds : saved[j].st = "waiting" =>
          starts[j] <= saved[j].att /\ saved[j].att < MaxAttempts
    BY Bounds DEF QInv, AttemptsCount
  <2> HIDE DEF saved
  <2> QED BY <2>1, <2>2, <2>3, StopsKeeps
<1>7. ASSUME UNCHANGED vars PROVE QInv'
  BY <1>0, <1>7, AsideKeeps DEF vars
<1> QED BY <1>1, <1>2, <1>3, <1>4, <1>5, <1>6, <1>7, FinishEnqueueKeeps, RetryTimerKeeps,
           DelayKeeps, StartDelayKeeps, SchedulesKeep, StartProcessingKeeps, RestartKeeps
     DEF Next

LEMMA SpecInv == ASSUME Plain PROVE Spec => []QInv
<1>1. QInv /\ [Next]_vars => QInv'
  BY StepInv
<1> QED BY InitInv, <1>1, PTL DEF Spec

\* While finished jobs are kept, an id is not enqueued before the file of its last job
\* is gone, and nothing is enqueued before the workers are registered, no two of the
\* dispatchers that fastq runs ever have the same job (file-queue.ts: handleFastqTask).
THEOREM HandledByOne ==
  ASSUME KeepFinished, ~ReuseAtOnce, ~EarlyEnqueue
  PROVE  Spec => []HandledOnce
<1>1. QInv => HandledOnce
  <2> SUFFICES ASSUME QInv PROVE HandledOnce
    OBVIOUS
  <2>1. \A w \in Slots : slots[w].pc \in {"activate", "handler"} =>
          slots[w].id \in JobIds /\ Busy(w, slots[w].id)
    BY SlotFacts DEF QInv
  <2> QED BY <2>1 DEF QInv, OneHolder, HandledOnce, Busy
<1> QED BY <1>1, SpecInv, PTL DEF Plain

\* Under the same conditions the handler of a job is called at most opts.attempts
\* times for one enqueue, over any number of crashes, torn files, closes and restarts:
\* the attempts that the file of a waiting job counts are never fewer than the calls.
THEOREM AttemptsLimited ==
  ASSUME KeepFinished, ~ReuseAtOnce, ~EarlyEnqueue
  PROVE  Spec => []AttemptsBounded
<1>1. QInv => AttemptsBounded
  BY DEF QInv, AttemptsCount, AttemptsBounded
<1> QED BY <1>1, SpecInv, PTL DEF Plain

\* Under the same conditions the file of every job in the map holds that job as soon as
\* no write of it is in flight (updateJobState, saveJobToDisk).
THEOREM FilesInStep ==
  ASSUME KeepFinished, ~ReuseAtOnce, ~EarlyEnqueue
  PROVE  Spec => []FilesAgree
<1>1. QInv => FilesAgree
  BY DEF QInv
<1> QED BY <1>1, SpecInv, PTL DEF Plain
==============================================================================
