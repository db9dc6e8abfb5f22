--------------------------- MODULE SchedulerProofs ---------------------------
(***************************************************************************)
(* On the only instance of a deployment a one-time job runs at most once,   *)
(* and no job runs after unschedule() has returned, for any number of calls *)
(* in flight and, of the second, any number of restarts.                    *)
(***************************************************************************)
EXTENDS Scheduler, FiniteSetTheorems, TLAPS

SInv ==
  /\ TypeOK /\ Deployment /\ OneSchedule /\ NotExposed
  /\ CancelGoing /\ CancelSettles /\ Stages

\* What a slot holds.
LEMMA CallFacts ==
  /\ Idle.pc = "idle" /\ Idle \notin Calls
  /\ \A c \in Calls : /\ c.on \in Inst /\ c.pc \in PCs /\ c.pc # "idle"
                      /\ c.then \in {"unschedule", "return", "cancel"}
                      /\ \A p \in PCs : [c EXCEPT !.pc = p] \in Calls
  /\ \A i \in Inst, p \in PCs, then \in {"unschedule", "return", "cancel"} :
       Call(i, p, then) \in Calls
  /\ \A i, p, then : /\ Call(i, p, then).on = i /\ Call(i, p, then).pc = p
                     /\ Call(i, p, then).then = then
BY DEF Idle, Calls, PCs, Call

LEMMA SlotHolds ==
  ASSUME TypeOK, NEW s \in Slots
  PROVE  task[s] = Idle \/ task[s] \in Calls
BY DEF TypeOK

LEMMA GotoFacts ==
  ASSUME TypeOK, NEW s \in Slots, task[s] # Idle, NEW p \in PCs, Goto(s, p)
  PROVE  /\ task' \in [Slots -> Calls \cup {Idle}]
         /\ task'[s] \in Calls /\ task'[s].pc = p
         /\ task'[s].on = task[s].on /\ task'[s].then = task[s].then
         /\ \A t \in Slots : t # s => task'[t] = task[t]
<1>1. task[s] \in Calls /\ task \in [Slots -> Calls \cup {Idle}]
  BY DEF TypeOK
<1>2. [task[s] EXCEPT !.pc = p] \in Calls /\ task' = [task EXCEPT ![s] = [task[s] EXCEPT !.pc = p]]
  BY <1>1, CallFacts DEF Goto
<1>3. /\ [task[s] EXCEPT !.pc = p].pc = p /\ [task[s] EXCEPT !.pc = p].on = task[s].on
      /\ [task[s] EXCEPT !.pc = p].then = task[s].then
  BY <1>1 DEF Calls
<1> QED BY <1>1, <1>2, <1>3

LEMMA FinishFacts ==
  ASSUME TypeOK, NEW s \in Slots, Finish(s)
  PROVE  /\ task' \in [Slots -> Calls \cup {Idle}] /\ task'[s] = Idle
         /\ \A t \in Slots : t # s => task'[t] = task[t]
BY DEF TypeOK, Finish

LEMMA SpawnFacts ==
  ASSUME TypeOK, NEW c \in Calls, Spawn(c)
  PROVE  /\ task' \in [Slots -> Calls \cup {Idle}]
         /\ \E s \in Slots : /\ task[s] = Idle /\ task'[s] = c
                             /\ \A t \in Slots : t # s => task'[t] = task[t]
BY DEF TypeOK, Spawn, FreeSlots

\* A deployment of one instance is the one that schedules.
LEMMA AloneFacts ==
  ASSUME TypeOK
  PROVE  /\ Origin \in deployed /\ deployed \subseteq Inst /\ Origin \in Inst
         /\ kind \in {"time", "hook", "cron"}
         /\ Alone => deployed = {Origin}
<1>1. /\ Origin \in deployed /\ deployed \subseteq Inst /\ Origin \in Inst
      /\ kind \in {"time", "hook", "cron"}
  BY SchedulerAssumption DEF TypeOK
<1>2. IsFiniteSet(deployed)
  BY <1>1, SchedulerAssumption, FS_Subset
<1> QED BY <1>1, <1>2, FS_Singleton DEF Alone

LEMMA InitInv == Init => SInv
<1> SUFFICES ASSUME Init PROVE SInv
  OBVIOUS
<1>1. /\ <<kind, deployed>> \in Cases /\ \A s \in Slots : task[s] = Idle
  BY SchedulerAssumption DEF Init
<1>2. TypeOK
  <2>1. /\ up \in [Inst -> {"on", "stopping", "off"}] /\ mapped \in [Inst -> {"none", "live", "fired"}]
        /\ task \in [Slots -> Calls \cup {Idle}]
    BY DEF Init
  <2>2. lock \in [owner : Inst \cup {NoOne}, expired : BOOLEAN]
    BY DEF Init, Free
  <2>3. /\ 0 \in 0..2 /\ 0 \in 0..MaxLosses /\ {} \subseteq Inst
    BY SchedulerAssumption
  <2>4. begun = 0 /\ losses = 0 /\ loose = {} /\ configs = {} /\ cancelled = "no"
    BY DEF Init
  <2>5. /\ due \in BOOLEAN /\ persisted \in BOOLEAN /\ accepted \in BOOLEAN
        /\ orphaned \in BOOLEAN /\ exposed \in BOOLEAN /\ crowded \in BOOLEAN
    BY DEF Init
  <2> QED BY <1>1, <2>1, <2>2, <2>3, <2>4, <2>5 DEF TypeOK
<1>3. Deployment /\ OneSchedule /\ NotExposed /\ CancelGoing /\ CancelSettles
  BY <1>1 DEF Init, Deployment, OneSchedule, NotExposed, Exposure, HalfDone, CancelGoing,
              CancelSettles, Scheduling, Busy, At
<1>4. NotArmed /\ up[Origin] = "on"
  BY <1>1, <1>2, AloneFacts DEF Init, NotArmed, Busy
<1>5. Stages
  BY <1>4 DEF Stages, Init
<1> QED BY <1>2, <1>3, <1>5 DEF SInv

-----------------------------------------------------------------------------
(* The types, and what holds of every step. *)

LEMMA WatchFacts ==
  ASSUME TypeOK, Watch, UNCHANGED fixed
  PROVE  /\ exposed' \in BOOLEAN /\ crowded' \in BOOLEAN /\ NotExposed'
         /\ Quiet' => Quiet /\ ~Exposure'
BY DEF Watch, NotExposed, Quiet, Alone, fixed, TypeOK

LEMMA MemoryFacts ==
  ASSUME TypeOK, Deployment, NEW i \in deployed
  PROVE  /\ Arm(i) =>
              /\ mapped' \in [Inst -> {"none", "live", "fired"}] /\ loose' \subseteq deployed
              /\ mapped'[i] = "live" /\ \A j \in Inst : j # i => mapped'[j] = mapped[j]
              /\ mapped[i] # "live" => loose' = loose
         /\ Forget(i) =>
              /\ mapped' \in [Inst -> {"none", "live", "fired"}] /\ loose' = loose
              /\ mapped'[i] = "none" /\ \A j \in Inst : j # i => mapped'[j] = mapped[j]
              /\ configs' = configs \ {i}
BY AloneFacts DEF Arm, Forget, TypeOK, Deployment

LEMMA AfterFacts ==
  ASSUME TypeOK, Deployment, NEW s \in Slots, Busy(s), AfterExecution(s)
  PROVE  /\ task' \in [Slots -> Calls \cup {Idle}]
         /\ \A t \in Slots : t # s => task'[t] = task[t]
         /\ \/ /\ task[s].then = "unschedule" /\ Forget(task[s].on) /\ task'[s].pc = "unindex"
               /\ task'[s].on = task[s].on /\ task'[s].then = task[s].then
            \/ task[s].then # "unschedule" /\ task'[s] = Idle /\ UNCHANGED memory
BY GotoFacts, FinishFacts DEF AfterExecution, Busy, PCs

\* What a call does to memory, besides its own slot.
CallMoves(s) ==
  /\ \A t \in Slots : t # s => task'[t] = task[t]
  /\ task' \in [Slots -> Calls \cup {Idle}]
  /\ task'[s] = Idle \/ (task'[s].on = task[s].on /\ task'[s].then = task[s].then)

LEMMA CallFrame ==
  ASSUME TypeOK, Deployment, NEW s \in Slots, CallStep(s)
  PROVE  /\ UNCHANGED fixed /\ UNCHANGED env /\ CallMoves(s) /\ Busy(s) /\ Watch
         /\ task[s] \in Calls /\ task[s].on \in deployed
         /\ begun' \in 0..2 /\ begun' \in {begun, begun + 1}
<1>0. Busy(s) /\ task[s] \in Calls /\ task[s].on \in deployed /\ Watch
  BY SlotHolds DEF CallStep, PersistJob, ArmJob, GetLock, DeleteExpired, SetLock, ExecuteJob,
     ReleaseLock, DeleteJob, ReleaseUnscheduled, RecoverJob, Recovering, EndOverdue, At, Busy,
     Deployment
<1>1. CallMoves(s)
  <2>1. ASSUME NEW p \in PCs, Goto(s, p) PROVE CallMoves(s)
    BY <1>0, <2>1, GotoFacts DEF CallMoves, Busy
  <2>2. ASSUME Finish(s) PROVE CallMoves(s)
    BY <1>0, <2>2, FinishFacts DEF CallMoves, Busy
  <2>3. ASSUME AfterExecution(s) PROVE CallMoves(s)
    BY <1>0, <2>3, AfterFacts DEF CallMoves
  <2>4. {"arm", "get", "set", "del", "begin", "run", "release", "unindex", "unlock", "overdue"} \subseteq PCs
    BY DEF PCs
  <2> QED
    BY <2>1, <2>2, <2>3, <2>4 DEF CallStep, PersistJob, ArmJob, GetLock, DeleteExpired, SetLock,
       ExecuteJob, ReleaseLock, DeleteJob, ReleaseUnscheduled, RecoverJob, Recovering, EndOverdue,
       SkipKnown, RearmJob, DropOverdue, RunOverdue
<1>2. UNCHANGED fixed /\ UNCHANGED env
  BY DEF CallStep, PersistJob, ArmJob, GetLock, DeleteExpired, SetLock,
       ExecuteJob, ReleaseLock, DeleteJob, ReleaseUnscheduled, RecoverJob, Recovering, EndOverdue
<1>3. begun' \in 0..2 /\ begun' \in {begun, begun + 1}
  <2>1. begun \in 0..2
    BY DEF TypeOK
  <2>2. UNCHANGED begun \/ BeginHandler
    BY DEF CallStep, PersistJob, ArmJob, GetLock, DeleteExpired, SetLock,
       ExecuteJob, ReleaseLock, DeleteJob, ReleaseUnscheduled, RecoverJob, Recovering, EndOverdue,
       SkipKnown, RearmJob, DropOverdue, RunOverdue
  <2> QED BY <2>1, <2>2 DEF BeginHandler
<1> QED BY <1>0, <1>1, <1>2, <1>3

LEMMA LockFacts ==
  /\ Free \in [owner : Inst \cup {NoOne}, expired : BOOLEAN]
  /\ \A i \in Inst : Held(i) \in [owner : Inst \cup {NoOne}, expired : BOOLEAN]
BY DEF Free, Held

\* The memory of the instances stays within the deployment.
LEMMA CallMemory ==
  ASSUME TypeOK, Deployment, NEW s \in Slots, CallStep(s)
  PROVE  /\ mapped' \in [Inst -> {"none", "live", "fired"}]
         /\ loose' \subseteq deployed /\ configs' \subseteq deployed
         /\ \A i \in Inst : i # task[s].on => mapped'[i] = mapped[i]
<1> DEFINE i == task[s].on
<1>0. i \in deployed /\ i \in Inst /\ Busy(s)
  BY CallFrame, AloneFacts
<1>1. /\ mapped \in [Inst -> {"none", "live", "fired"}]
      /\ loose \subseteq deployed /\ configs \subseteq deployed
  BY DEF TypeOK, Deployment
<1>2. UNCHANGED memory => UNCHANGED <<mapped, loose, configs>>
  BY DEF memory
<1>3. ASSUME AfterExecution(s)
      PROVE  UNCHANGED memory \/ Forget(i)
  BY <1>0, <1>3, AfterFacts
<1>4. \/ UNCHANGED memory
      \/ Forget(i)
      \/ Arm(i) /\ (UNCHANGED configs \/ configs' = configs \cup {i})
      \/ UNCHANGED <<mapped, loose>> /\ (UNCHANGED configs \/ configs' = configs \cup {i})
      \/ mapped' = [mapped EXCEPT ![i] = "fired"] /\ UNCHANGED <<loose, configs>>
  BY <1>3 DEF CallStep, PersistJob, ArmJob, GetLock, DeleteExpired, SetLock,
       ExecuteJob, ReleaseLock, DeleteJob, ReleaseUnscheduled, RecoverJob, Recovering, EndOverdue,
       SkipKnown, RearmJob, DropOverdue, RunOverdue
<1> HIDE DEF i
<1>5. CASE UNCHANGED memory
  BY <1>1, <1>2, <1>5
<1>6. CASE Forget(i)
  BY <1>0, <1>1, <1>6, MemoryFacts DEF i
<1>7. CASE Arm(i) /\ (UNCHANGED configs \/ configs' = configs \cup {i})
  BY <1>0, <1>1, <1>7, MemoryFacts DEF i
<1>8. CASE UNCHANGED <<mapped, loose>> /\ (UNCHANGED configs \/ configs' = configs \cup {i})
  BY <1>0, <1>1, <1>8
<1>9. CASE mapped' = [mapped EXCEPT ![i] = "fired"] /\ UNCHANGED <<loose, configs>>
  BY <1>0, <1>1, <1>9 DEF i
<1> QED BY <1>4, <1>5, <1>6, <1>7, <1>8, <1>9

LEMMA CallTypes ==
  ASSUME TypeOK, Deployment, NEW s \in Slots, CallStep(s)
  PROVE  TypeOK' /\ Deployment'
<1>1. /\ UNCHANGED <<kind, deployed, up, due, losses>> /\ CallMoves(s) /\ Watch
      /\ task[s].on \in deployed /\ begun' \in 0..2
  BY CallFrame DEF fixed, env
<1>2. lock' \in [owner : Inst \cup {NoOne}, expired : BOOLEAN]
  <2>1. task[s].on \in Inst /\ lock \in [owner : Inst \cup {NoOne}, expired : BOOLEAN]
    BY <1>1, AloneFacts DEF TypeOK
  <2>2. lock' \in {lock, Free, Held(task[s].on)}
    BY DEF CallStep, PersistJob, ArmJob, GetLock, DeleteExpired, SetLock,
       ExecuteJob, ReleaseLock, DeleteJob, ReleaseUnscheduled, RecoverJob, Recovering, EndOverdue
  <2> QED BY <2>1, <2>2, LockFacts
<1>3. /\ persisted' \in {persisted, TRUE, FALSE} /\ accepted' \in {accepted, TRUE}
      /\ cancelled' \in {cancelled, "done"} /\ orphaned' = orphaned
  BY DEF CallStep, PersistJob, ArmJob, GetLock, DeleteExpired, SetLock,
       ExecuteJob, ReleaseLock, DeleteJob, ReleaseUnscheduled, RecoverJob, Recovering, EndOverdue
<1>4. exposed' \in BOOLEAN /\ crowded' \in BOOLEAN
  BY <1>1, WatchFacts DEF fixed
<1>5. loose' \subseteq Inst /\ configs' \subseteq Inst
  BY CallMemory, AloneFacts
<1>6. persisted' \in BOOLEAN /\ accepted' \in BOOLEAN /\ orphaned' \in BOOLEAN
      /\ cancelled' \in {"no", "going", "done", "lost"}
  BY <1>3 DEF TypeOK
<1>7. TypeOK'
  BY <1>1, <1>2, <1>4, <1>5, <1>6, CallMemory DEF TypeOK, CallMoves
<1>8. Deployment'
  <2>1. \A t \in Slots : Busy(t)' => task'[t].on \in deployed
    BY <1>1 DEF CallMoves, Deployment, Busy
  <2> QED BY <1>1, <2>1, CallMemory DEF Deployment
<1> QED BY <1>7, <1>8

\* Where each call goes.
LEMMA CallPaths ==
  ASSUME TypeOK, Deployment, NEW s \in Slots, CallStep(s)
  PROVE  /\ task'[s].pc = "persist" => FALSE
         /\ task'[s].pc = "arm" => task[s].pc = "persist" /\ accepted' /\ persisted'
         /\ task'[s].pc = "recover" => FALSE
         /\ task'[s].pc = "unlock" =>
              task[s].pc = "unindex" /\ ~persisted' /\ accepted' = accepted /\ configs' = configs
         /\ task'[s].pc \in {"arm", "unlock"} \/ (persisted' = persisted /\ accepted' = accepted)
         /\ task[s].then = "cancel" /\ task[s].pc \in {"unindex", "unlock"} =>
              task'[s].pc \in {"idle", "unlock"}
         /\ cancelled' # cancelled =>
              task[s].then = "cancel" /\ task[s].pc = "unlock" /\ cancelled' = "done"
         /\ configs' \subseteq configs \/ task[s].pc = "recover"
<1> DEFINE ends == {"arm", "get", "set", "del", "begin", "run", "release", "unindex", "unlock", "overdue"}
<1>0. \A p \in ends : p \in PCs
  BY DEF PCs
<1>1. Busy(s) /\ Idle.pc = "idle"
  BY CallFrame, CallFacts
<1>2. ASSUME NEW p \in ends, Goto(s, p) PROVE task'[s].pc = p
  BY <1>0, <1>1, <1>2, GotoFacts DEF Busy
<1>3. ASSUME Finish(s) PROVE task'[s].pc = "idle"
  BY <1>1, <1>3, FinishFacts
<1>4. ASSUME AfterExecution(s)
      PROVE  /\ task'[s].pc \in {"idle", "unindex"} /\ configs' \subseteq configs
  BY <1>1, <1>4, AfterFacts DEF Forget, memory
<1> HIDE DEF ends
<1>5. /\ "arm" \in ends /\ "get" \in ends /\ "set" \in ends /\ "del" \in ends /\ "begin" \in ends
      /\ "run" \in ends /\ "release" \in ends /\ "unindex" \in ends /\ "unlock" \in ends /\ "overdue" \in ends
  BY DEF ends
<1>6. CASE PersistJob(s)
  BY <1>2, <1>5, <1>6 DEF PersistJob, At, memory
<1>7. CASE ArmJob(s)
  BY <1>2, <1>3, <1>5, <1>7 DEF ArmJob, At
<1>8. CASE GetLock(s)
  BY <1>2, <1>4, <1>5, <1>8 DEF GetLock, At, memory
<1>9. CASE DeleteExpired(s) \/ SetLock(s)
  BY <1>2, <1>5, <1>9 DEF DeleteExpired, SetLock, At, memory
<1>10. CASE ExecuteJob(s)
  BY <1>2, <1>5, <1>10 DEF ExecuteJob, At, memory
<1>11. CASE ReleaseLock(s)
  BY <1>4, <1>11 DEF ReleaseLock, At
<1>12. CASE DeleteJob(s)
  BY <1>2, <1>5, <1>12 DEF DeleteJob, At, memory
<1>13. CASE ReleaseUnscheduled(s)
  BY <1>3, <1>13 DEF ReleaseUnscheduled, At, memory
<1>14. CASE RecoverJob(s)
  BY <1>2, <1>3, <1>5, <1>14 DEF RecoverJob, Recovering, SkipKnown, RearmJob, DropOverdue, RunOverdue, At
<1>15. CASE EndOverdue(s)
  BY <1>2, <1>3, <1>5, <1>15 DEF EndOverdue, At, Forget, memory
<1> QED BY <1>6, <1>7, <1>8, <1>9, <1>10, <1>11, <1>12, <1>13, <1>14, <1>15 DEF CallStep

LEMMA CallCancels ==
  ASSUME SInv, NEW s \in Slots, CallStep(s)
  PROVE  OneSchedule' /\ CancelGoing' /\ CancelSettles'
<1> USE DEF SInv
<1>0. /\ CallMoves(s) /\ Busy(s) /\ Idle.pc = "idle" /\ Watch /\ UNCHANGED fixed
      /\ \A t \in Slots : Busy(t)' => Busy(t)
  <2>1. CallMoves(s) /\ Busy(s) /\ Watch /\ UNCHANGED fixed
    BY CallFrame
  <2> QED BY <2>1, CallFacts DEF CallMoves, Busy
<1>1. \A t \in Slots : Scheduling(t)' => Scheduling(t)
  BY <1>0, CallPaths DEF Scheduling, At, CallMoves, Busy
<1>2. /\ At(s, "persist") => ~accepted
      /\ persisted' => persisted \/ At(s, "persist")
      /\ accepted => accepted'
  BY <1>0, CallPaths DEF OneSchedule, At, Busy, TypeOK
<1>3. OneSchedule'
  <2>1. \A t \in Slots : At(t, "persist")' => ~accepted'
    <3> SUFFICES ASSUME NEW t \in Slots, At(t, "persist")' PROVE ~accepted'
      OBVIOUS
    <3>1. t # s /\ At(t, "persist")
      BY <1>0, CallPaths DEF At, CallMoves, Busy
    <3>2. ~At(s, "persist") /\ ~accepted
      BY <3>1 DEF OneSchedule, Scheduling
    <3> QED BY <1>0, <3>2, CallPaths DEF At, Busy
  <2>2. \A t \in Slots : At(t, "arm")' => accepted'
    BY <1>0, <1>2, CallPaths DEF At, CallMoves, Busy, OneSchedule
  <2>3. persisted' => accepted'
    BY <1>2, CallPaths DEF OneSchedule, At
  <2>4. cancelled' # "no" => accepted'
    BY <1>0, <1>2, CallPaths DEF OneSchedule, CancelGoing
  <2>5. cancelled' # "no" => \A t \in Slots : ~At(t, "arm")'
    <3> SUFFICES ASSUME cancelled' # "no", NEW t \in Slots, At(t, "arm")' PROVE FALSE
      OBVIOUS
    <3>1. cancelled # "no"
      BY <1>0, CallPaths DEF CancelGoing
    <3>2. accepted /\ ~At(t, "arm") /\ ~At(s, "persist")
      BY <3>1 DEF OneSchedule
    <3> QED BY <1>0, <3>2, CallPaths DEF At, CallMoves, Busy
  <2>6. \A t, u \in Slots : Scheduling(t)' /\ Scheduling(u)' => t = u
    BY <1>1 DEF OneSchedule
  <2> QED BY <2>1, <2>2, <2>3, <2>4, <2>5, <2>6 DEF OneSchedule
<1>4. CancelGoing'
  <2> SUFFICES ASSUME NEW t \in Slots, Busy(t)', task'[t].then = "cancel"
               PROVE  cancelled' # "no" /\ (At(t, "unindex")' \/ At(t, "unlock")')
    BY DEF CancelGoing
  <2>1. Busy(t) /\ task[t].then = "cancel"
    BY <1>0 DEF CallMoves, Busy
  <2>2. cancelled # "no" /\ (At(t, "unindex") \/ At(t, "unlock"))
    BY <2>1 DEF CancelGoing
  <2>3. cancelled' # "no"
    BY <2>2, CallPaths
  <2>4. task'[t].pc # "idle"
    BY <1>0, CallTypes, CallFacts DEF TypeOK, Busy
  <2> QED BY <1>0, <2>1, <2>2, <2>3, <2>4, CallPaths DEF At, CallMoves, Busy
<1>5. CancelSettles'
  <2> SUFFICES ASSUME Quiet' PROVE CancelSettles'
    BY DEF CancelSettles
  <2>0. Quiet
    BY <1>0, WatchFacts
  <2>1. ASSUME Gone, cancelled # "no" PROVE Gone' /\ (~persisted => ~persisted')
    <3>1. ~At(s, "recover") /\ ~At(s, "persist")
      BY <2>1 DEF Gone, OneSchedule
    <3>2. configs' = {}
      BY <1>0, <2>1, <3>1, CallPaths DEF Gone, At, Busy
    <3>3. \A t \in Slots : ~At(t, "recover")'
      BY <1>0, <2>1, CallPaths DEF Gone, At, CallMoves, Busy
    <3> QED BY <1>2, <3>1, <3>2, <3>3 DEF Gone
  <2>2. ASSUME NEW t \in Slots, Busy(t)', task'[t].then = "cancel"
        PROVE  Gone' /\ (At(t, "unlock")' => ~persisted')
    <3>1. Busy(t) /\ task[t].then = "cancel"
      BY <1>0, <2>2 DEF CallMoves, Busy
    <3>2. Gone /\ cancelled # "no" /\ (At(t, "unlock") => ~persisted)
      BY <2>0, <3>1 DEF CancelSettles, CancelGoing
    <3>3. At(t, "unlock")' => ~persisted'
      <4>1. CASE t = s
        BY <4>1, CallPaths DEF At
      <4>2. CASE t # s
        BY <1>0, <2>1, <3>2, <4>2 DEF At, CallMoves
      <4> QED BY <4>1, <4>2
    <3> QED BY <2>1, <3>2, <3>3
  <2>3. cancelled' = "done" => Gone' /\ ~persisted'
    <3> SUFFICES ASSUME cancelled' = "done" PROVE Gone' /\ ~persisted'
      OBVIOUS
    <3>1. Gone /\ ~persisted /\ cancelled # "no"
      BY <1>0, <2>0, CallPaths DEF CancelSettles, CancelGoing, At, Busy
    <3> QED BY <2>1, <3>1
  <2> QED BY <2>2, <2>3 DEF CancelSettles
<1> QED BY <1>3, <1>4, <1>5

LEMMA CallStages ==
  ASSUME SInv, NEW s \in Slots, CallStep(s)
  PROVE  Stages'
<1> USE DEF SInv
<1> SUFFICES ASSUME OneTime, Quiet', losses = 0, kind' = kind
             PROVE  up[Origin] = "on" /\ loose' = {}
                      /\ (NotArmed' \/ Armed' \/ Fired' \/ Forgotten')
  BY CallFrame DEF Stages, OneTime, env, fixed
<1>0. /\ Quiet /\ ~Exposure' /\ ~Exposure /\ deployed = {Origin} /\ UNCHANGED <<kind, deployed, up, due, losses>>
      /\ CallMoves(s) /\ Busy(s) /\ task[s].on = Origin /\ task[s] \in Calls
  BY CallFrame, WatchFacts, AloneFacts DEF NotExposed, Quiet, fixed, env
<1>1. /\ up[Origin] = "on" /\ loose = {} /\ (NotArmed \/ Armed \/ Fired \/ Forgotten)
      /\ Idle.pc = "idle" /\ task[s].pc # "idle"
  BY <1>0, CallFacts DEF Stages
<1>2. \A t \in Slots : Busy(t)' => Busy(t)
  BY <1>0 DEF CallMoves, Busy
<1>3. \A t \in Slots : t # s => (Busy(t)' <=> Busy(t)) /\ \A p \in PCs : At(t, p)' <=> At(t, p)
  BY <1>0 DEF CallMoves, Busy, At
<1>4. configs \subseteq {Origin}
  BY <1>0 DEF Deployment
<1>5. CASE NotArmed
  <2>1. At(s, "persist") \/ At(s, "arm")
    BY <1>0, <1>5 DEF NotArmed, Scheduling
  <2>2. \A t \in Slots : t # s => ~Busy(t) /\ ~Busy(t)'
    BY <1>2, <1>5, <2>1 DEF NotArmed, OneSchedule, Scheduling
  <2>3. CASE At(s, "persist")
    <3>1. PersistJob(s)
      BY <2>3, <1>1 DEF CallStep, PersistJob, ArmJob, GetLock, DeleteExpired, SetLock, ExecuteJob,
         ReleaseLock, DeleteJob, ReleaseUnscheduled, RecoverJob, Recovering, EndOverdue, At
    <3>2. At(s, "arm")' /\ mapped' = mapped /\ begun' = begun /\ loose' = loose
      <4>1. task'[s].pc = "arm"
        BY <1>0, <3>1, GotoFacts DEF PersistJob, PCs, Busy
      <4> QED BY <1>1, <3>1, <4>1 DEF PersistJob, memory, At
    <3> QED BY <1>1, <1>5, <2>2, <3>2 DEF NotArmed, Scheduling
  <2>4. CASE At(s, "arm")
    <3>1. ArmJob(s) /\ ~due
      BY <2>4, <1>0, <1>1 DEF CallStep, PersistJob, ArmJob, GetLock, DeleteExpired, SetLock, ExecuteJob,
         ReleaseLock, DeleteJob, ReleaseUnscheduled, RecoverJob, Recovering, EndOverdue, At, Exposure
    <3>2. Finish(s) /\ Arm(Origin) /\ accepted' = accepted /\ begun' = begun /\ accepted
      BY <1>0, <2>4, <3>1 DEF ArmJob, OneSchedule
    <3>3. mapped'[Origin] = "live" /\ loose' = loose /\ ~Busy(s)'
      BY <1>0, <1>5, <3>2, MemoryFacts, FinishFacts DEF NotArmed, Busy
    <3> QED BY <1>1, <1>5, <2>2, <3>2, <3>3 DEF Armed, NotArmed
  <2> QED BY <2>1, <2>3, <2>4
<1>6. ASSUME At(s, "recover"), mapped[Origin] # "none"
      PROVE  /\ ~Busy(s)' /\ UNCHANGED <<mapped, loose, configs, accepted, begun, persisted>>
  <2>1. RecoverJob(s)
    BY <1>6, <1>1 DEF CallStep, PersistJob, ArmJob, GetLock, DeleteExpired, SetLock, ExecuteJob,
       ReleaseLock, DeleteJob, ReleaseUnscheduled, RecoverJob, Recovering, EndOverdue, At
  <2>2. SkipKnown(s)
    BY <1>0, <1>6, <2>1 DEF RecoverJob, New
  <2> QED BY <2>1, <2>2, FinishFacts DEF SkipKnown, RecoverJob, Recovering, Busy, memory
<1>7. CASE Armed
  <2>1. At(s, "recover")
    BY <1>0, <1>7 DEF Armed
  <2> QED BY <1>1, <1>3, <1>6, <1>7, <2>1 DEF Armed, PCs
<1>8. ASSUME AfterExecution(s), UNCHANGED <<begun, accepted>>, accepted, begun < 2,
             task[s].then = "unschedule" \/ Forgotten,
             \A t \in Slots : ~Scheduling(t)' /\ ~At(t, "overdue")',
             task[s].pc # "unindex", UNCHANGED persisted
      PROVE  loose' = {} /\ Forgotten'
  <2>1. CASE task[s].then = "unschedule"
    <3>1. Forget(Origin) /\ task'[s].pc = "unindex"
      BY <1>0, <1>8, <2>1, AfterFacts
    <3>2. At(s, "unindex")'
      BY <1>1, <3>1 DEF At
    <3>3. configs' = {} /\ mapped'[Origin] = "none" /\ loose' = {}
      BY <1>0, <1>1, <1>4, <3>1, MemoryFacts
    <3>4. \A t \in Slots : ~At(t, "recover")'
      BY <1>0, <3>2 DEF Exposure, HalfDone
    <3> QED BY <1>8, <3>2, <3>3, <3>4 DEF Forgotten, Gone
  <2>2. CASE task[s].then # "unschedule"
    <3>1. task'[s] = Idle /\ UNCHANGED <<mapped, loose, configs>> /\ Forgotten
      BY <1>0, <1>8, <2>2, AfterFacts DEF memory
    <3>2. ~At(s, "unindex") /\ \A t \in Slots : t # s => (At(t, "unindex")' <=> At(t, "unindex"))
      BY <1>3, <1>8 DEF At, PCs
    <3>3. \A t \in Slots : ~At(t, "recover")'
      BY <1>3, <3>1 DEF Forgotten, Gone, At, PCs
    <3>4. persisted' => \E t \in Slots : At(t, "unindex")'
      BY <1>8, <3>1, <3>2 DEF Forgotten
    <3> QED BY <1>1, <1>8, <3>1, <3>3, <3>4 DEF Forgotten, Gone
  <2> QED BY <2>1, <2>2
<1>9. CASE Fired
  <2>1. PICK u \in Slots :
          /\ Busy(u) /\ task[u].then = "unschedule"
          /\ task[u].pc \in Executing \cup {"release"} /\ (begun = 0 \/ At(u, "run"))
          /\ \A t \in Slots \ {u} : Busy(t) => At(t, "recover")
    BY <1>9 DEF Fired
  <2>2. CASE s # u
    <3>1. At(s, "recover")
      BY <1>0, <2>1, <2>2
    <3>2. /\ ~Busy(s)' /\ UNCHANGED <<mapped, loose, configs, accepted, begun, persisted>>
      BY <1>6, <1>9, <3>1 DEF Fired
    <3>3. task'[u] = task[u] /\ (At(u, "run")' <=> At(u, "run")) /\ Busy(u)'
      BY <1>0, <2>1, <2>2 DEF CallMoves, At, Busy
    <3>4. \A t \in Slots \ {u} : Busy(t)' => At(t, "recover")'
      BY <1>3, <2>1, <3>2 DEF PCs
    <3> QED BY <1>1, <1>9, <2>1, <3>2, <3>3, <3>4 DEF Fired
  <2>3. CASE s = u
    <3>0. /\ \A t \in Slots \ {s} : Busy(t)' => At(t, "recover")'
          /\ task[s].pc \in Executing \cup {"release"} /\ task[s].then = "unschedule"
          /\ \A t \in Slots \ {s} : Busy(t) => At(t, "recover")
      BY <1>3, <2>1, <2>3 DEF PCs
    <3>1. ASSUME NEW p \in Executing \cup {"release"}, Goto(s, p), UNCHANGED <<mapped, loose, accepted>>,
                 begun' < 2, begun' = 0 \/ p = "run"
          PROVE  loose' = {} /\ Fired'
      <4>1. task'[s].pc = p /\ task'[s].then = "unschedule" /\ Busy(s)'
        BY <1>0, <3>0, <3>1, GotoFacts, CallFacts DEF Executing, PCs, Busy
      <4>2. p = "run" => At(s, "run")'
        BY <4>1 DEF At, Busy
      <4> QED BY <1>1, <1>9, <3>0, <3>1, <4>1, <4>2 DEF Fired
    <3>2. \A t \in Slots \ {s} : Busy(t)' => task'[t].pc = "recover"
      BY <3>0 DEF At
    <3>3. ASSUME AfterExecution(s), UNCHANGED <<begun, accepted, persisted>>
          PROVE  loose' = {} /\ Forgotten'
      <4>1. task'[s].pc = "unindex"
        BY <1>0, <3>0, <3>3, AfterFacts
      <4>2. \A t \in Slots : ~Scheduling(t)' /\ ~At(t, "overdue")'
        BY <3>2, <4>1 DEF Scheduling, At, Busy
      <4>3. task[s].pc # "unindex"
        BY <3>0 DEF Executing
      <4> QED BY <1>8, <1>9, <3>0, <3>3, <4>2, <4>3 DEF Fired
    <3>4. begun = 0 \/ task[s].pc = "run"
      BY <2>1, <2>3 DEF At
    <3>5. begun \in 0..2 /\ begun < 2
      BY <1>9 DEF Fired, TypeOK
    <3>6. CASE GetLock(s)
      <4>1. begun = 0
        BY <3>4, <3>6 DEF GetLock, At
      <4> QED BY <1>1, <3>1, <3>3, <3>5, <3>6, <4>1 DEF GetLock, memory, Executing
    <3>7. CASE DeleteExpired(s) \/ SetLock(s)
      <4>1. begun = 0
        BY <3>4, <3>7 DEF DeleteExpired, SetLock, At
      <4> QED BY <1>1, <3>1, <3>5, <3>7, <4>1 DEF DeleteExpired, SetLock, memory, Executing
    <3>8. CASE ExecuteJob(s)
      <4>1. begun = 0
        BY <3>4, <3>8 DEF ExecuteJob, At
      <4>2. CASE task[s].on \in configs
        BY <1>1, <3>1, <3>8, <4>1, <4>2 DEF ExecuteJob, memory, Executing, BeginHandler
      <4>3. CASE task[s].on \notin configs
        BY <1>1, <3>1, <3>8, <4>1, <4>3 DEF ExecuteJob, memory, Executing
      <4> QED BY <4>2, <4>3
    <3>9. CASE ReleaseLock(s)
      BY <1>1, <3>3, <3>9 DEF ReleaseLock
    <3> QED
      BY <1>1, <3>0, <3>6, <3>7, <3>8, <3>9 DEF CallStep, PersistJob, ArmJob, DeleteJob,
         ReleaseUnscheduled, RecoverJob, Recovering, EndOverdue, At, Executing
  <2> QED BY <2>2, <2>3
<1>10. CASE Forgotten
  <2>0. /\ ~At(s, "persist") /\ ~At(s, "arm") /\ ~At(s, "recover") /\ ~At(s, "overdue")
        /\ configs = {} /\ mapped[Origin] = "none" /\ accepted /\ begun < 2
        /\ \A t \in Slots : ~Scheduling(t) /\ ~At(t, "overdue") /\ ~At(t, "recover")
        /\ persisted => \E t \in Slots : At(t, "unindex")
    BY <1>10 DEF Forgotten, Gone, Scheduling
  <2>1. ASSUME task'[s].pc \notin {"persist", "arm", "recover", "overdue"}
        PROVE  \A t \in Slots : ~Scheduling(t)' /\ ~At(t, "overdue")' /\ ~At(t, "recover")'
    <3> SUFFICES ASSUME NEW t \in Slots
                 PROVE  ~Scheduling(t)' /\ ~At(t, "overdue")' /\ ~At(t, "recover")'
      OBVIOUS
    <3>1. CASE t = s
      BY <2>1, <3>1 DEF Scheduling, At
    <3>2. CASE t # s
      BY <1>3, <2>0, <3>2 DEF Scheduling, PCs
    <3> QED BY <3>1, <3>2
  <2>2. ASSUME NEW p \in PCs \ {"persist", "arm", "recover", "overdue"}, Goto(s, p) \/ Finish(s),
               UNCHANGED <<mapped, loose, configs, accepted, begun>>,
               (UNCHANGED persisted /\ ~At(s, "unindex")) \/ ~persisted'
        PROVE  loose' = {} /\ Forgotten'
    <3>1. task'[s].pc \notin {"persist", "arm", "recover", "overdue"}
      BY <1>0, <1>1, <2>2, GotoFacts, FinishFacts DEF Busy
    <3>2. persisted' => \E t \in Slots : At(t, "unindex")'
      BY <1>3, <2>0, <2>2 DEF PCs
    <3> QED BY <1>1, <2>0, <2>1, <2>2, <3>1, <3>2 DEF Forgotten, Gone
  <2>3. ASSUME AfterExecution(s), UNCHANGED <<begun, accepted, persisted>>, ~At(s, "unindex")
        PROVE  loose' = {} /\ Forgotten'
    <3>1. task'[s].pc \in {"idle", "unindex"}
      BY <1>0, <1>1, <2>3, AfterFacts
    <3>2. task[s].pc # "unindex"
      BY <1>1, <2>3 DEF At
    <3> QED BY <1>8, <1>10, <2>0, <2>1, <2>3, <3>1, <3>2
  <2>4. CASE GetLock(s)
    BY <1>1, <2>2, <2>3, <2>4 DEF GetLock, memory, PCs, At
  <2>5. CASE DeleteExpired(s) \/ SetLock(s)
    BY <1>1, <2>2, <2>5 DEF DeleteExpired, SetLock, memory, PCs, At
  <2>6. CASE ExecuteJob(s)
    BY <1>1, <2>0, <2>2, <2>6 DEF ExecuteJob, memory, PCs, At
  <2>7. CASE ReleaseLock(s)
    BY <1>1, <2>3, <2>7 DEF ReleaseLock, At
  <2>8. CASE DeleteJob(s)
    BY <1>1, <2>2, <2>8 DEF DeleteJob, memory, PCs, At
  <2>9. CASE ReleaseUnscheduled(s)
    BY <1>1, <2>2, <2>9 DEF ReleaseUnscheduled, memory, PCs, At
  <2> QED BY <1>1, <2>0, <2>4, <2>5, <2>6, <2>7, <2>8, <2>9
          DEF CallStep, PersistJob, ArmJob, RecoverJob, Recovering, EndOverdue
<1> QED BY <1>0, <1>1, <1>5, <1>7, <1>9, <1>10

-----------------------------------------------------------------------------
(* What an instance begins, and how it goes away. *)

\* A call is spawned.
LEMMA SpawnKeeps ==
  ASSUME SInv, NEW i \in deployed, NEW p \in PCs, NEW then \in {"unschedule", "return", "cancel"},
         Spawn(Call(i, p, then)), Watch, UNCHANGED <<fixed, env, lock, accepted, persisted, begun, orphaned>>,
         mapped' \in [Inst -> {"none", "live", "fired"}], loose' \subseteq deployed,
         configs' \subseteq deployed, \A j \in Inst : j # i => mapped'[j] = mapped[j],
         cancelled' \in {"no", "going", "done", "lost"}
  PROVE  /\ TypeOK' /\ Deployment' /\ NotExposed'
         /\ \E s \in Slots : /\ ~Busy(s) /\ Busy(s)' /\ task'[s] = Call(i, p, then)
                             /\ \A t \in Slots : t # s => task'[t] = task[t]
<1> USE DEF SInv
<1>0. Call(i, p, then) \in Calls /\ deployed \subseteq Inst
  BY CallFacts, AloneFacts
<1>1. PICK s \in Slots : /\ task[s] = Idle /\ task'[s] = Call(i, p, then)
                         /\ \A t \in Slots : t # s => task'[t] = task[t]
  BY <1>0, SpawnFacts
<1>2. task' \in [Slots -> Calls \cup {Idle}] /\ task'[s] # Idle /\ task'[s].on = i
  BY <1>0, <1>1, SpawnFacts, CallFacts
<1>3. TypeOK'
  BY <1>0, <1>2, WatchFacts DEF TypeOK, fixed, env
<1>4. Deployment'
  <2>1. \A t \in Slots : task'[t] # Idle => task'[t].on \in deployed
    BY <1>1, <1>2 DEF Deployment, Busy
  <2> QED BY <2>1 DEF Deployment, Busy, fixed, env
<1> QED BY <1>1, <1>2, <1>3, <1>4, WatchFacts DEF Busy

LEMMA ScheduleKeeps ==
  ASSUME SInv, NEW i \in Inst, Schedule(i), Watch
  PROVE  SInv'
<1> USE DEF SInv
<1>0. /\ i = Origin /\ i \in deployed /\ ~accepted /\ configs' = configs \cup {i}
      /\ UNCHANGED <<kind, deployed, up, due, losses, persisted, lock, mapped, loose, accepted,
                     cancelled, begun, orphaned>>
      /\ Spawn(Call(i, "persist", "return"))
      /\ \A s \in Slots : ~At(s, "persist")
  BY AloneFacts DEF Schedule, fixed, env
<1>1. /\ mapped' \in [Inst -> {"none", "live", "fired"}] /\ loose' \subseteq deployed
      /\ configs' \subseteq deployed /\ cancelled' \in {"no", "going", "done", "lost"}
  BY <1>0 DEF TypeOK, Deployment
<1>2. "persist" \in PCs /\ "return" \in {"unschedule", "return", "cancel"}
  BY DEF PCs
<1>3. /\ TypeOK' /\ Deployment' /\ NotExposed'
      /\ \E s \in Slots : /\ ~Busy(s) /\ Busy(s)' /\ task'[s] = Call(i, "persist", "return")
                          /\ \A t \in Slots : t # s => task'[t] = task[t]
  BY <1>0, <1>1, <1>2, SpawnKeeps DEF fixed, env
<1>4. PICK s \in Slots : /\ ~Busy(s) /\ Busy(s)' /\ At(s, "persist")' /\ task'[s].then = "return"
                         /\ \A t \in Slots : t # s => task'[t] = task[t]
  BY <1>3, CallFacts DEF At, Busy
<1>5. \A t \in Slots : ~Scheduling(t)
  BY <1>0 DEF Scheduling, OneSchedule
<1>6. OneSchedule'
  <2>1. \A t \in Slots : t # s => ~Scheduling(t)'
    BY <1>4, <1>5 DEF Scheduling, At
  <2>2. \A t \in Slots : ~At(t, "arm")'
    BY <1>4, <2>1 DEF Scheduling, At
  <2> QED BY <1>0, <2>1, <2>2 DEF OneSchedule, Scheduling
<1>7. cancelled = "no"
  BY <1>0 DEF OneSchedule
<1>8. \A t \in Slots : ~(Busy(t)' /\ task'[t].then = "cancel")
  BY <1>4, <1>7 DEF CancelGoing, Busy
<1>9. CancelGoing' /\ CancelSettles'
  BY <1>0, <1>7, <1>8 DEF CancelGoing, CancelSettles
<1>10. Stages'
  <2> SUFFICES ASSUME OneTime, Quiet', losses = 0
               PROVE  up[Origin] = "on" /\ loose = {} /\ NotArmed'
    BY <1>0 DEF Stages, OneTime
  <2>1. up[Origin] = "on" /\ loose = {} /\ NotArmed
    BY <1>0, WatchFacts DEF Stages, fixed, Armed, Fired, Forgotten
  <2>2. \A t \in Slots : Busy(t)' => Scheduling(t)'
    BY <1>4, <2>1 DEF NotArmed, Busy, Scheduling, At
  <2> QED BY <1>0, <2>1, <2>2 DEF NotArmed
<1> QED BY <1>3, <1>6, <1>9, <1>10

LEMMA FireKeeps ==
  ASSUME SInv, NEW i \in Inst, Fire(i), Watch
  PROVE  SInv'
<1> USE DEF SInv
<1> DEFINE then == IF OneTime THEN "unschedule" ELSE "return"
<1>0. /\ i \in deployed
      /\ UNCHANGED <<kind, deployed, up, due, losses, persisted, lock, configs, accepted,
                     cancelled, begun, orphaned>>
      /\ Spawn(Call(i, "get", then))
  BY AloneFacts DEF Fire, fixed, env, Deployment
<1>1. /\ mapped' \in [Inst -> {"none", "live", "fired"}] /\ loose' \subseteq deployed
      /\ configs' \subseteq deployed /\ cancelled' \in {"no", "going", "done", "lost"}
      /\ \A j \in Inst : j # i => mapped'[j] = mapped[j]
  BY <1>0 DEF TypeOK, Deployment, Fire
<1>2. "get" \in PCs /\ then \in {"unschedule", "return", "cancel"} /\ then # "cancel"
  BY DEF PCs
<1> HIDE DEF then
<1>3. /\ TypeOK' /\ Deployment' /\ NotExposed'
      /\ \E s \in Slots : /\ ~Busy(s) /\ Busy(s)' /\ task'[s] = Call(i, "get", then)
                          /\ \A t \in Slots : t # s => task'[t] = task[t]
  BY <1>0, <1>1, <1>2, SpawnKeeps DEF fixed, env
<1>4. PICK s \in Slots : /\ ~Busy(s) /\ Busy(s)' /\ task'[s].pc = "get" /\ task'[s].then = then
                         /\ \A t \in Slots : t # s => task'[t] = task[t]
  BY <1>3, CallFacts
<1>5. OneSchedule'
  <2>1. \A t \in Slots : /\ At(t, "persist")' => At(t, "persist")
                         /\ At(t, "arm")' => At(t, "arm")
    BY <1>4 DEF At
  <2> QED BY <1>0, <2>1 DEF OneSchedule, Scheduling
<1>6. \A t \in Slots : Busy(t)' /\ task'[t].then = "cancel" => t # s /\ Busy(t)
  BY <1>2, <1>4 DEF Busy
<1>7. \A t \in Slots : t # s => \A p \in PCs : At(t, p)' <=> At(t, p)
  BY <1>4 DEF At
<1>8. CancelGoing'
  BY <1>0, <1>4, <1>6 DEF CancelGoing, At
<1>9. CancelSettles'
  <2>1. Gone => Gone'
    BY <1>0, <1>4 DEF Gone, At
  <2>2. Quiet' => Quiet
    BY <1>0, WatchFacts DEF fixed
  <2> QED BY <1>0, <1>4, <1>6, <1>7, <2>1, <2>2 DEF CancelSettles, PCs
<1>10. Stages'
  <2> SUFFICES ASSUME OneTime, Quiet', losses = 0
               PROVE  up[Origin] = "on" /\ loose' = {} /\ Fired'
    BY <1>0 DEF Stages, OneTime
  <2>1. up[Origin] = "on" /\ loose = {} /\ i = Origin
    BY <1>0, WatchFacts, AloneFacts DEF Stages, fixed, Quiet
  <2>2. Armed /\ mapped'[Origin] = "fired" /\ loose' = loose
    <3>1. mapped[Origin] = "live" /\ mapped' = [mapped EXCEPT ![i] = "fired"] /\ loose' = loose
      BY <2>1 DEF Fire
    <3>2. Quiet /\ mapped \in [Inst -> {"none", "live", "fired"}]
      BY <1>0, WatchFacts DEF fixed, TypeOK
    <3> QED BY <2>1, <3>1, <3>2 DEF Stages, NotArmed, Fired, Forgotten
  <2>3. \A t \in Slots \ {s} : Busy(t)' => At(t, "recover")'
    BY <1>4, <2>2 DEF Armed, At, Busy
  <2>4. task'[s].then = "unschedule"
    BY <1>4 DEF then
  <2> QED BY <1>0, <1>4, <2>1, <2>2, <2>3, <2>4 DEF Fired, Armed, Executing
<1> QED BY <1>3, <1>5, <1>8, <1>9, <1>10

LEMMA UnscheduleKeeps ==
  ASSUME SInv, NEW i \in Inst, Unschedule(i), Watch
  PROVE  SInv'
<1> USE DEF SInv
<1>0. /\ i \in deployed /\ accepted /\ cancelled = "no" /\ cancelled' = "going"
      /\ UNCHANGED <<kind, deployed, up, due, losses, persisted, lock, accepted, begun, orphaned>>
      /\ Spawn(Call(i, "unindex", "cancel")) /\ Forget(i) /\ \A s \in Slots : ~At(s, "arm")
  BY AloneFacts DEF Unschedule, fixed, env, Deployment
<1>1. /\ mapped' \in [Inst -> {"none", "live", "fired"}] /\ loose' \subseteq deployed
      /\ configs' \subseteq deployed /\ cancelled' \in {"no", "going", "done", "lost"}
      /\ \A j \in Inst : j # i => mapped'[j] = mapped[j]
      /\ mapped'[i] = "none" /\ configs' = configs \ {i} /\ loose' = loose
  BY <1>0, MemoryFacts DEF TypeOK, Deployment
<1>2. "unindex" \in PCs /\ "cancel" \in {"unschedule", "return", "cancel"}
  BY DEF PCs
<1>3. /\ TypeOK' /\ Deployment' /\ NotExposed'
      /\ \E s \in Slots : /\ ~Busy(s) /\ Busy(s)' /\ task'[s] = Call(i, "unindex", "cancel")
                          /\ \A t \in Slots : t # s => task'[t] = task[t]
  BY <1>0, <1>1, <1>2, SpawnKeeps DEF fixed, env
<1>4. PICK s \in Slots : /\ ~Busy(s) /\ Busy(s)' /\ At(s, "unindex")' /\ task'[s].then = "cancel"
                         /\ \A t \in Slots : t # s => task'[t] = task[t]
  BY <1>3, CallFacts DEF At, Busy
<1>5. \A t \in Slots : ~Scheduling(t)' /\ ~Scheduling(t)
  BY <1>0, <1>4 DEF OneSchedule, Scheduling, At
<1>6. OneSchedule'
  BY <1>0, <1>5 DEF OneSchedule, Scheduling
<1>7. \A t \in Slots : Busy(t)' /\ task'[t].then = "cancel" => t = s
  BY <1>0, <1>4 DEF CancelGoing, Busy
<1>8. CancelGoing'
  BY <1>0, <1>4, <1>7 DEF CancelGoing
<1>9. Quiet' => Quiet /\ Gone' /\ i = Origin
  <2> SUFFICES ASSUME Quiet' PROVE Quiet /\ Gone' /\ i = Origin
    OBVIOUS
  <2>1. Quiet /\ ~Exposure' /\ deployed = {Origin}
    BY <1>0, WatchFacts, AloneFacts DEF fixed, Quiet
  <2>2. configs' = {}
    BY <1>1, <2>1, <1>0 DEF Deployment
  <2>3. \A t \in Slots : ~At(t, "recover")'
    BY <1>4, <2>1 DEF Exposure, HalfDone
  <2> QED BY <1>0, <2>1, <2>2, <2>3 DEF Gone
<1>10. CancelSettles'
  <2>1. ~At(s, "unlock")'
    BY <1>4 DEF At
  <2> QED BY <1>0, <1>7, <1>9, <2>1 DEF CancelSettles
<1>11. Stages'
  <2> SUFFICES ASSUME OneTime, Quiet', losses = 0
               PROVE  up[Origin] = "on" /\ loose = {} /\ Forgotten'
    BY <1>0, <1>1 DEF Stages, OneTime
  <2>1. /\ up[Origin] = "on" /\ loose = {} /\ i = Origin
        /\ NotArmed \/ Armed \/ Fired \/ Forgotten
    BY <1>9 DEF Stages
  <2>2. /\ begun < 2 /\ \A t \in Slots : ~At(t, "overdue")
    <3>1. CASE NotArmed
      BY <1>0, <3>1 DEF NotArmed
    <3>2. CASE Armed
      BY <3>2 DEF Armed, At, Busy
    <3>3. CASE Fired
      BY <3>3 DEF Fired, At, Busy, Executing
    <3>4. CASE Forgotten
      BY <3>4 DEF Forgotten
    <3> QED BY <2>1, <3>1, <3>2, <3>3, <3>4
  <2>3. \A t \in Slots : ~At(t, "overdue")'
    BY <1>4, <2>2 DEF At
  <2> QED BY <1>0, <1>1, <1>4, <1>5, <1>9, <2>1, <2>2, <2>3 DEF Forgotten
<1> QED BY <1>3, <1>6, <1>8, <1>10, <1>11

LEMMA ReadJobsKeeps ==
  ASSUME SInv, NEW i \in Inst, ReadJobs(i), Watch
  PROVE  SInv'
<1> USE DEF SInv
<1>0. /\ i \in deployed /\ persisted
      /\ UNCHANGED <<kind, deployed, up, due, losses, persisted, lock, mapped, loose, configs,
                     accepted, cancelled, begun, orphaned>>
      /\ Spawn(Call(i, "recover", "return"))
  BY AloneFacts DEF ReadJobs, fixed, env, memory, Deployment
<1>1. /\ mapped' \in [Inst -> {"none", "live", "fired"}] /\ loose' \subseteq deployed
      /\ configs' \subseteq deployed /\ cancelled' \in {"no", "going", "done", "lost"}
  BY <1>0 DEF TypeOK, Deployment
<1>2. "recover" \in PCs /\ "return" \in {"unschedule", "return", "cancel"}
  BY DEF PCs
<1>3. /\ TypeOK' /\ Deployment' /\ NotExposed'
      /\ \E s \in Slots : /\ ~Busy(s) /\ Busy(s)' /\ task'[s] = Call(i, "recover", "return")
                          /\ \A t \in Slots : t # s => task'[t] = task[t]
  BY <1>0, <1>1, <1>2, SpawnKeeps DEF fixed, env
<1>4. PICK s \in Slots : /\ ~Busy(s) /\ Busy(s)' /\ At(s, "recover")' /\ task'[s].then = "return"
                         /\ \A t \in Slots : t # s => task'[t] = task[t]
  BY <1>3, CallFacts DEF At, Busy
<1>5. OneSchedule'
  <2>1. \A t \in Slots : /\ At(t, "persist")' => At(t, "persist")
                         /\ At(t, "arm")' => At(t, "arm")
    BY <1>4 DEF At
  <2> QED BY <1>0, <2>1 DEF OneSchedule, Scheduling
<1>6. \A t \in Slots : Busy(t)' /\ task'[t].then = "cancel" => t # s /\ Busy(t)
  BY <1>4 DEF Busy
<1>7. CancelGoing'
  BY <1>0, <1>4, <1>6 DEF CancelGoing, At
<1>8. Quiet' => Quiet /\ \A t \in Slots : ~At(t, "arm") /\ ~At(t, "unindex")
  <2> SUFFICES ASSUME Quiet', NEW t \in Slots, At(t, "arm") \/ At(t, "unindex") PROVE FALSE
    BY <1>0, WatchFacts DEF fixed
  <2>1. At(t, "arm")' \/ At(t, "unindex")'
    BY <1>4 DEF At, Busy
  <2>2. ~Exposure'
    BY <1>0, WatchFacts DEF fixed
  <2> QED BY <1>4, <2>1, <2>2 DEF Exposure, HalfDone
<1>9. CancelSettles'
  <2> SUFFICES ASSUME Quiet'
               PROVE  /\ \A t \in Slots : ~(Busy(t)' /\ task'[t].then = "cancel")
                      /\ cancelled' # "done"
    BY DEF CancelSettles
  <2>1. cancelled' # "done"
    BY <1>0, <1>8 DEF CancelSettles
  <2>2. ASSUME NEW t \in Slots, Busy(t)', task'[t].then = "cancel" PROVE FALSE
    <3>1. Busy(t) /\ task[t].then = "cancel"
      BY <1>4, <1>6, <2>2
    <3> QED BY <1>0, <1>8, <3>1 DEF CancelSettles, CancelGoing
  <2> QED BY <2>1, <2>2
<1>10. Stages'
  <2> SUFFICES ASSUME OneTime, Quiet', losses = 0
               PROVE  up[Origin] = "on" /\ loose = {} /\ (Armed' \/ Fired')
    BY <1>0 DEF Stages, OneTime
  <2>1. up[Origin] = "on" /\ loose = {} /\ (Armed \/ Fired)
    BY <1>0, <1>8 DEF Stages, NotArmed, Forgotten, OneSchedule
  <2>2. CASE Armed
    <3>1. \A t \in Slots : Busy(t)' => At(t, "recover")'
      BY <1>4, <2>2 DEF Armed, At, Busy
    <3> QED BY <1>0, <2>1, <2>2, <3>1 DEF Armed
  <2>3. CASE Fired
    <3>1. PICK u \in Slots :
            /\ Busy(u) /\ task[u].then = "unschedule"
            /\ task[u].pc \in Executing \cup {"release"} /\ (begun = 0 \/ At(u, "run"))
            /\ \A t \in Slots \ {u} : Busy(t) => At(t, "recover")
      BY <2>3 DEF Fired
    <3>2. task'[u] = task[u]
      BY <1>4, <3>1
    <3>3. \A t \in Slots \ {u} : Busy(t)' => At(t, "recover")'
      BY <1>4, <3>1 DEF At, Busy
    <3>4. Busy(u)' /\ (At(u, "run") => At(u, "run")')
      BY <3>1, <3>2 DEF At, Busy
    <3> QED BY <1>0, <2>1, <2>3, <3>1, <3>2, <3>3, <3>4 DEF Fired
  <2> QED BY <2>1, <2>2, <2>3
<1> QED BY <1>3, <1>5, <1>7, <1>9, <1>10

\* Calls only end, and the memory only shrinks, on an instance that is not alone at work.
LEMMA LossKeeps ==
  ASSUME SInv, TypeOK', Watch, UNCHANGED <<kind, deployed, persisted, accepted, begun>>,
         \A j \in Inst : up'[j] # "off" \/ mapped'[j] # "none" => j \in deployed,
         configs' \subseteq configs, loose' \subseteq loose,
         \A t \in Slots : task'[t] \in {task[t], Idle},
         cancelled' = cancelled \/ (cancelled # "no" /\ cancelled' = "lost"),
         OneTime /\ Quiet /\ losses' = 0 => FALSE
  PROVE  SInv'
<1> USE DEF SInv
<1>1. \A t \in Slots : Busy(t)' => Busy(t) /\ task'[t] = task[t]
  BY DEF Busy
<1>2. \A t \in Slots, p \in PCs : At(t, p)' => At(t, p)
  BY DEF At
<1>3. Deployment'
  BY <1>1 DEF Deployment
<1>4. OneSchedule'
  BY <1>2 DEF OneSchedule, Scheduling, PCs
<1>5. NotExposed' /\ (Quiet' => Quiet)
  BY WatchFacts DEF fixed
<1>6. CancelGoing'
  BY <1>1 DEF CancelGoing, At, Busy
<1>7. CancelSettles'
  <2>1. Gone => Gone'
    BY <1>2 DEF Gone, PCs
  <2> QED BY <1>1, <1>2, <1>5, <2>1 DEF CancelSettles, PCs
<1>8. Stages'
  BY <1>5 DEF Stages, OneTime
<1> QED BY <1>3, <1>4, <1>5, <1>6, <1>7, <1>8

\* What the world outside does to a job changes neither calls nor memory.
LEMMA OutsideKeeps ==
  ASSUME SInv, Watch, UNCHANGED <<fixed, up, persisted, memory, task, accepted,
                                  cancelled, begun, orphaned, losses>>,
         due' \in BOOLEAN, lock' \in [owner : Inst \cup {NoOne}, expired : BOOLEAN]
  PROVE  SInv'
<1> USE DEF SInv
<1>0. UNCHANGED <<kind, deployed, mapped, loose, configs>>
  BY DEF fixed, memory
<1>1. TypeOK'
  BY <1>0, WatchFacts DEF TypeOK
<1>2. Deployment' /\ OneSchedule' /\ CancelGoing'
  BY <1>0 DEF Deployment, OneSchedule, CancelGoing, Scheduling, At, Busy
<1>3. NotExposed' /\ (Quiet' => Quiet)
  BY WatchFacts
<1>4. CancelSettles'
  BY <1>0, <1>3 DEF CancelSettles, Gone, At, Busy
<1>5. Stages'
  BY <1>0, <1>3 DEF Stages, OneTime, NotArmed, Armed, Fired, Forgotten, Gone, Scheduling, At, Busy
<1> QED BY <1>1, <1>2, <1>3, <1>4, <1>5

LEMMA VanishKeeps ==
  ASSUME SInv, NEW i \in Inst, Exit(i) \/ Crash(i), Watch
  PROVE  SInv'
<1> USE DEF SInv
<1>0. /\ Vanish(i) /\ up[i] # "off" /\ i \in deployed
      /\ losses' \in 0..MaxLosses
      /\ up[i] = "stopping" \/ losses' = losses + 1
  BY SchedulerAssumption DEF Exit, Crash, Deployment, TypeOK
<1>1. /\ UNCHANGED <<kind, deployed, due, persisted, lock, accepted, begun>>
      /\ configs' = configs \ {i} /\ loose' = loose \ {i}
      /\ up' = [up EXCEPT ![i] = "off"] /\ mapped' = [mapped EXCEPT ![i] = "none"]
  BY <1>0 DEF Vanish, fixed
<1>2. /\ task' \in [Slots -> Calls \cup {Idle}]
      /\ \A t \in Slots : task'[t] \in {task[t], Idle}
  BY <1>0 DEF Vanish, TypeOK
<1>3. cancelled' = cancelled \/ (cancelled # "no" /\ cancelled' = "lost")
  BY <1>0 DEF Vanish, Of, CancelGoing, Busy
<1>4. orphaned' \in BOOLEAN
  BY <1>0 DEF Vanish, TypeOK
<1>5. TypeOK'
  BY <1>0, <1>1, <1>2, <1>3, <1>4, WatchFacts DEF TypeOK, fixed
<1>6. \A j \in Inst : up'[j] # "off" \/ mapped'[j] # "none" => j \in deployed
  BY <1>1 DEF TypeOK, Deployment
<1>7. OneTime /\ Quiet /\ losses' = 0 => FALSE
  <2> SUFFICES ASSUME OneTime, Quiet, losses' = 0 PROVE FALSE
    OBVIOUS
  <2>1. up[i] = "stopping" /\ i = Origin
    BY <1>0, AloneFacts DEF Quiet, TypeOK
  <2>2. losses = 0 => up[Origin] = "on"
    BY DEF Stages
  <2>3. losses' = losses \/ losses' = losses + 1
    BY DEF Exit, Crash
  <2> QED BY <2>1, <2>2, <2>3 DEF TypeOK
<1> QED BY <1>1, <1>2, <1>3, <1>5, <1>6, <1>7, LossKeeps

LEMMA StopKeeps ==
  ASSUME SInv, NEW i \in Inst, Stop(i), Watch
  PROVE  SInv'
<1> USE DEF SInv
<1>1. /\ up[i] = "on" /\ losses < MaxLosses /\ losses' = losses + 1 /\ losses \in 0..MaxLosses
      /\ UNCHANGED <<kind, deployed, due, persisted, lock, accepted, begun, loose, task, cancelled>>
      /\ configs' = configs \ {i}
      /\ up' = [up EXCEPT ![i] = "stopping"] /\ mapped' = [mapped EXCEPT ![i] = "none"]
  BY DEF Stop, fixed, TypeOK
<1>2. orphaned' \in BOOLEAN /\ losses' \in 0..MaxLosses /\ losses' # 0
  BY <1>1, SchedulerAssumption DEF Stop, TypeOK
<1>3. TypeOK'
  BY <1>1, <1>2, WatchFacts DEF TypeOK, fixed
<1>4. \A j \in Inst : up'[j] # "off" \/ mapped'[j] # "none" => j \in deployed
  BY <1>1 DEF TypeOK, Deployment
<1> QED BY <1>1, <1>2, <1>3, <1>4, LossKeeps

LEMMA StartKeeps ==
  ASSUME SInv, NEW i \in Inst, Start(i), Watch
  PROVE  SInv'
<1> USE DEF SInv
<1>1. /\ i \in deployed /\ up[i] = "off" /\ up' = [up EXCEPT ![i] = "on"]
      /\ UNCHANGED <<kind, deployed, due, persisted, lock, accepted, begun, mapped, loose, configs,
                     task, cancelled, orphaned, losses>>
  BY DEF Start, fixed, memory
<1>2. TypeOK'
  BY <1>1, WatchFacts DEF TypeOK, fixed
<1>3. \A j \in Inst : up'[j] # "off" \/ mapped'[j] # "none" => j \in deployed
  BY <1>1 DEF TypeOK, Deployment
<1>4. OneTime /\ Quiet /\ losses' = 0 => FALSE
  BY <1>1, AloneFacts DEF Stages, Quiet
<1> QED BY <1>1, <1>2, <1>3, <1>4, LossKeeps

-----------------------------------------------------------------------------
(* The theorems. *)

LEMMA StepInv == ASSUME SInv, [Next]_vars PROVE SInv'
<1>1. ASSUME NEW s \in Slots, CallStep(s) PROVE SInv'
  <2>1. NotExposed'
    BY <1>1, CallFrame, WatchFacts DEF SInv
  <2> QED BY <1>1, <2>1, CallTypes, CallCancels, CallStages DEF SInv
<1>2. ASSUME NEW i \in Inst, InstStep(i) PROVE SInv'
  BY <1>2, ScheduleKeeps, FireKeeps, UnscheduleKeeps, ReadJobsKeeps, StopKeeps, VanishKeeps, StartKeeps
     DEF InstStep
<1>3. ASSUME BecomeDue, Watch PROVE SInv'
  BY <1>3, OutsideKeeps DEF BecomeDue, SInv, TypeOK
<1>4. ASSUME Expire, Watch PROVE SInv'
  <2>1. lock' \in [owner : Inst \cup {NoOne}, expired : BOOLEAN]
    BY <1>4 DEF Expire, SInv, TypeOK
  <2> QED BY <1>4, <2>1, OutsideKeeps DEF Expire, env, SInv, TypeOK
<1>5. ASSUME UNCHANGED vars PROVE SInv'
  <2>1. UNCHANGED <<kind, deployed, up, due, persisted, lock, mapped, loose, configs, task, accepted,
                    cancelled, begun, orphaned, exposed, crowded, losses>>
    BY <1>5 DEF vars
  <2> QED
    BY <2>1 DEF SInv, TypeOK, Deployment, OneSchedule, NotExposed, Exposure, HalfDone, CancelGoing,
       CancelSettles, Stages, Quiet, Alone, OneTime, NotArmed, Armed, Fired, Forgotten, Gone,
       Scheduling, At, Busy
<1> QED BY <1>1, <1>2, <1>3, <1>4, <1>5 DEF Next

LEMMA SpecInv == Spec => []SInv
<1>1. SInv /\ [Next]_vars => SInv'
  BY StepInv
<1> QED BY InitInv, <1>1, PTL DEF Spec

\* For any number of calls in flight, and of instances: on the only instance of a
\* deployment, while that is not restarted, a one-time job (a time or schedule await, a
\* stall timeout, a webhook timeout) runs at most once, outside the windows of Exposure.
THEOREM JobRunsOnce == Spec => []RunsOnceAlone
<1>1. SInv => RunsOnceAlone
  BY DEF SInv, Stages, Quiet, RunsOnceAlone, NotArmed, Armed, Fired, Forgotten
<1> QED BY <1>1, SpecInv, PTL

\* For any number of calls in flight, crashes and restarts: after unschedule() has
\* returned on the only instance, no handler of the job begins, outside the windows.
THEOREM CancelIsFinal == Spec => CancelHolds
<1>1. SInv /\ [Next]_vars =>
        [\A s \in Slots : Alone /\ ~exposed' /\ cancelled = "done" /\ Running(s)' => Running(s)]_vars
  <2> SUFFICES ASSUME SInv, Next, NEW s \in Slots, Alone, ~exposed', cancelled = "done",
                      Running(s)'
               PROVE  Running(s)
    OBVIOUS
  <2> USE DEF SInv
  <2>0. Watch /\ ~exposed
    <3>1. Watch
      BY DEF Next, CallStep, InstStep
    <3> QED BY <3>1 DEF Watch, TypeOK
  <2>1. Gone
    BY <2>0 DEF CancelSettles, Quiet
  <2>2. ASSUME NEW t \in Slots, CallStep(t) PROVE Running(s)
    <3>1. CASE t # s
      BY <2>2, <3>1, CallFrame DEF CallMoves, Running, At
    <3>2. CASE t = s
      <4>1. task[s].pc # "recover" /\ configs = {} /\ Busy(s) /\ Idle.pc = "idle"
        BY <2>1, <2>2, <3>2, CallFrame, CallFacts DEF Gone, At, Busy
      <4>2. task'[s].pc \in {"run", "overdue"}
        BY DEF Running, At
      <4>3. ASSUME NEW p \in PCs, Goto(s, p) PROVE task'[s].pc = p
        BY <4>1, <4>3, GotoFacts DEF Busy
      <4>4. ~Finish(s) /\ ~AfterExecution(s)
        BY <4>1, <4>2, FinishFacts, AfterFacts
      <4> QED
        BY <2>2, <3>2, <4>1, <4>2, <4>3, <4>4 DEF CallStep, PersistJob, ArmJob, GetLock, DeleteExpired,
           SetLock, ExecuteJob, ReleaseLock, DeleteJob, ReleaseUnscheduled, RecoverJob, Recovering,
           EndOverdue, PCs, At
    <3> QED BY <3>1, <3>2
  <2>3. ASSUME NEW i \in Inst, InstStep(i) PROVE Running(s)
    <3>1. ASSUME NEW p \in {"persist", "get", "unindex", "recover"}, NEW j \in Inst,
                 NEW then \in {"unschedule", "return", "cancel"}, Spawn(Call(j, p, then))
          PROVE  Running(s)
      <4>1. Call(j, p, then) \in Calls /\ Call(j, p, then).pc = p
        BY CallFacts DEF PCs
      <4> QED BY <3>1, <4>1, SpawnFacts DEF Running, At
    <3>2. CASE Schedule(i) \/ Fire(i) \/ Unschedule(i) \/ ReadJobs(i)
      BY <3>1, <3>2 DEF Schedule, Fire, Unschedule, ReadJobs
    <3>3. CASE Stop(i) \/ Start(i)
      BY <3>3 DEF Stop, Start, Running, At
    <3>4. CASE Exit(i) \/ Crash(i)
      BY <3>4 DEF Exit, Crash, Vanish, Running, At
    <3> QED BY <2>3, <3>2, <3>3, <3>4 DEF InstStep
  <2>4. CASE BecomeDue \/ Expire
    BY <2>4 DEF BecomeDue, Expire, Running, At
  <2> QED BY <2>2, <2>3, <2>4 DEF Next
<1> QED BY <1>1, SpecInv, PTL DEF Spec, CancelHolds
==============================================================================
