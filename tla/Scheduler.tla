----------------------------- MODULE Scheduler -----------------------------
(* The scheduler (scheduler/scheduler.ts) seen by one job: the instances of   *)
(* the application that share one store, the job's entry in that store, the   *)
(* lock that is meant to keep two instances from running it, the timers and   *)
(* job configurations each instance keeps in memory, and the asynchronous     *)
(* calls in flight, cut where the code awaits the store.                      *)
(*                                                                            *)
(* scheduler/index.ts passes useIndexLocking = FALSE for every adapter        *)
(* (store.indexAdd exists in none), so the lock is the key-value one: get,    *)
(* then set.  Time is two facts: the job is due, a lock has expired.  The     *)
(* handlers publish an event or mark a run, and end long before the renewal   *)
(* at half the lock's life (startLockRenewal, 150 s), which is left out.      *)
EXTENDS Naturals, FiniteSets

CONSTANTS Inst,         \* instances of the application
          Cases,        \* pairs of a kind of job and a set of instances deployed
          Origin,       \* the instance that calls schedule(): they are interchangeable
          Slots,        \* asynchronous calls in flight at a time
          NoOne,        \* no instance
          MaxLosses     \* instances stopped or crashed in a run

ASSUME SchedulerAssumption ==
  /\ NoOne \notin Inst /\ IsFiniteSet(Inst)
  /\ Cases \subseteq {"time", "hook", "cron"} \X {d \in SUBSET Inst : Origin \in d}
  /\ MaxLosses \in Nat

VARIABLES
  kind,       \* what the job is: "time" (a time or schedule await, a stall
              \* timeout) and "hook" (a webhook or event timeout) are
              \* one-time, "cron" is a schedule trigger
  deployed,   \* the instances of this deployment
  up,         \* per instance: "on", "stopping" (stop() has run), "off"
  due,        \* executeAt is in the past
  persisted,  \* the job is in the index :jobs of the store
  lock,       \* the value of the key lock:<job>
  mapped,     \* per instance, the timer this.jobs holds: "none", "live", "fired"
  loose,      \* instances with a live timer that this.jobs no longer holds
  configs,    \* instances whose jobConfigs has the job
  task,       \* the calls in flight
  accepted,   \* the job has been persisted by schedule()
  cancelled,  \* unschedule() called by the application: "no", "going", "done",
              \* "lost" (the instance went away in the call)
  begun,      \* executions of the handler begun, counted to 2 (1 on several instances)
  orphaned,   \* an instance went away between acquiring the lock and running
  exposed,    \* an entry read by a poll or a recovery was in use while
              \* schedule() or unschedule() was half done, or schedule() ended
              \* after the job became due
  crowded,    \* one instance was in executeWithLock twice at a time
  losses

vars == <<kind, deployed, up, due, persisted, lock, mapped, loose, configs,
          task, accepted, cancelled, begun,
          orphaned, exposed, crowded, losses>>
memory == <<mapped, loose, configs>>
fixed == <<kind, deployed>>
env == <<up, due, losses>>

-----------------------------------------------------------------------------
OneTime == kind # "cron"
Free == [owner |-> NoOne, expired |-> FALSE]
Held(i) == [owner |-> i, expired |-> FALSE]

PCs == {"persist", "arm",                              \* schedule
        "get", "del", "set", "begin", "run", "release", \* executeWithLock
        "overdue",                       \* the handler run by recoverJob, no lock
        "recover",                       \* recoverJobs and the poll, after the read
        "unindex", "unlock"}             \* unschedule

(* "then" is what follows executeWithLock: a one-time timer unschedules the   *)
(* job, a cron timer and the immediate execution of schedule() return; of a   *)
(* call of unschedule, "cancel" is the one the application made.              *)
Idle == [pc |-> "idle"]
Call(i, pc, then) == [on |-> i, pc |-> pc, then |-> then]
Calls == [on : Inst, pc : PCs, then : {"unschedule", "return", "cancel"}]

FreeSlots == {s \in Slots : task[s] = Idle}
Spawn(c) == \E s \in FreeSlots : task' = [task EXCEPT ![s] = c]
Goto(s, pc) == task' = [task EXCEPT ![s].pc = pc]
Finish(s) == task' = [task EXCEPT ![s] = Idle]
At(s, pc) == task[s] # Idle /\ task[s].pc = pc
Of(i) == {s \in Slots : task[s] # Idle /\ task[s].on = i}

Alone == Cardinality(deployed) = 1
BeginHandler == begun' = IF begun = 0 \/ (Alone /\ begun < 2) THEN begun + 1 ELSE begun

Init ==
  /\ \E c \in Cases : kind = c[1] /\ deployed = c[2]
  /\ up = [i \in Inst |-> IF i \in deployed THEN "on" ELSE "off"]
  /\ due = FALSE /\ persisted = FALSE /\ lock = Free
  /\ mapped = [i \in Inst |-> "none"] /\ loose = {} /\ configs = {}
  /\ task = [s \in Slots |-> Idle]
  /\ accepted = FALSE /\ cancelled = "no" /\ begun = 0
  /\ orphaned = FALSE /\ exposed = FALSE /\ crowded = FALSE
  /\ losses = 0

-----------------------------------------------------------------------------
(* A timer of instance i is created: this.jobs.set replaces the entry; a live *)
(* timer that was there goes on without a handle.                             *)
Arm(i) ==
  /\ mapped' = [mapped EXCEPT ![i] = "live"]
  /\ loose' = IF mapped[i] = "live" THEN loose \cup {i} ELSE loose

Schedule(i) ==
  /\ i = Origin /\ ~accepted /\ up[i] = "on" /\ \A s \in Slots : ~At(s, "persist")
  /\ configs' = configs \cup {i}
  /\ Spawn(Call(i, "persist", "return"))
  /\ UNCHANGED <<fixed, env, persisted, lock, mapped, loose, accepted,
                 cancelled, begun, orphaned>>

PersistJob(s) ==
  /\ At(s, "persist")
  /\ persisted' = TRUE /\ accepted' = TRUE
  /\ Goto(s, "arm")
  /\ UNCHANGED <<fixed, env, lock, memory, cancelled, begun, orphaned>>

(* Past its time, a one-time job is executed at once and never unscheduled.   *)
ArmJob(s) ==
  /\ At(s, "arm")
  /\ IF OneTime /\ due
     THEN Goto(s, "get") /\ UNCHANGED <<mapped, loose>>
     ELSE /\ Finish(s)
          /\ IF OneTime \/ up[task[s].on] = "on"
             THEN Arm(task[s].on)
             ELSE mapped' = [mapped EXCEPT ![task[s].on] = "fired"] /\ UNCHANGED loose
  /\ UNCHANGED <<fixed, env, persisted, lock, configs, accepted,
                 cancelled, begun, orphaned>>

Fire(i) ==
  /\ OneTime => due
  /\ \/ /\ mapped[i] = "live"
        /\ mapped' = IF OneTime THEN [mapped EXCEPT ![i] = "fired"] ELSE mapped
        /\ UNCHANGED loose
     \/ /\ i \in loose
        /\ loose' = IF OneTime THEN loose \ {i} ELSE loose
        /\ UNCHANGED mapped
  /\ Spawn(Call(i, "get", IF OneTime THEN "unschedule" ELSE "return"))
  /\ UNCHANGED <<fixed, env, persisted, lock, configs, accepted,
                 cancelled, begun, orphaned>>

-----------------------------------------------------------------------------
(* unschedule begins, with no await before it: the timer of this.jobs is      *)
(* cleared and the instance forgets the job.                                  *)
Forget(i) ==
  /\ mapped' = [mapped EXCEPT ![i] = "none"]
  /\ configs' = configs \ {i}
  /\ UNCHANGED loose

(* What follows executeWithLock.                                              *)
AfterExecution(s) ==
  IF task[s].then = "unschedule"
  THEN Goto(s, "unindex") /\ Forget(task[s].on)
  ELSE Finish(s) /\ UNCHANGED memory

\* Faulty: an expired lock is respected.
GetLockNoExpiry(s) ==
  /\ At(s, "get")
  /\ \/ lock = Free /\ Goto(s, "set") /\ UNCHANGED memory
     \/ lock # Free /\ AfterExecution(s)
  /\ UNCHANGED <<fixed, env, persisted, lock, accepted, cancelled, begun, orphaned>>

GetLock(s) ==
  /\ At(s, "get")
  /\ \/ lock = Free /\ Goto(s, "set") /\ UNCHANGED memory
     \/ lock # Free /\ lock.expired /\ Goto(s, "del") /\ UNCHANGED memory
     \/ lock # Free /\ ~lock.expired /\ AfterExecution(s)
  /\ UNCHANGED <<fixed, env, persisted, lock, accepted, cancelled,
                 begun, orphaned>>

DeleteExpired(s) ==
  /\ At(s, "del")
  /\ lock' = Free /\ Goto(s, "get")
  /\ UNCHANGED <<fixed, env, persisted, memory, accepted, cancelled,
                 begun, orphaned>>

SetLock(s) ==
  /\ At(s, "set")
  /\ lock' = Held(task[s].on) /\ Goto(s, "begin")
  /\ UNCHANGED <<fixed, env, persisted, memory, accepted, cancelled,
                 begun, orphaned>>

\* Faulty: the configuration is not looked for.
ExecuteJobUnchecked(s) ==
  /\ At(s, "begin") /\ Goto(s, "run") /\ BeginHandler
  /\ UNCHANGED <<fixed, env, persisted, lock, memory, accepted, cancelled, orphaned>>

ExecuteJob(s) ==
  LET i == task[s].on IN
  /\ At(s, "begin")
  /\ IF i \in configs
     THEN Goto(s, "run") /\ BeginHandler
     ELSE Goto(s, "release") /\ UNCHANGED begun
  /\ UNCHANGED <<fixed, env, persisted, lock, memory, accepted,
                 cancelled, orphaned>>

(* The handler has ended (what it throws is logged, the rest is the same), or *)
(* there was none; releaseLock deletes the key whoever holds it.              *)
ReleaseLock(s) ==
  /\ At(s, "run") \/ At(s, "release")
  /\ lock' = Free
  /\ AfterExecution(s)
  /\ UNCHANGED <<fixed, env, persisted, accepted, cancelled,
                 begun, orphaned>>

-----------------------------------------------------------------------------
(* The application cancels the job on any instance: a webhook arrived, the    *)
(* run ended, the trigger was paused or deleted.                              *)
Unschedule(i) ==
  /\ accepted /\ cancelled = "no" /\ up[i] = "on"
  /\ \A s \in Slots : ~At(s, "arm")
  /\ cancelled' = "going"
  /\ Forget(i)
  /\ Spawn(Call(i, "unindex", "cancel"))
  /\ UNCHANGED <<fixed, env, persisted, lock, accepted, begun, orphaned>>

DeleteJob(s) ==
  /\ At(s, "unindex")
  /\ persisted' = FALSE
  /\ Goto(s, "unlock")
  /\ UNCHANGED <<fixed, env, lock, memory, accepted, cancelled, begun,
                 orphaned>>

ReleaseUnscheduled(s) ==
  /\ At(s, "unlock")
  /\ lock' = Free
  /\ cancelled' = IF task[s].then = "cancel" THEN "done" ELSE cancelled
  /\ Finish(s)
  /\ UNCHANGED <<fixed, env, persisted, memory, accepted, begun,
                 orphaned>>

-----------------------------------------------------------------------------
(* The index :jobs is read, by the poll of every 30 s or at start; an entry   *)
(* that was read is handled after the read returns.                           *)
ReadJobs(i) ==
  /\ up[i] = "on" /\ persisted
  /\ \A s \in Of(i) : ~At(s, "recover")
  /\ Spawn(Call(i, "recover", "return"))
  /\ UNCHANGED <<fixed, env, persisted, lock, memory, accepted,
                 cancelled, begun, orphaned>>

(* recoverJob: the handler is rebuilt from the metadata, and the timer or the *)
(* immediate execution follows without another look at the store.             *)
SkipKnown(s) ==
  /\ mapped[task[s].on] # "none"
  /\ Finish(s) /\ UNCHANGED <<memory, begun>>

RearmJob(s) ==
  /\ OneTime => ~due
  /\ configs' = configs \cup {task[s].on}
  /\ Arm(task[s].on) /\ Finish(s) /\ UNCHANGED begun

DropOverdue(s) ==
  /\ due /\ Forget(task[s].on) /\ Goto(s, "unindex") /\ UNCHANGED begun

RunOverdue(s) ==
  /\ due
  /\ configs' = configs \cup {task[s].on}
  /\ Goto(s, "overdue") /\ BeginHandler
  /\ UNCHANGED <<mapped, loose>>

Recovering(s) ==
  /\ At(s, "recover")
  /\ UNCHANGED <<fixed, env, persisted, lock, accepted, cancelled, orphaned>>
New(s) == mapped[task[s].on] = "none"

\* Faulty: it is not looked whether the job is known already.
RecoverJobUnchecked(s) ==
  /\ Recovering(s)
  /\ RearmJob(s) \/ (kind = "hook" /\ DropOverdue(s)) \/ (kind = "time" /\ RunOverdue(s))

\* Faulty: an overdue job is skipped, whatever it is.
RecoverJobSkips(s) ==
  /\ Recovering(s)
  /\ \/ SkipKnown(s)
     \/ New(s) /\ RearmJob(s)
     \/ OneTime /\ due /\ Finish(s) /\ UNCHANGED <<memory, begun>>

RecoverJob(s) ==
  /\ Recovering(s)
  /\ \/ SkipKnown(s)
     \/ New(s) /\ RearmJob(s)
     \/ New(s) /\ kind = "hook" /\ DropOverdue(s)
     \/ New(s) /\ kind = "time" /\ RunOverdue(s)

(* The overdue handler ends; if it throws, the job is left as it was.         *)
EndOverdue(s) ==
  /\ At(s, "overdue")
  /\ \/ Goto(s, "unindex") /\ Forget(task[s].on)
     \/ Finish(s) /\ UNCHANGED memory
  /\ UNCHANGED <<fixed, env, persisted, lock, accepted, cancelled,
                 begun, orphaned>>

-----------------------------------------------------------------------------
(* stop(): timers and configurations go, calls in flight go on, and the       *)
(* key-value lock is kept.                                                    *)
Stop(i) ==
  /\ up[i] = "on" /\ losses < MaxLosses
  /\ losses' = losses + 1
  /\ up' = [up EXCEPT ![i] = "stopping"]
  /\ mapped' = [mapped EXCEPT ![i] = "none"]
  /\ configs' = configs \ {i}
  /\ orphaned' = (orphaned \/ i \in loose \/ \E s \in Of(i) :
                    task[s].pc \in {"persist", "arm", "get", "del", "set", "begin"})
  /\ UNCHANGED <<fixed, due, persisted, lock, loose, task, accepted,
                 cancelled, begun>>

Vanish(i) ==
  /\ up' = [up EXCEPT ![i] = "off"]
  /\ mapped' = [mapped EXCEPT ![i] = "none"]
  /\ loose' = loose \ {i}
  /\ configs' = configs \ {i}
  /\ task' = [s \in Slots |-> IF s \in Of(i) THEN Idle ELSE task[s]]
  /\ cancelled' = IF \E s \in Of(i) : task[s].then = "cancel"
                  THEN "lost" ELSE cancelled
  /\ orphaned' = (orphaned \/ \E s \in Of(i) : task[s].pc = "begin")
  /\ UNCHANGED <<fixed, due, persisted, lock, accepted, begun>>

Exit(i) == up[i] = "stopping" /\ Vanish(i) /\ UNCHANGED losses
Crash(i) == /\ up[i] = "on" /\ losses < MaxLosses
            /\ losses' = losses + 1 /\ Vanish(i)

Start(i) ==
  /\ i \in deployed /\ up[i] = "off"
  /\ up' = [up EXCEPT ![i] = "on"]
  /\ UNCHANGED <<fixed, due, persisted, lock, memory, task, accepted,
                 cancelled, begun, orphaned, losses>>

BecomeDue ==
  /\ OneTime /\ ~due /\ due' = TRUE
  /\ UNCHANGED <<fixed, up, persisted, lock, memory, task, accepted,
                 cancelled, begun, orphaned, losses>>

(* A lock whose owner does not execute the job expires.                       *)
Expire ==
  /\ lock # Free /\ ~lock.expired
  /\ \A s \in Of(lock.owner) : task[s].pc \notin {"begin", "run", "release"}
  /\ lock' = [lock EXCEPT !.expired = TRUE]
  /\ UNCHANGED <<fixed, env, persisted, memory, task, accepted,
                 cancelled, begun, orphaned>>

-----------------------------------------------------------------------------
(* The windows in which a job may run twice on a single instance.             *)
HalfDone == \E s \in Slots : At(s, "persist") \/ At(s, "arm") \/ At(s, "unindex")
Exposure == \/ HalfDone /\ \E s \in Slots : At(s, "recover")
            \/ due /\ \E s \in Slots : At(s, "arm")
Executing == {"get", "del", "set", "begin", "run"}
Crowd == \E s, t \in Slots : /\ s # t /\ task[s] # Idle /\ task[t] # Idle
                             /\ task[s].on = task[t].on
                             /\ {task[s].pc, task[t].pc} \subseteq Executing
Watch == /\ exposed' = (exposed \/ (Alone /\ Exposure'))
         /\ crowded' = (crowded \/ Crowd')

CallStep(s) ==
  /\ \/ PersistJob(s) \/ ArmJob(s) \/ GetLock(s) \/ DeleteExpired(s) \/ SetLock(s)
     \/ ExecuteJob(s) \/ ReleaseLock(s) \/ DeleteJob(s)
     \/ ReleaseUnscheduled(s) \/ RecoverJob(s) \/ EndOverdue(s)
  /\ Watch

InstStep(i) ==
  /\ \/ Schedule(i) \/ Fire(i) \/ Unschedule(i) \/ ReadJobs(i) \/ Stop(i) \/ Exit(i) \/ Crash(i) \/ Start(i)
  /\ Watch

Next == \/ BecomeDue /\ Watch
        \/ Expire /\ Watch
        \/ \E s \in Slots : CallStep(s)
        \/ \E i \in Inst : InstStep(i)

Spec == Init /\ [][Next]_vars

(* Time passes, calls of the store and handlers return, timers and the poll   *)
(* come round, and an instance that went away is started again.               *)
Fairness ==
  /\ WF_vars(BecomeDue /\ Watch) /\ WF_vars(Expire /\ Watch)
  /\ \A s \in Slots : WF_vars(CallStep(s))
  /\ \A i \in Inst :
       /\ SF_vars(Fire(i) /\ Watch) /\ SF_vars(ReadJobs(i) /\ Watch)
       /\ WF_vars(Exit(i) /\ Watch) /\ WF_vars(Start(i) /\ Watch)

FairSpec == Spec /\ Fairness

-----------------------------------------------------------------------------
(* Properties                                                                 *)

TypeOK ==
  /\ <<kind, deployed>> \in Cases
  /\ up \in [Inst -> {"on", "stopping", "off"}]
  /\ lock \in [owner : Inst \cup {NoOne}, expired : BOOLEAN]
  /\ mapped \in [Inst -> {"none", "live", "fired"}]
  /\ loose \subseteq Inst /\ configs \subseteq Inst
  /\ task \in [Slots -> Calls \cup {Idle}]
  /\ due \in BOOLEAN /\ persisted \in BOOLEAN /\ accepted \in BOOLEAN
  /\ orphaned \in BOOLEAN /\ exposed \in BOOLEAN /\ crowded \in BOOLEAN
  /\ cancelled \in {"no", "going", "done", "lost"}
  /\ begun \in 0..2 /\ losses \in 0..MaxLosses

Running(s) == At(s, "run") \/ At(s, "overdue")

(* What keeps a job on one instance from running twice, or after it was        *)
(* cancelled.                                                                  *)

Busy(s) == task[s] # Idle
Scheduling(s) == At(s, "persist") \/ At(s, "arm")
Quiet == Alone /\ ~exposed

\* Only instances of the deployment do anything.
Deployment ==
  /\ \A i \in Inst : up[i] # "off" \/ mapped[i] # "none" => i \in deployed
  /\ configs \subseteq deployed /\ loose \subseteq deployed
  /\ \A s \in Slots : Busy(s) => task[s].on \in deployed

\* The job is scheduled by one call, and cancelled after that.
OneSchedule ==
  /\ \A s, t \in Slots : Scheduling(s) /\ Scheduling(t) => s = t
  /\ \A s \in Slots : (At(s, "persist") => ~accepted) /\ (At(s, "arm") => accepted)
  /\ persisted => accepted
  /\ cancelled # "no" => accepted /\ \A s \in Slots : ~At(s, "arm")

NotExposed == Quiet => ~Exposure

\* No configuration is left, and no call that would bring one back.
Gone == configs = {} /\ \A s \in Slots : ~At(s, "recover")

CancelGoing ==
  \A s \in Slots : Busy(s) /\ task[s].then = "cancel" =>
    cancelled # "no" /\ (At(s, "unindex") \/ At(s, "unlock"))

CancelSettles ==
  Quiet => /\ \A s \in Slots : Busy(s) /\ task[s].then = "cancel" =>
                Gone /\ (At(s, "unlock") => ~persisted)
           /\ cancelled = "done" => Gone /\ ~persisted

\* The four stages of a one-time job on an instance that is not restarted.
NotArmed ==
  /\ mapped[Origin] = "none" /\ begun = 0
  /\ accepted => \E s \in Slots : At(s, "arm")
  /\ \A s \in Slots : Busy(s) => Scheduling(s)

Armed ==
  /\ mapped[Origin] = "live" /\ begun = 0 /\ accepted
  /\ \A s \in Slots : Busy(s) => At(s, "recover")

Fired ==
  /\ mapped[Origin] = "fired" /\ begun < 2 /\ accepted
  /\ \E s \in Slots :
       /\ Busy(s) /\ task[s].then = "unschedule"
       /\ task[s].pc \in Executing \cup {"release"} /\ (begun = 0 \/ At(s, "run"))
       /\ \A t \in Slots \ {s} : Busy(t) => At(t, "recover")

Forgotten ==
  /\ mapped[Origin] = "none" /\ begun < 2 /\ accepted
  /\ Gone /\ \A s \in Slots : ~Scheduling(s) /\ ~At(s, "overdue")
  /\ persisted => \E s \in Slots : At(s, "unindex")

Stages ==
  OneTime /\ Quiet /\ losses = 0 =>
    up[Origin] = "on" /\ loose = {} /\ (NotArmed \/ Armed \/ Fired \/ Forgotten)

(* A time await or a stall timeout that schedule() persisted and nobody       *)
(* cancelled does not leave the store before its handler has begun on some    *)
(* instance or is about to (executeWithLock, and unschedule of a one-time     *)
(* timer whether or not it got the lock).  Two exceptions: an instance went   *)
(* away between taking the job and running it, and an instance in             *)
(* executeWithLock twice, where the call that fails to get the lock removes   *)
(* the configuration the other is about to look for.  A webhook or event      *)
(* timeout that is overdue at recovery is dropped on purpose.                 *)
NeverForgotten ==
  kind = "time" /\ accepted /\ cancelled = "no" /\ ~persisted
    => begun > 0 \/ orphaned \/ crowded \/ \E s \in Slots : At(s, "begin")

(* Such a job runs, whatever the number of instances and the crashes.         *)
JobRuns ==
  (kind = "time" /\ accepted)
    ~> (begun > 0 \/ cancelled # "no" \/ orphaned \/ crowded)

(* A cron job runs again and again after crashes that leave its lock behind,  *)
(* until it is cancelled (acquireLock removes a lock that expired).           *)
RecurringGoesOn ==
  (kind = "cron" /\ accepted)
    ~> ((\E s \in Slots : Running(s)) \/ cancelled # "no")

(* On one instance that is not restarted a one-time job runs at most once,    *)
(* outside the windows of Exposure.                                           *)
RunsOnceAlone ==
  OneTime /\ Alone /\ losses = 0 /\ ~exposed => begun < 2

(* After unschedule() has returned on the only instance, the handler does not *)
(* begin any more, even in the calls that were in flight (executeJob looks    *)
(* for the configuration), outside the windows of Exposure.                   *)
CancelHolds ==
  [][\A s \in Slots : Alone /\ ~exposed' /\ cancelled = "done" /\ Running(s)'
        => Running(s)]_vars

(* scheduler.ts:4-5: only one instance executes a scheduled job at a time.    *)
OneInstanceRuns ==
  \A s, t \in Slots : Running(s) /\ Running(t) => task[s].on = task[t].on
=============================================================================
