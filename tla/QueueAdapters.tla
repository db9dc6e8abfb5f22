---------------------------- MODULE QueueAdapters ----------------------------
(* One queue in the memory, Redis and Postgres queue adapters, with the       *)
(* workers of several processes.  Redis and Postgres hand the work to BullMQ  *)
(* and pg-boss, which are modelled by what the adapters use of them: an id is *)
(* accepted once, a worker locks a job, a lock is lost when its process stops *)
(* or does not answer in time, and a failed job is tried again.               *)
(* The file queue has a module of its own (FileQueue.tla).                    *)
EXTENDS Naturals, FiniteSets

CONSTANTS Ids,          \* job ids, given by the callers
          Workers,      \* with Redis and Postgres each in a process of its own
          Adapters,     \* subset of {"memory", "redis", "postgres"}
          NoJob,        \* what an idle worker runs
          Attempts,     \* opts.attempts
          MaxSize,      \* maxQueueSize of the memory queue
          MaxFaults     \* locks lost alive, crashes, pauses and removals in a run

ASSUME QueueAssumption ==
  /\ Adapters \subseteq {"memory", "redis", "postgres"}
  /\ NoJob \notin Ids \X {1, 2}
  /\ Attempts \in Nat \ {0} /\ MaxSize \in Nat
  /\ MaxFaults \in Nat

(* A job's key is its id and the hour slot of its singletonKey: pg-boss keeps *)
(* an id unique within a slot of singletonSeconds, aligned to the clock.      *)
Slots == {1, 2}
Keys == Ids \X Slots

VARIABLES
  adapter,
  slot,      \* Postgres: the current hour
  job,       \* per key: [state, tries]; state "none", "waiting", "active", "done", "failed"
  pushed,    \* memory: keys in the fastq queue of the worker
  running,   \* per worker: the key it handles, or NoJob
  holds,     \* workers whose lock on the job they run is still theirs
  started,   \* workers are registered and the queue is being processed
  up,        \* workers whose process runs
  paused,
  held,      \* memory: keys that neither enqueue nor resume has pushed
  stalled,   \* a worker that lives has lost a lock
  faults

vars == <<adapter, slot, job, pushed, running, holds, started, up, paused, held,
          stalled, faults>>
bounded == <<stalled, faults>>

-----------------------------------------------------------------------------
NoEntry == [state |-> "none", tries |-> 0]
Memory == adapter = "memory"
Known(k) == job[k].state # "none"
Fault == faults < MaxFaults /\ faults' = faults + 1
Open(k) == job[k].state \in {"waiting", "active"}
Size == Cardinality({k \in Keys : Known(k)})

Init ==
  /\ adapter \in Adapters /\ slot = 1
  /\ job = [k \in Keys |-> NoEntry]
  /\ pushed = {} /\ running = [w \in Workers |-> NoJob] /\ holds = {}
  /\ started = FALSE /\ up = Workers /\ paused = FALSE /\ held = {}
  /\ stalled = FALSE /\ faults = 0

Waits(k) == job' = [job EXCEPT ![k] = [state |-> "waiting", tries |-> 0]]

(* Memory: an id the map knows is returned as it is, a full map throws, and a *)
(* job is pushed to the worker unless there is none or it is paused.          *)
EnqueueMemory(id) ==
  LET k == <<id, 1>>
  IN  /\ Memory /\ up # {} /\ ~Known(k) /\ Size < MaxSize
      /\ Waits(k)
      /\ pushed' = IF started /\ ~paused THEN pushed \cup {k} ELSE pushed
      /\ held' = IF started /\ paused THEN held \cup {k} ELSE held
      /\ UNCHANGED <<adapter, slot, running, holds, started, up, paused, bounded>>

\* Faulty: only a waiting job is taken for known.
EnqueueRedisEnded(id) ==
  LET k == <<id, 1>>
  IN  /\ adapter = "redis" /\ job[k].state # "waiting"
      /\ Waits(k)
      /\ UNCHANGED <<adapter, slot, pushed, running, holds, started, up, paused, held, bounded>>

(* BullMQ: add() with an id that exists, in any state, adds nothing.          *)
EnqueueRedis(id) ==
  LET k == <<id, 1>>
  IN  /\ adapter = "redis" /\ ~Known(k)
      /\ Waits(k)
      /\ UNCHANGED <<adapter, slot, pushed, running, holds, started, up, paused, held, bounded>>

(* pg-boss: send() with a singletonKey that is taken in this slot returns     *)
(* null, and the adapter returns the id.  The queue exists once workers do.   *)
EnqueuePostgres(id) ==
  LET k == <<id, slot>>
  IN  /\ adapter = "postgres" /\ started /\ ~Known(k)
      /\ Waits(k)
      /\ UNCHANGED <<adapter, slot, pushed, running, holds, started, up, paused, held, bounded>>

HourPasses ==
  /\ adapter = "postgres" /\ slot = 1 /\ slot' = 2
  /\ UNCHANGED <<adapter, job, pushed, running, holds, started, up, paused, held, bounded>>

\* Faulty: the jobs that wait already are not pushed.
StartProcessingEmpty ==
  /\ ~started /\ up # {} /\ started' = TRUE
  /\ UNCHANGED <<adapter, slot, job, pushed, running, holds, up, paused, held, bounded>>

(* Memory: startProcessingQueue pushes the jobs that wait.                    *)
StartMemory == pushed' = {k \in Keys : job[k].state = "waiting"}

(* The workers plugin registers every handler, then starts the queue.         *)
StartProcessing ==
  /\ ~started /\ up # {} /\ started' = TRUE
  /\ IF Memory THEN StartMemory ELSE UNCHANGED pushed
  /\ UNCHANGED <<adapter, slot, job, running, holds, up, paused, held, bounded>>

-----------------------------------------------------------------------------
Free(w) == w \in up /\ running[w] = NoJob

Take(w, k) ==
  /\ running' = [running EXCEPT ![w] = k]
  /\ holds' = holds \cup {w}
  /\ job' = [job EXCEPT ![k].state = "active"]

(* fastq runs what was pushed, also a job whose id the map has lost.          *)
TakeMemory(w) ==
  /\ Memory /\ Free(w) /\ ~paused
  /\ \E k \in pushed : Take(w, k) /\ pushed' = pushed \ {k}
  /\ UNCHANGED <<adapter, slot, started, up, paused, held, bounded>>

TakeRedis(w) ==
  /\ adapter = "redis" /\ Free(w) /\ started /\ ~paused
  /\ \E k \in Keys : job[k].state = "waiting" /\ Take(w, k)
  /\ UNCHANGED <<adapter, slot, pushed, started, up, paused, held, bounded>>

(* pause() of the Postgres adapter does nothing.                              *)
TakePostgres(w) ==
  /\ adapter = "postgres" /\ Free(w) /\ started
  /\ \E k \in Keys : job[k].state = "waiting" /\ Take(w, k)
  /\ UNCHANGED <<adapter, slot, pushed, started, up, paused, held, bounded>>

TryAgain(k) ==
  IF job[k].tries + 1 < Attempts
  THEN [state |-> "waiting", tries |-> job[k].tries + 1]
  ELSE [state |-> "failed", tries |-> job[k].tries + 1]

(* Whether a worker's result counts: BullMQ wants its lock, pg-boss only that *)
(* the job is active.                                                         *)
Counts(w) == w \in holds \/ (adapter = "postgres" /\ job[running[w]].state = "active")

Ends(w, entry) ==
  /\ w \in up /\ running[w] # NoJob
  /\ job' = IF Counts(w) THEN [job EXCEPT ![running[w]] = entry] ELSE job
  /\ running' = [running EXCEPT ![w] = NoJob] /\ holds' = holds \ {w}
  /\ UNCHANGED <<adapter, slot, pushed, started, up, paused, held, bounded>>

HandlerReturns(w) ==
  /\ running[w] # NoJob
  /\ Ends(w, [state |-> "done", tries |-> job[running[w]].tries])

(* Memory: a job that awaits leaves the map, to be enqueued again.            *)
HandlerAwaits(w) == Memory /\ running[w] # NoJob /\ Ends(w, NoEntry)

HandlerThrows(w) ==
  /\ running[w] # NoJob
  /\ Ends(w, IF Memory THEN [state |-> "failed", tries |-> 1] ELSE TryAgain(running[w]))

-----------------------------------------------------------------------------
(* BullMQ's stalled check and pg-boss's expiration (expireInSeconds, the      *)
(* step's timeout) take a job from a worker that is gone, or that lives and   *)
(* does not answer; that one goes on running.                                 *)
LoseLock(k, w) ==
  /\ job[k].state = "active"
  /\ job' = [job EXCEPT ![k] = TryAgain(k)]
  /\ holds' = holds \ {w}
  /\ UNCHANGED <<adapter, slot, pushed, running, started, up, paused, held>>

ExpireDead(k) ==
  /\ ~Memory /\ \A w \in holds : running[w] # k
  /\ \E w \in Workers \ holds : LoseLock(k, w)
  /\ UNCHANGED bounded

ExpireAlive(w) ==
  /\ ~Memory /\ w \in holds /\ Fault
  /\ stalled' = TRUE
  /\ LoseLock(running[w], w)

CrashMemory ==
  /\ Memory /\ up # {} /\ Fault
  /\ job' = [k \in Keys |-> NoEntry] /\ pushed' = {} /\ held' = {}
  /\ running' = [w \in Workers |-> NoJob] /\ holds' = {}
  /\ started' = FALSE /\ paused' = FALSE
  /\ UNCHANGED <<adapter, slot, up, stalled>>

CrashWorker(w) ==
  /\ ~Memory /\ w \in up /\ Fault
  /\ up' = up \ {w}
  /\ running' = [running EXCEPT ![w] = NoJob] /\ holds' = holds \ {w}
  /\ UNCHANGED <<adapter, slot, job, pushed, started, paused, held, stalled>>

Restart(w) ==
  /\ w \notin up /\ up' = up \cup {w}
  /\ UNCHANGED <<adapter, slot, job, pushed, running, holds, started, paused, held, bounded>>

(* removeJob: BullMQ removes a job no worker has locked, pg-boss cancels one  *)
(* that waits; a cancelled job leaves its singletonKey free.                  *)
RemoveRedis(k) == adapter = "redis" /\ Known(k) /\ job[k].state # "active"
RemovePostgres(k) == adapter = "postgres" /\ job[k].state = "waiting"

RemoveJob(k) ==
  /\ RemoveRedis(k) \/ RemovePostgres(k)
  /\ Fault
  /\ job' = [job EXCEPT ![k] = NoEntry]
  /\ UNCHANGED <<adapter, slot, pushed, running, holds, started, up, paused, held, stalled>>

Pause ==
  /\ started /\ ~paused /\ Fault
  /\ paused' = (adapter # "postgres")
  /\ UNCHANGED <<adapter, slot, job, pushed, running, holds, started, up, held, stalled>>

(* Memory: fastq goes on with what was pushed before the pause.               *)
Resume ==
  /\ paused /\ paused' = FALSE
  /\ UNCHANGED <<adapter, slot, job, pushed, running, holds, started, up, held, bounded>>

-----------------------------------------------------------------------------
Enqueue == \E id \in Ids : EnqueueMemory(id) \/ EnqueueRedis(id) \/ EnqueuePostgres(id)
Dispatch(w) == TakeMemory(w) \/ TakeRedis(w) \/ TakePostgres(w)
Fetch(k) == \E w \in Workers : Dispatch(w) /\ running'[w] = k
Finish(w) == HandlerReturns(w) \/ HandlerAwaits(w) \/ HandlerThrows(w)

Next ==
  \/ Enqueue \/ HourPasses \/ StartProcessing \/ Pause \/ Resume
  \/ \E w \in Workers : Dispatch(w) \/ Finish(w) \/ ExpireAlive(w)
  \/ \E k \in Keys : ExpireDead(k) \/ RemoveJob(k)
  \/ CrashMemory \/ \E w \in Workers : CrashWorker(w) \/ Restart(w)

Spec == Init /\ [][Next]_vars

(* Workers fetch in the order of arrival, so no job is passed over for ever;  *)
(* handlers end, a stopped process is started again, and the backend's        *)
(* maintenance finds the jobs of workers that are gone.                       *)
FairSpec ==
  /\ Spec
  /\ WF_vars(StartProcessing)
  /\ \A w \in Workers : WF_vars(Finish(w)) /\ WF_vars(Restart(w))
  /\ \A k \in Keys : WF_vars(ExpireDead(k)) /\ SF_vars(Fetch(k))

-----------------------------------------------------------------------------
(* Properties                                                                 *)

Entries == [state : {"none", "waiting", "active", "done", "failed"}, tries : Nat]

TypeOK ==
  /\ adapter \in Adapters /\ slot \in Slots
  /\ job \in [Keys -> Entries]
  /\ pushed \subseteq Keys /\ held \subseteq Keys
  /\ running \in [Workers -> Keys \cup {NoJob}]
  /\ holds \subseteq Workers /\ up \subseteq Workers
  /\ started \in BOOLEAN /\ paused \in BOOLEAN /\ stalled \in BOOLEAN /\ faults \in Nat

(* What keeps two workers from one job while no lock was lost by a worker that *)
(* lives: a worker that runs a job has its lock, the job is active, and the    *)
(* worker is the only one; of what is pushed to fastq nothing runs.            *)
LocksHold ==
  ~stalled =>
    /\ \A w \in Workers : running[w] # NoJob =>
         w \in holds /\ job[running[w]].state = "active"
    /\ \A v, w \in Workers : running[v] # NoJob /\ running[v] = running[w] => v = w
    /\ Memory => \A k \in pushed : job[k].state = "waiting"

(* Two workers run jobs of the same id at the same time only after a lock was *)
(* lost by a worker that lives, or, with Postgres, after the id was enqueued  *)
(* again in the next hour: however calls, retries, crashes and removals meet. *)
HandledAlone ==
  ~stalled => \A v, w \in Workers :
    running[v] # NoJob /\ running[v] = running[w] => v = w

(* A job that was accepted ends, with a result, after its last attempt, or    *)
(* removed, unless the queue is paused; with the memory queue also unless it  *)
(* came while the queue was paused: resume() does not push it.                *)
JobsEnd == \A k \in Keys : Open(k) ~> (~Open(k) \/ paused \/ k \in held)
=============================================================================
