------------------------ MODULE QueueAdaptersProofs ------------------------
(* The memory, Redis and Postgres queues never run a job twice at a time      *)
(* while workers that live keep their locks: for any number of ids, workers,  *)
(* attempts, crashes, pauses and removals.                                    *)
EXTENDS QueueAdapters, TLAPS

-----------------------------------------------------------------------------
LEMMA KeyTypes == NoJob \notin Keys /\ \A id \in Ids, n \in Slots : <<id, n>> \in Keys
BY QueueAssumption DEF Keys, Slots

LEMMA EntryTypes ==
  /\ NoEntry \in Entries
  /\ TypeOK => \A k \in Keys : job[k] \in Entries /\ TryAgain(k) \in Entries
BY QueueAssumption DEF Entries, NoEntry, TypeOK, TryAgain

LEMMA InitLocks == Init => TypeOK /\ LocksHold
<1> SUFFICES ASSUME Init PROVE TypeOK /\ LocksHold
  OBVIOUS
<1>1. TypeOK
  BY EntryTypes DEF Init, TypeOK, Slots
<1>2. LocksHold
  BY DEF Init, LocksHold
<1> QED BY <1>1, <1>2

\* A job that nobody runs may be changed, and a worker may let go of its job.
LEMMA EnqueueLocks ==
  ASSUME TypeOK, LocksHold, Enqueue
  PROVE  TypeOK' /\ LocksHold'
<1> USE DEF bounded, Known, Waits, TypeOK, LocksHold, Memory, Entries
<1>1. ASSUME NEW id \in Ids, EnqueueMemory(id) PROVE TypeOK' /\ LocksHold'
  BY <1>1, KeyTypes DEF EnqueueMemory, Slots
<1>2. ASSUME NEW id \in Ids, EnqueueRedis(id) PROVE TypeOK' /\ LocksHold'
  BY <1>2, KeyTypes DEF EnqueueRedis, Slots
<1>3. ASSUME NEW id \in Ids, EnqueuePostgres(id) PROVE TypeOK' /\ LocksHold'
  BY <1>3, KeyTypes DEF EnqueuePostgres
<1> QED BY <1>1, <1>2, <1>3 DEF Enqueue

LEMMA TakeLocks ==
  ASSUME TypeOK, LocksHold, NEW w \in Workers, Dispatch(w)
  PROVE  TypeOK' /\ LocksHold'
<1> USE DEF bounded, Memory, TypeOK, LocksHold, Entries
<1>1. PICK k \in Keys : Take(w, k) /\ (Memory => k \in pushed /\ pushed' = pushed \ {k})
                        /\ (~Memory => job[k].state = "waiting" /\ UNCHANGED pushed)
  BY DEF Dispatch, TakeMemory, TakeRedis, TakePostgres
<1>2. UNCHANGED <<adapter, slot, started, up, paused, held, bounded>>
  BY DEF Dispatch, TakeMemory, TakeRedis, TakePostgres
<1>3. TypeOK'
  BY <1>1, <1>2 DEF Take
<1>4. LocksHold'
  BY <1>1, <1>2, KeyTypes DEF Take
<1> QED BY <1>3, <1>4

LEMMA FinishLocks ==
  ASSUME TypeOK, LocksHold, NEW w \in Workers, Finish(w)
  PROVE  TypeOK' /\ LocksHold'
<1>1. PICK entry \in Entries : Ends(w, entry)
  <2>1. running[w] \in Keys
    BY DEF TypeOK, Finish, HandlerReturns, HandlerAwaits, HandlerThrows
  <2>2. job[running[w]] \in Entries
    BY <2>1, EntryTypes
  <2> QED BY <2>1, <2>2, EntryTypes DEF Finish, HandlerReturns, HandlerAwaits, HandlerThrows, Entries
<1>2. TypeOK'
  BY <1>1 DEF Ends, TypeOK, bounded
<1>3. LocksHold'
  <2>1. CASE Counts(w)
    BY <1>1, <2>1 DEF Ends, TypeOK, LocksHold, bounded, Memory
  <2>2. CASE ~Counts(w)
    BY <1>1, <2>2 DEF Ends, TypeOK, LocksHold, bounded, Memory
  <2> QED BY <2>1, <2>2
<1> QED BY <1>2, <1>3

\* A lock is lost, a process stops, a job is removed.
LEMMA FaultLocks ==
  ASSUME TypeOK, LocksHold,
         \/ \E w \in Workers : ExpireAlive(w) \/ CrashWorker(w)
         \/ \E k \in Keys : ExpireDead(k) \/ RemoveJob(k)
         \/ CrashMemory
  PROVE  TypeOK' /\ LocksHold'
<1>1. ASSUME NEW w \in Workers, ExpireAlive(w) PROVE TypeOK' /\ LocksHold'
  <2>1. job' \in [Keys -> Entries]
    <3>1. CASE running[w] \in Keys
      BY <1>1, <3>1, EntryTypes DEF ExpireAlive, LoseLock, TypeOK
    <3>2. CASE running[w] = NoJob
      BY <1>1, <3>2, KeyTypes DEF ExpireAlive, LoseLock, TypeOK
    <3> QED BY <3>1, <3>2 DEF TypeOK
  <2>2. TypeOK'
    BY <1>1, <2>1 DEF ExpireAlive, LoseLock, Fault, TypeOK
  <2> QED BY <1>1, <2>2 DEF ExpireAlive, LocksHold
<1>2. ASSUME NEW w \in Workers, CrashWorker(w) PROVE TypeOK' /\ LocksHold'
  BY <1>2 DEF CrashWorker, Fault, TypeOK, LocksHold, Memory
<1>3. ASSUME NEW k \in Keys, ExpireDead(k) PROVE TypeOK' /\ LocksHold'
  <2>1. PICK w \in Workers \ holds : LoseLock(k, w)
    BY <1>3 DEF ExpireDead
  <2>2. TypeOK'
    BY <1>3, <2>1, EntryTypes DEF ExpireDead, LoseLock, TypeOK, bounded
  <2>3. ~stalled => \A v \in Workers : running[v] # k
    BY <1>3, KeyTypes DEF ExpireDead, LocksHold
  <2>4. LocksHold'
    BY <1>3, <2>1, <2>3 DEF ExpireDead, LoseLock, TypeOK, LocksHold, Memory, bounded
  <2> QED BY <2>2, <2>4
<1>4. ASSUME NEW k \in Keys, RemoveJob(k) PROVE TypeOK' /\ LocksHold'
  BY <1>4, EntryTypes
     DEF RemoveJob, RemoveRedis, RemovePostgres, Known, Fault, TypeOK, LocksHold, Memory
<1>5. ASSUME CrashMemory PROVE TypeOK' /\ LocksHold'
  <2>1. TypeOK'
    <3>1. job' \in [Keys -> Entries] /\ running' \in [Workers -> Keys \cup {NoJob}]
      BY <1>5, EntryTypes DEF CrashMemory
    <3>2. pushed' \subseteq Keys /\ held' \subseteq Keys
      BY <1>5 DEF CrashMemory
    <3>3. holds' \subseteq Workers /\ up' \subseteq Workers
      BY <1>5 DEF CrashMemory, TypeOK
    <3>4. started' \in BOOLEAN /\ paused' \in BOOLEAN /\ stalled' \in BOOLEAN
      BY <1>5 DEF CrashMemory, TypeOK
    <3>5. faults' \in Nat
      BY <1>5 DEF CrashMemory, Fault, TypeOK
    <3> QED BY <1>5, <3>1, <3>2, <3>3, <3>4, <3>5 DEF CrashMemory, TypeOK
  <2>2. LocksHold'
    BY <1>5 DEF CrashMemory, LocksHold
  <2> QED BY <2>1, <2>2
<1> QED BY <1>1, <1>2, <1>3, <1>4, <1>5

LEMMA OtherLocks ==
  ASSUME TypeOK, LocksHold,
         HourPasses \/ StartProcessing \/ Pause \/ Resume \/ \E w \in Workers : Restart(w)
  PROVE  TypeOK' /\ LocksHold'
<1> USE DEF bounded, TypeOK, LocksHold, Memory
<1>1. CASE HourPasses
  BY <1>1 DEF HourPasses, Slots
<1>2. CASE StartProcessing
  BY <1>2 DEF StartProcessing, StartMemory
<1>3. CASE Pause
  BY <1>3 DEF Pause, Fault
<1>4. CASE Resume
  BY <1>4 DEF Resume
<1>5. CASE \E w \in Workers : Restart(w)
  BY <1>5 DEF Restart
<1> QED BY <1>1, <1>2, <1>3, <1>4, <1>5

LEMMA LocksInductive == Spec => [](TypeOK /\ LocksHold)
<1>1. ASSUME TypeOK, LocksHold, [Next]_vars PROVE TypeOK' /\ LocksHold'
  <2>1. CASE UNCHANGED vars
    BY <1>1, <2>1 DEF vars, TypeOK, LocksHold, Memory
  <2> QED BY <1>1, <2>1, EnqueueLocks, TakeLocks, FinishLocks, FaultLocks, OtherLocks DEF Next
<1> QED BY <1>1, InitLocks, PTL DEF Spec

-----------------------------------------------------------------------------
(* A job is in one worker's hands at a time, in the memory queue, with BullMQ *)
(* and with pg-boss, unless a worker that lives has lost its lock: whatever   *)
(* enqueues, retries, crashes, pauses and removals meet.                      *)
THEOREM JobsHandledAlone == Spec => []HandledAlone
<1>1. LocksHold => HandledAlone
  BY DEF LocksHold, HandledAlone
<1> QED BY <1>1, LocksInductive, PTL
=============================================================================
