---------------------------- MODULE TriggersProofs ----------------------------
(***************************************************************************)
(* A trigger whose requests, timers and handlers interleave, for every      *)
(* number of flows, events, failures and stops of the process: the runtime, *)
(* the index, the timer and the job say the same once the handlers are done.*)
(***************************************************************************)
EXTENDS Triggers, FiniteSetTheorems, TLAPS

IInv == TypeOK /\ Handling /\ InStep

-----------------------------------------------------------------------------
(* Handlers in flight. *)

LEMMA TaskFacts ==
  ASSUME NEW t \in TaskType
  PROVE  /\ t.id \in Nat /\ t.kind \in Kinds /\ t.pc \in PCs /\ t.arg \in Flows \cup Statuses
         /\ t.fresh \in BOOLEAN /\ t.todo \in SUBSET Flows
         /\ \A p \in PCs : LET u == [t EXCEPT !.pc = p]
                           IN  /\ u \in TaskType /\ u.pc = p /\ u.id = t.id /\ u.kind = t.kind
                               /\ u.arg = t.arg /\ u.fresh = t.fresh
         /\ \A fs \in SUBSET Flows :
              LET u == [t EXCEPT !.todo = fs]
              IN  /\ u \in TaskType /\ u.pc = t.pc /\ u.id = t.id /\ u.kind = t.kind
                  /\ u.arg = t.arg /\ u.fresh = t.fresh
BY DEF TaskType

\* Which handlers have which steps.
LEMMA KindOf ==
  ASSUME NEW t \in TaskType, WellFormed(t)
  PROVE  /\ t.pc = "add" => t.kind = "registered"
         /\ t.pc = "update" => t.kind \in {"updated", "added", "removed"}
         /\ t.pc \in {"delete", "stream"} => t.kind = "deleted"
         /\ t.pc \in {"unpersist", "persist"} => t.kind \in Lifecycle
         /\ t.pc = "persist" => t.kind # "deleted"
         /\ t.pc = "increment" => t.kind = "added"
         /\ t.pc = "decrement" => t.kind = "removed"
         /\ t.pc \in {"append", "stats", "fires"} => t.kind = "stats"
         /\ t.pc \in {"resolve", "start"} => t.kind = "fired"
BY TaskFacts DEF WellFormed, StepsOf, Kinds, Lifecycle, Changes

\* The handlers beside t, as long as no calls overlap.
LEMMA Beside ==
  ASSUME TypeOK, Handling, Apart, NEW t \in tasks, NEW u \in tasks, u # t
  PROVE  /\ t.kind \in Lifecycle =>
              u.pc \notin {"add", "delete", "stream", "unpersist", "persist"} /\ u.kind \notin Lifecycle
         /\ t.kind # "deleted" /\ u.kind # "deleted"
         /\ u.pc \notin {"stream", "delete"}
         /\ t.kind \in Changes /\ u.kind \in Changes => u.arg # t.arg
<1>1. ~Conflict(t, u)
  BY DEF Apart
<1>2. u \in TaskType /\ WellFormed(u)
  BY DEF TypeOK, Handling
<1>3. t.kind # "deleted" /\ u.kind # "deleted"
  BY <1>1 DEF Conflict
<1>4. t.kind \in Lifecycle => u.kind \notin Lifecycle
  BY <1>1 DEF Conflict
<1>5. t.kind \in Changes /\ u.kind \in Changes => u.arg # t.arg
  BY <1>1 DEF Conflict
<1> QED BY <1>2, <1>3, <1>4, <1>5, KindOf DEF Lifecycle

\* A handler in flight goes on as one of S, or ends if S is empty.
Turns(t, S) ==
  /\ tasks' = (tasks \ {t}) \cup S /\ S \subseteq TaskType
  /\ \A u, v \in S : u = v
  /\ \A u \in S : /\ u.id = t.id /\ u.kind = t.kind /\ u.arg = t.arg /\ u.fresh = t.fresh
                  /\ u.pc \in StepsOf(t.kind)
                  /\ u.pc \in {"unpersist", "persist"} => type = "schedule"
  /\ UNCHANGED <<chosen, up, events, crashes>>

LEMMA TurnKeeps ==
  ASSUME TypeOK, Handling, NEW t \in tasks, NEW S, Turns(t, S)
  PROVE  /\ tasks' \subseteq TaskType /\ Handling'
         /\ Apart => Apart'
         /\ Cardinality(Counting') = IF t.kind = "stats" /\ S = {} THEN Cardinality(Counting) - 1
                                                                  ELSE Cardinality(Counting)
         /\ Counting = {} => Counting' = {}
<1>1. \A u \in tasks' : (u \in tasks /\ u # t) \/ u \in S
  BY DEF Turns
<1>2. \A u \in tasks : u \in TaskType /\ WellFormed(u)
  BY DEF TypeOK, Handling
<1>3. ASSUME NEW u \in S PROVE WellFormed(u)'
  BY <1>2, <1>3 DEF Turns, WellFormed, chosen
<1>4. \A u \in tasks' : WellFormed(u)'
  <2>1. \A u \in tasks : WellFormed(u)'
    BY <1>2 DEF WellFormed, Turns, chosen
  <2> QED BY <1>1, <1>3, <2>1
<1>5. \A u, v \in tasks' : u.id = v.id /\ u.kind = "stats" /\ v.kind = "stats" => u = v
  BY <1>1 DEF Turns, Handling
<1>a. tasks' \subseteq TaskType /\ (tasks' # {} => up' = "on")
  BY <1>1, <1>2 DEF Turns, Handling
<1>b. ASSUME Apart PROVE Apart'
  <2> SUFFICES ASSUME NEW u \in tasks', NEW v \in tasks', Conflict(u, v) PROVE u = v
    BY DEF Apart
  <2> DEFINE Old(x) == IF x \in S THEN t ELSE x
  <2>1. \A x \in tasks' : Old(x) \in tasks /\ Old(x).kind = x.kind /\ Old(x).arg = x.arg
    BY <1>1 DEF Turns
  <2>2. Conflict(Old(u), Old(v))
    BY <2>1 DEF Conflict
  <2>3. Old(u) = Old(v)
    BY <1>b, <2>1, <2>2 DEF Apart
  <2> QED BY <1>1, <2>3 DEF Turns
<1>c. IsFiniteSet(Counting') => Handling'
  BY <1>4, <1>5, <1>a DEF Handling
<1>6. CASE t.kind # "stats"
  <2>1. Counting' = Counting
    BY <1>6 DEF Turns, Counting
  <2>2. IsFiniteSet(Counting)
    BY DEF Handling
  <2> QED BY <1>6, <1>a, <1>b, <1>c, <2>1, <2>2
<1>7. CASE t.kind = "stats"
  <2>1. Counting' = (Counting \ {t}) \cup S /\ t \in Counting /\ IsFiniteSet(Counting)
    BY <1>7 DEF Turns, Counting, Handling
  <2>2. IsFiniteSet(Counting \ {t}) /\ Cardinality(Counting \ {t}) = Cardinality(Counting) - 1
    BY <2>1, FS_RemoveElement
  <2>3. Cardinality(Counting) \in Nat
    BY <2>1, FS_CardinalityType
  <2>4. CASE S = {}
    <3>1. Counting' = Counting \ {t}
      BY <2>1, <2>4
    <3>2. Counting # {}
      BY <2>1
    <3> QED BY <1>7, <1>a, <1>b, <1>c, <2>2, <2>4, <3>1, <3>2
  <2>5. CASE S # {}
    <3>1. PICK w \in S : S = {w}
      BY <2>5 DEF Turns
    <3>2. w \notin Counting \ {t}
      BY <1>7 DEF Turns, Handling, Counting
    <3>3. Counting' = (Counting \ {t}) \cup {w}
      BY <2>1, <3>1
    <3>4. IsFiniteSet(Counting') /\ Cardinality(Counting') = Cardinality(Counting)
      BY <2>2, <2>3, <3>2, <3>3, FS_AddElement
    <3>5. Counting # {}
      BY <2>1
    <3> QED BY <1>7, <1>a, <1>b, <1>c, <2>5, <3>4, <3>5
  <2> QED BY <2>4, <2>5
<1> QED BY <1>6, <1>7

\* What is known of a handler in flight, and of those beside it.
LEMMA InFlight ==
  ASSUME IInv, NEW t \in tasks
  PROVE  /\ t \in TaskType /\ WellFormed(t) /\ up = "on"
         /\ runtime \in Copies /\ index \in EntryType
BY DEF IInv, TypeOK, Handling

LEMMA Alone ==
  ASSUME IInv, ~muddled, NEW t \in tasks
  PROVE  /\ Deleting <=> t.pc = "stream"
         /\ t.kind \in Lifecycle => (Rearming <=> t.pc \in {"unpersist", "persist"})
         /\ \A S : Turns(t, S) =>
              /\ Deleting' <=> \E u \in S : u.pc = "stream"
              /\ t.kind \in Lifecycle => (Rearming' <=> \E u \in S : u.pc \in {"unpersist", "persist"})
<1>0. TypeOK /\ Handling /\ Apart
  BY DEF IInv, InStep
<1>1. \A u \in tasks : u # t =>
        /\ u.pc # "stream"
        /\ t.kind \in Lifecycle => u.pc \notin {"unpersist", "persist"}
  BY <1>0, Beside
<1>2. Deleting <=> t.pc = "stream"
  BY <1>1 DEF Deleting
<1>3. t.kind \in Lifecycle => (Rearming <=> t.pc \in {"unpersist", "persist"})
  BY <1>1 DEF Rearming
<1>4. ASSUME NEW S, Turns(t, S)
      PROVE  /\ Deleting' <=> \E u \in S : u.pc = "stream"
             /\ t.kind \in Lifecycle => (Rearming' <=> \E u \in S : u.pc \in {"unpersist", "persist"})
  <2>1. tasks' = (tasks \ {t}) \cup S
    BY <1>4 DEF Turns
  <2>2. Deleting' <=> \E u \in S : u.pc = "stream"
    BY <1>1, <2>1 DEF Deleting
  <2>3. t.kind \in Lifecycle => (Rearming' <=> \E u \in S : u.pc \in {"unpersist", "persist"})
    BY <1>1, <2>1 DEF Rearming
  <2> QED BY <2>2, <2>3
<1> QED BY <1>2, <1>3, <1>4

\* A handler that changes nothing but how far it is.
LEMMA QuietTurn ==
  ASSUME IInv, ~muddled, NEW t \in tasks, NEW S, Turns(t, S),
         UNCHANGED <<runtime, index, scheduled, fired>>,
         t.pc \notin {"stream", "unpersist", "persist"},
         \A u \in S : u.pc \notin {"add", "update", "stream", "unpersist", "persist",
                                  "increment", "decrement"},
         t.pc \notin {"increment", "decrement"} \/ backend = "redis",
         t.kind = "stats" => S # {}
  PROVE  Apart' /\ StatusFollows' /\ TimersInStep' /\ SubscriptionsInStep' /\ FiresInStep'
<1>0. /\ TypeOK /\ Handling /\ Apart /\ StatusFollows /\ TimersInStep /\ SubscriptionsInStep /\ FiresInStep
      /\ up = "on" /\ up' = "on" /\ type' = type /\ backend' = backend
  BY InFlight DEF IInv, InStep, Turns, chosen
<1>1. /\ Apart' /\ Cardinality(Counting') = Cardinality(Counting) /\ (Counting = {} => Counting' = {})
  BY <1>0, TurnKeeps
<1>2. ~Deleting /\ ~Deleting'
  BY Alone
<1>3. Rearming' <=> Rearming
  BY DEF Rearming, Turns
<1>4. \A u \in tasks' : u \in tasks \/ u \in S
  BY DEF Turns
<1>5. StatusFollows'
  BY <1>0, <1>2, <1>4 DEF StatusFollows
<1>6. TimersInStep'
  BY <1>0, <1>3, <1>4 DEF TimersInStep, scheduled, Active
<1>7. SubscriptionsInStep'
  <2> SUFFICES ASSUME backend # "redis" PROVE SubscriptionsInStep'
    BY <1>0 DEF SubscriptionsInStep
  <2>1. \A f : Halfway(f)' <=> Halfway(f)
    BY DEF Halfway, Turns
  <2>2. \A u \in S : u.kind = "added" \/ u.kind = "removed" => u.pc # "update"
    OBVIOUS
  <2> QED BY <1>0, <1>2, <1>4, <2>1, <2>2 DEF SubscriptionsInStep
<1>8. FiresInStep'
  BY <1>0, <1>1, <1>2 DEF FiresInStep
<1> QED BY <1>1, <1>5, <1>6, <1>7, <1>8

-----------------------------------------------------------------------------
(* The handlers as turns. *)

LEMMA EndsTurns ==
  ASSUME IInv, NEW t \in tasks, Ends(t), UNCHANGED <<chosen, up, events, crashes>>
  PROVE  Turns(t, {})
BY DEF Ends, Turns

LEMMA GoesTurns ==
  ASSUME IInv, NEW t \in tasks, NEW p \in PCs, Goes(t, p), UNCHANGED <<chosen, up, events, crashes>>,
         p \in StepsOf(t.kind), p \in {"unpersist", "persist"} => type = "schedule"
  PROVE  LET u == [t EXCEPT !.pc = p]
         IN  Turns(t, {u}) /\ u.pc = p /\ u.kind = t.kind /\ u.arg = t.arg /\ u.fresh = t.fresh
<1>1. t \in TaskType
  BY InFlight
<1> DEFINE u == [t EXCEPT !.pc = p]
<1>2. /\ u \in TaskType /\ u.pc = p /\ u.id = t.id /\ u.kind = t.kind
      /\ u.arg = t.arg /\ u.fresh = t.fresh
  BY <1>1, TaskFacts
<1>3. tasks' = (tasks \ {t}) \cup {u}
  BY DEF Goes
<1> HIDE DEF u
<1>4. Turns(t, {u})
  BY <1>2, <1>3 DEF Turns
<1> QED BY <1>2, <1>4 DEF u

\* updateWithRetry throws: nothing is lost but the call.
LEMMA ThrowsKeeps ==
  ASSUME IInv, ~muddled, NEW t \in tasks, Throws(t), Quiet,
         t.pc \in {"update", "increment", "decrement", "stats", "fires"}
  PROVE  Apart' /\ StatusFollows' /\ TimersInStep' /\ SubscriptionsInStep' /\ FiresInStep'
<1>1. Turns(t, {}) /\ index.status = "none" /\ UNCHANGED <<runtime, index, scheduled, fired>>
  BY EndsTurns DEF Throws, Quiet
<1>2. index = NoEntry /\ Counting = {} /\ SubscriptionsInStep
  BY <1>1 DEF IInv, InStep, StatusFollows, FiresInStep
<1>3. t.pc \in {"increment", "decrement"} => backend = "redis"
  <2>1. index.subs = {} /\ ~Deleting
    BY <1>2, Alone DEF NoEntry
  <2>2. t.pc = "increment" => backend = "redis"
    BY <1>2, <2>1 DEF SubscriptionsInStep
  <2>3. t.pc = "decrement" => backend = "redis"
    <3>1. runtime = NoRuntime
      BY <1>1, <2>1, InFlight DEF IInv, InStep, StatusFollows
    <3> QED BY <1>2, <3>1 DEF SubscriptionsInStep, NoRuntime
  <2> QED BY <2>2, <2>3
<1>4. t.kind # "stats"
  BY <1>2 DEF Counting
<1> QED BY <1>1, <1>3, <1>4, QuietTurn

\* A handler that ends in scheduling, with the status it brings.
LEMMA ThenScheduleTurns ==
  ASSUME IInv, ~muddled, NEW t \in tasks, t.kind \in {"registered", "updated"}, t.pc \in {"add", "update"},
         ThenSchedule(t), Quiet, runtime'.status = t.arg
  PROVE  /\ TimersInStep'
         /\ \E S : Turns(t, S) /\ (\A u \in S : u.pc = "unpersist" /\ u.kind = t.kind /\ u.arg = t.arg)
<1>0. /\ TypeOK /\ Handling /\ Apart /\ TimersInStep /\ up = "on" /\ up' = "on" /\ type' = type
      /\ t.kind \in Lifecycle /\ ~Rearming
  BY InFlight, Alone DEF IInv, InStep, Quiet, chosen, Lifecycle
<1>1. CASE type = "schedule"
  <2> DEFINE u == [t EXCEPT !.pc = "unpersist"]
  <2>1. Goes(t, "unpersist") /\ StopTimer
    BY <1>1 DEF ThenSchedule
  <2>2. /\ Turns(t, {u}) /\ u.pc = "unpersist" /\ u.kind = t.kind /\ u.arg = t.arg
    BY <1>1, <2>1, GoesTurns DEF Quiet, PCs, StepsOf
  <2> HIDE DEF u
  <2>3. \A v \in tasks' : v.pc # "persist"
    BY <1>0, <2>2 DEF Turns, Rearming
  <2>4. Rearming'
    BY <2>2 DEF Rearming, Turns
  <2>5. TimersInStep'
    BY <1>0, <2>1, <2>3, <2>4 DEF TimersInStep, StopTimer
  <2> QED BY <2>2, <2>5
<1>2. CASE type # "schedule"
  <2>1. Ends(t) /\ UNCHANGED scheduled
    BY <1>2 DEF ThenSchedule
  <2>2. Turns(t, {})
    BY <2>1, EndsTurns DEF Quiet
  <2>3. \A u \in tasks' : u \in tasks
    BY <2>2 DEF Turns
  <2>4. TimersInStep'
    BY <1>0, <1>2, <2>1, <2>3 DEF TimersInStep, scheduled, Active, Rearming
  <2> QED BY <2>2, <2>4
<1> QED BY <1>1, <1>2

-----------------------------------------------------------------------------
(* Registration and update. *)

LEMMA AddEntryKeeps ==
  ASSUME IInv, ~muddled, NEW t \in tasks, AddEntry(t)
  PROVE  Apart' /\ StatusFollows' /\ TimersInStep' /\ SubscriptionsInStep' /\ FiresInStep' /\ Handling'
         /\ tasks' \subseteq TaskType
<1>0. /\ TypeOK /\ Handling /\ Apart /\ StatusFollows /\ TimersInStep /\ SubscriptionsInStep /\ FiresInStep
      /\ t \in TaskType /\ WellFormed(t) /\ up = "on" /\ t.kind = "registered" /\ t.pc = "add"
      /\ t.kind \in Lifecycle /\ t.arg = "active" /\ up' = "on" /\ UNCHANGED <<type, backend, fired>>
  BY InFlight DEF AddEntry, WellFormed, IInv, InStep, Lifecycle, Quiet, chosen
<1>1. index = NoEntry /\ runtime = NoRuntime /\ ~Deleting /\ Counting = {}
  BY <1>0, Alone DEF StatusFollows, FiresInStep
<1>2. /\ index' = [status |-> "active", fires |-> 0, subscribers |-> 0, subs |-> {}]
      /\ runtime' = [status |-> "active", subs |-> {}]
  BY <1>1 DEF AddEntry, AddTrigger, NoEntry, NoRuntime
<1>3. /\ TimersInStep'
      /\ \E S : Turns(t, S) /\ \A u \in S : u.pc = "unpersist" /\ u.kind = t.kind /\ u.arg = t.arg
  BY <1>0, <1>2, ThenScheduleTurns DEF AddEntry
<1>4. PICK S : Turns(t, S) /\ \A u \in S : u.pc = "unpersist" /\ u.kind = t.kind /\ u.arg = t.arg
  BY <1>3
<1>5. /\ Apart' /\ Handling' /\ tasks' \subseteq TaskType /\ Counting' = {} /\ ~Deleting'
  BY <1>0, <1>1, <1>4, TurnKeeps, Alone
<1>6. \A u \in tasks' : (u \in tasks /\ u # t) \/ u \in S
  BY <1>4 DEF Turns
<1>7. \A u \in tasks : u # t => u.pc \notin {"add", "stream", "unpersist", "persist"}
  BY <1>0, Beside
<1>8. StatusFollows'
  <2>1. \A u \in S : u.pc = "unpersist" /\ u.kind # "deleted" /\ u.arg = "active"
    BY <1>0, <1>4
  <2>2. index'.status = "active" /\ runtime'.status = "active"
    BY <1>2
  <2> QED BY <1>6, <1>7, <2>1, <2>2 DEF StatusFollows
<1>9. SubscriptionsInStep'
  <2> SUFFICES ASSUME backend # "redis" PROVE SubscriptionsInStep'
    BY <1>0 DEF SubscriptionsInStep
  <2>1. /\ runtime'.subs = {} /\ index'.subs = {} /\ index'.subscribers = 0
        /\ runtime.subs = {} /\ index.subs = {}
    BY <1>1, <1>2 DEF NoEntry, NoRuntime
  <2>2. Cardinality({}) = 0
    BY FS_EmptySet
  <2>3. \A u \in tasks' :
          /\ u.pc = "increment" => u.arg \in index'.subs \ runtime'.subs
          /\ u.pc = "decrement" => u.arg \in runtime'.subs \ index'.subs
          /\ u.kind = "added" /\ u.pc = "update" => (u.fresh <=> u.arg \notin runtime'.subs)
          /\ u.kind = "removed" /\ u.pc = "update" => u.arg \in runtime'.subs
    BY <1>0, <1>4, <1>6, <2>1 DEF SubscriptionsInStep
  <2> QED BY <1>0, <2>1, <2>2, <2>3 DEF SubscriptionsInStep
<1>10. FiresInStep'
  <2>1. index.fires = 0 /\ index'.fires = 0 /\ index'.status # "none"
    BY <1>1, <1>2 DEF NoEntry
  <2> QED BY <1>0, <1>1, <1>5, <2>1 DEF FiresInStep
<1> QED BY <1>3, <1>5, <1>8, <1>9, <1>10

LEMMA UpdateEntryKeeps ==
  ASSUME IInv, ~muddled, NEW t \in tasks, UpdateEntry(t)
  PROVE  Apart' /\ StatusFollows' /\ TimersInStep' /\ SubscriptionsInStep' /\ FiresInStep'
<1>0. /\ TypeOK /\ Handling /\ Apart /\ StatusFollows /\ TimersInStep /\ SubscriptionsInStep /\ FiresInStep
      /\ t \in TaskType /\ WellFormed(t) /\ up = "on" /\ t.kind = "updated" /\ t.pc = "update"
      /\ t.kind \in Lifecycle /\ t.arg \in {"active", "inactive"} /\ up' = "on"
      /\ UNCHANGED <<type, backend, fired>>
  BY InFlight DEF UpdateEntry, WellFormed, IInv, InStep, Lifecycle, Quiet, chosen
<1>1. CASE Throws(t)
  BY <1>0, <1>1, ThrowsKeeps DEF UpdateEntry
<1>2. CASE ~Throws(t)
  <2>1. ~Deleting /\ index.status # "none" /\ runtime.status = index.status /\ HasTrigger
    BY <1>0, <1>2, Alone DEF UpdateEntry, StatusFollows, HasTrigger
  <2>2. /\ index' = [index EXCEPT !.status = t.arg] /\ runtime' = [runtime EXCEPT !.status = t.arg]
        /\ ThenSchedule(t) /\ Quiet
    BY <1>2, <2>1 DEF UpdateEntry, AddTrigger
  <2>3. /\ index'.status = t.arg /\ index'.subs = index.subs /\ index'.fires = index.fires
        /\ index'.subscribers = index.subscribers
        /\ runtime'.status = t.arg /\ runtime'.subs = runtime.subs
    BY <2>2, InFlight DEF Copies, EntryType
  <2>4. /\ TimersInStep'
        /\ \E S : Turns(t, S) /\ \A u \in S : u.pc = "unpersist" /\ u.kind = t.kind /\ u.arg = t.arg
    BY <1>0, <2>2, <2>3, ThenScheduleTurns
  <2>5. PICK S : Turns(t, S) /\ \A u \in S : u.pc = "unpersist" /\ u.kind = t.kind /\ u.arg = t.arg
    BY <2>4
  <2>6. /\ Apart' /\ Cardinality(Counting') = Cardinality(Counting) /\ ~Deleting'
    BY <1>0, <2>5, TurnKeeps, Alone
  <2>7. \A u \in tasks' : (u \in tasks /\ u # t) \/ u \in S
    BY <2>5 DEF Turns
  <2>8. \A u \in tasks : u # t => u.pc \notin {"add", "stream", "unpersist", "persist"}
    BY <1>0, Beside
  <2>9. StatusFollows'
    <3>1. \A u \in S : u.pc = "unpersist" /\ u.kind # "deleted" /\ u.arg = t.arg
      BY <1>0, <2>5
    <3>2. t.arg # "none"
      BY <1>0
    <3> QED BY <2>3, <2>7, <2>8, <3>1, <3>2 DEF StatusFollows
  <2>10. SubscriptionsInStep'
    <3> SUFFICES ASSUME backend # "redis" PROVE SubscriptionsInStep'
      BY <1>0 DEF SubscriptionsInStep
    <3>1. \A f : Halfway(f)' <=> Halfway(f)
      BY <1>0, <2>5 DEF Halfway, Turns
    <3>2. \A u \in S : u.pc \notin {"increment", "decrement", "update"}
      BY <2>5
    <3> QED BY <1>0, <2>1, <2>3, <2>7, <3>1, <3>2 DEF SubscriptionsInStep
  <2>11. FiresInStep'
    BY <1>0, <2>1, <2>3, <2>6 DEF FiresInStep
  <2> QED BY <2>4, <2>6, <2>9, <2>10, <2>11
<1> QED BY <1>1, <1>2

-----------------------------------------------------------------------------
(* Subscriptions. *)

\* A handler about a subscription: what it leaves alone.
LEMMA ChangeTurn ==
  ASSUME IInv, ~muddled, NEW t \in tasks, t.kind \in Changes, NEW S, Turns(t, S),
         index' \in EntryType, index.status # "none",
         index'.status = index.status, index'.fires = index.fires, runtime'.status = runtime.status,
         \A u \in S : u.pc \in {"increment", "decrement"},
         UNCHANGED <<scheduled, fired>>,
         backend # "redis" =>
           /\ index'.subscribers = Cardinality(runtime'.subs)
           /\ \A f \in Flows : f # t.arg =>
                /\ f \in runtime'.subs <=> f \in runtime.subs
                /\ f \in index'.subs <=> f \in index.subs
           /\ S = {} => (t.arg \in runtime'.subs <=> t.arg \in index'.subs)
           /\ \A u \in S :
                /\ u.pc = "increment" => t.arg \in index'.subs \ runtime'.subs
                /\ u.pc = "decrement" => t.arg \in runtime'.subs \ index'.subs
  PROVE  Apart' /\ StatusFollows' /\ TimersInStep' /\ SubscriptionsInStep' /\ FiresInStep'
<1>0. /\ TypeOK /\ Handling /\ Apart /\ StatusFollows /\ TimersInStep /\ SubscriptionsInStep /\ FiresInStep
      /\ t \in TaskType /\ WellFormed(t) /\ up = "on" /\ up' = "on" /\ t.arg \in Flows
      /\ UNCHANGED <<type, backend>>
  BY InFlight DEF WellFormed, IInv, InStep, Turns, chosen
<1>1. t.pc \notin {"add", "stream", "unpersist", "persist"} /\ t.kind \notin {"stats", "deleted"}
  BY <1>0, KindOf DEF Changes, Lifecycle
<1>2. ~Deleting /\ ~Deleting' /\ (Rearming' <=> Rearming)
  <2>1. Rearming' <=> Rearming
    BY <1>1 DEF Rearming, Turns
  <2> QED BY <1>1, <2>1, Alone
<1>3. Apart' /\ Cardinality(Counting') = Cardinality(Counting)
  BY <1>0, <1>1, TurnKeeps
<1>4. \A u \in tasks' : (u \in tasks /\ u # t) \/ u \in S
  BY DEF Turns
<1>5. \A u \in S : u.pc \notin {"add", "stream", "unpersist", "persist", "update"}
  OBVIOUS
<1>6. StatusFollows'
  <2>1. \A u \in tasks : u.pc # "stream"
    BY <1>2 DEF Deleting
  <2> QED BY <1>0, <1>2, <1>4, <1>5, <2>1 DEF StatusFollows
<1>7. TimersInStep'
  BY <1>0, <1>2, <1>4, <1>5 DEF TimersInStep, scheduled, Active
<1>8. FiresInStep'
  BY <1>0, <1>2, <1>3 DEF FiresInStep
<1>9. SubscriptionsInStep'
  <2> SUFFICES ASSUME backend # "redis" PROVE SubscriptionsInStep'
    BY <1>0 DEF SubscriptionsInStep
  <2>1. \A f \in Flows : f # t.arg => (Halfway(f)' <=> Halfway(f))
    BY <1>4 DEF Halfway, Turns
  <2>2. S # {} => Halfway(t.arg)'
    BY DEF Halfway, Turns
  <2>3. \A f \in Flows : ~Halfway(f)' => (f \in runtime'.subs <=> f \in index'.subs)
    BY <1>0, <1>2, <2>1, <2>2 DEF SubscriptionsInStep
  <2>4. ASSUME NEW u \in tasks, u # t
        PROVE  /\ u.pc = "increment" => u.arg \in index'.subs \ runtime'.subs
               /\ u.pc = "decrement" => u.arg \in runtime'.subs \ index'.subs
               /\ u.kind = "added" /\ u.pc = "update" => (u.fresh <=> u.arg \notin runtime'.subs)
               /\ u.kind = "removed" /\ u.pc = "update" => u.arg \in runtime'.subs
    <3>1. u \in TaskType /\ WellFormed(u)
      BY InFlight
    <3>2. u.kind \in Changes => u.arg # t.arg /\ u.arg \in Flows
      BY <1>0, <2>4, <3>1, Beside DEF WellFormed
    <3>3. u.pc \in {"increment", "decrement"} => u.kind \in Changes
      BY <3>1, KindOf DEF Changes
    <3> QED BY <1>0, <3>2, <3>3 DEF SubscriptionsInStep, Changes
  <2>5. \A u \in S : u.arg = t.arg
    BY DEF Turns
  <2> QED BY <1>0, <1>2, <1>4, <1>5, <2>3, <2>4, <2>5 DEF SubscriptionsInStep
<1> QED BY <1>3, <1>6, <1>7, <1>8, <1>9

LEMMA AddSubscriptionKeeps ==
  ASSUME IInv, ~muddled, NEW t \in tasks, AddSubscription(t)
  PROVE  Apart' /\ StatusFollows' /\ TimersInStep' /\ SubscriptionsInStep' /\ FiresInStep'
<1>0. /\ StatusFollows /\ SubscriptionsInStep /\ ~Deleting /\ up = "on"
      /\ t \in TaskType /\ t.kind = "added" /\ t.pc = "update" /\ t.arg \in Flows /\ t.kind \in Changes
      /\ runtime \in Copies /\ index \in EntryType /\ Quiet
  BY InFlight, Alone DEF AddSubscription, WellFormed, IInv, InStep, Changes
<1>1. CASE Throws(t)
  BY <1>0, <1>1, ThrowsKeeps
<1>2. ASSUME index.status # "none", index' = [index EXCEPT !.subs = @ \cup {t.arg}], UNCHANGED scheduled,
             t.fresh, Goes(t, "increment"), UNCHANGED runtime
      PROVE  Apart' /\ StatusFollows' /\ TimersInStep' /\ SubscriptionsInStep' /\ FiresInStep'
  <2> DEFINE u == [t EXCEPT !.pc = "increment"]
  <2>1. Turns(t, {u}) /\ u.pc = "increment"
    BY <1>0, <1>2, GoesTurns DEF Quiet, PCs, StepsOf
  <2> HIDE DEF u
  <2>2. /\ index' \in EntryType /\ index'.status = index.status /\ index'.fires = index.fires
        /\ index'.subscribers = index.subscribers /\ index'.subs = index.subs \cup {t.arg}
    BY <1>0, <1>2 DEF EntryType
  <2>3. backend # "redis" => index.subscribers = Cardinality(runtime.subs) /\ t.arg \notin runtime.subs
    BY <1>0, <1>2 DEF SubscriptionsInStep
  <2> QED BY <1>0, <1>2, <2>1, <2>2, <2>3, ChangeTurn DEF Quiet
<1>3. ASSUME index.status # "none", index' = [index EXCEPT !.subs = @ \cup {t.arg}], UNCHANGED scheduled,
             ~t.fresh, AddRuntimeSub(t.arg), Ends(t)
      PROVE  Apart' /\ StatusFollows' /\ TimersInStep' /\ SubscriptionsInStep' /\ FiresInStep'
  <2>1. Turns(t, {})
    BY <1>0, <1>3, EndsTurns DEF Quiet
  <2>2. /\ index' \in EntryType /\ index'.status = index.status /\ index'.fires = index.fires
        /\ index'.subscribers = index.subscribers /\ index'.subs = index.subs \cup {t.arg}
        /\ runtime'.status = runtime.status /\ runtime'.subs = runtime.subs \cup {t.arg}
    BY <1>0, <1>3 DEF EntryType, Copies, AddRuntimeSub
  <2>3. backend # "redis" => index.subscribers = Cardinality(runtime.subs) /\ t.arg \in runtime.subs
    BY <1>0, <1>3 DEF SubscriptionsInStep
  <2>4. backend # "redis" => runtime'.subs = runtime.subs
    BY <2>2, <2>3
  <2>5. backend # "redis" =>
          /\ index'.subscribers = Cardinality(runtime'.subs)
          /\ \A f \in Flows : f # t.arg =>
               /\ f \in runtime'.subs <=> f \in runtime.subs
               /\ f \in index'.subs <=> f \in index.subs
          /\ t.arg \in runtime'.subs <=> t.arg \in index'.subs
    BY <2>2, <2>3, <2>4
  <2>6. UNCHANGED <<scheduled, fired>>
    BY <1>0, <1>3 DEF Quiet
  <2>7. t.kind \in Changes /\ index.status # "none" /\ Turns(t, {}) /\ UNCHANGED <<scheduled, fired>>
    BY <1>0, <1>3, <2>1, <2>6
  <2> QED BY <2>2, <2>5, <2>7, ChangeTurn
<1> QED BY <1>1, <1>2, <1>3 DEF AddSubscription

LEMMA SubsCount ==
  ASSUME TypeOK, NEW f \in Flows
  PROVE  /\ f \notin runtime.subs => Cardinality(runtime.subs \cup {f}) = Cardinality(runtime.subs) + 1
         /\ f \in runtime.subs => Cardinality(runtime.subs \ {f}) = Cardinality(runtime.subs) - 1
         /\ IsFiniteSet(runtime.subs)
<1>1. runtime.subs \subseteq Flows
  BY DEF TypeOK, Copies
<1>2. IsFiniteSet(runtime.subs)
  BY <1>1, TriggersAssumption, FS_Subset
<1> QED BY <1>2, FS_AddElement, FS_RemoveElement

LEMMA CountSubscriptionKeeps ==
  ASSUME IInv, ~muddled, NEW t \in tasks, CountSubscription(t)
  PROVE  Apart' /\ StatusFollows' /\ TimersInStep' /\ SubscriptionsInStep' /\ FiresInStep'
<1>0. /\ StatusFollows /\ SubscriptionsInStep /\ ~Deleting /\ up = "on" /\ TypeOK
      /\ t \in TaskType /\ t.kind = "added" /\ t.pc = "increment" /\ t.arg \in Flows /\ t.kind \in Changes
      /\ runtime \in Copies /\ index \in EntryType /\ Quiet
  BY InFlight, Alone DEF CountSubscription, WellFormed, IInv, InStep, Changes
<1>1. CASE Throws(t)
  BY <1>0, <1>1, ThrowsKeeps
<1>2. CASE ~Throws(t)
  <2>0. /\ index.status # "none" /\ index' = [index EXCEPT !.subscribers = @ + 1]
        /\ AddRuntimeSub(t.arg) /\ Ends(t) /\ UNCHANGED scheduled
    BY <1>2 DEF CountSubscription
  <2>1. Turns(t, {})
    BY <1>0, <2>0, EndsTurns DEF Quiet
  <2>2. /\ index' \in EntryType /\ index'.status = index.status /\ index'.fires = index.fires
        /\ index'.subscribers = index.subscribers + 1 /\ index'.subs = index.subs
        /\ runtime'.status = runtime.status /\ runtime'.subs = runtime.subs \cup {t.arg}
    BY <1>0, <2>0 DEF EntryType, Copies, AddRuntimeSub
  <2>3. backend # "redis" => /\ index.subscribers = Cardinality(runtime.subs)
                             /\ t.arg \in index.subs \ runtime.subs
    BY <1>0 DEF SubscriptionsInStep
  <2>4. backend # "redis" => index'.subscribers = Cardinality(runtime'.subs)
    BY <1>0, <2>2, <2>3, SubsCount
  <2>5. backend # "redis" =>
          /\ index'.subscribers = Cardinality(runtime'.subs)
          /\ \A f \in Flows : f # t.arg =>
               /\ f \in runtime'.subs <=> f \in runtime.subs
               /\ f \in index'.subs <=> f \in index.subs
          /\ t.arg \in runtime'.subs <=> t.arg \in index'.subs
    BY <2>2, <2>3, <2>4
  <2>6. UNCHANGED <<scheduled, fired>>
    BY <1>0, <2>0 DEF Quiet
  <2>7. t.kind \in Changes /\ index.status # "none" /\ Turns(t, {}) /\ UNCHANGED <<scheduled, fired>>
    BY <1>0, <2>0, <2>1, <2>6
  <2> QED BY <2>2, <2>5, <2>7, ChangeTurn
<1> QED BY <1>1, <1>2

LEMMA RemoveSubscriptionKeeps ==
  ASSUME IInv, ~muddled, NEW t \in tasks, RemoveSubscription(t)
  PROVE  Apart' /\ StatusFollows' /\ TimersInStep' /\ SubscriptionsInStep' /\ FiresInStep'
<1>0. /\ StatusFollows /\ SubscriptionsInStep /\ ~Deleting /\ up = "on"
      /\ t \in TaskType /\ t.kind = "removed" /\ t.pc = "update" /\ t.arg \in Flows /\ t.kind \in Changes
      /\ runtime \in Copies /\ index \in EntryType /\ Quiet
  BY InFlight, Alone DEF RemoveSubscription, WellFormed, IInv, InStep, Changes
<1>1. CASE Throws(t)
  BY <1>0, <1>1, ThrowsKeeps
<1>2. CASE ~Throws(t)
  <2>0. /\ index.status # "none" /\ index' = [index EXCEPT !.subs = NullSubscription(@, t.arg)]
        /\ Goes(t, "decrement") /\ UNCHANGED <<runtime, scheduled>>
    BY <1>2 DEF RemoveSubscription
  <2> DEFINE u == [t EXCEPT !.pc = "decrement"]
  <2>1. Turns(t, {u}) /\ u.pc = "decrement"
    BY <1>0, <2>0, GoesTurns DEF Quiet, PCs, StepsOf
  <2> HIDE DEF u
  <2>2. /\ index' \in EntryType /\ index'.status = index.status /\ index'.fires = index.fires
        /\ index'.subscribers = index.subscribers
        /\ backend # "redis" => index'.subs = index.subs \ {t.arg}
    BY <1>0, <2>0 DEF EntryType, NullSubscription
  <2>3. backend # "redis" => index.subscribers = Cardinality(runtime.subs) /\ t.arg \in runtime.subs
    BY <1>0 DEF SubscriptionsInStep
  <2> QED BY <1>0, <2>0, <2>1, <2>2, <2>3, ChangeTurn DEF Quiet
<1> QED BY <1>1, <1>2

LEMMA UncountSubscriptionKeeps ==
  ASSUME IInv, ~muddled, NEW t \in tasks, UncountSubscription(t)
  PROVE  Apart' /\ StatusFollows' /\ TimersInStep' /\ SubscriptionsInStep' /\ FiresInStep'
<1>0. /\ StatusFollows /\ SubscriptionsInStep /\ ~Deleting /\ up = "on" /\ TypeOK
      /\ t \in TaskType /\ t.kind = "removed" /\ t.pc = "decrement" /\ t.arg \in Flows /\ t.kind \in Changes
      /\ runtime \in Copies /\ index \in EntryType /\ Quiet
  BY InFlight, Alone DEF UncountSubscription, WellFormed, IInv, InStep, Changes
<1>1. CASE Throws(t)
  BY <1>0, <1>1, ThrowsKeeps
<1>2. CASE ~Throws(t)
  <2>0. /\ index.status # "none" /\ index' = [index EXCEPT !.subscribers = @ - 1]
        /\ RemoveRuntimeSub(t.arg) /\ Ends(t) /\ UNCHANGED scheduled
    BY <1>2 DEF UncountSubscription
  <2>1. Turns(t, {})
    BY <1>0, <2>0, EndsTurns DEF Quiet
  <2>2. /\ index' \in EntryType /\ index'.status = index.status /\ index'.fires = index.fires
        /\ index'.subscribers = index.subscribers - 1 /\ index'.subs = index.subs
        /\ runtime'.status = runtime.status /\ runtime'.subs = runtime.subs \ {t.arg}
    BY <1>0, <2>0 DEF EntryType, Copies, RemoveRuntimeSub
  <2>3. backend # "redis" => /\ index.subscribers = Cardinality(runtime.subs)
                             /\ t.arg \in runtime.subs \ index.subs
    BY <1>0 DEF SubscriptionsInStep
  <2>4. backend # "redis" => index'.subscribers = Cardinality(runtime'.subs)
    BY <1>0, <2>2, <2>3, SubsCount
  <2>5. backend # "redis" =>
          /\ index'.subscribers = Cardinality(runtime'.subs)
          /\ \A f \in Flows : f # t.arg =>
               /\ f \in runtime'.subs <=> f \in runtime.subs
               /\ f \in index'.subs <=> f \in index.subs
          /\ t.arg \in runtime'.subs <=> t.arg \in index'.subs
    BY <2>2, <2>3, <2>4
  <2>6. UNCHANGED <<scheduled, fired>>
    BY <1>0, <2>0 DEF Quiet
  <2>7. t.kind \in Changes /\ index.status # "none" /\ Turns(t, {}) /\ UNCHANGED <<scheduled, fired>>
    BY <1>0, <2>0, <2>1, <2>6
  <2> QED BY <2>2, <2>5, <2>7, ChangeTurn
<1> QED BY <1>1, <1>2

-----------------------------------------------------------------------------
(* Deletion, and the rest of a scheduling. *)

\* A deletion is the only handler in flight.
LEMMA DeletesAlone ==
  ASSUME IInv, ~muddled, NEW t \in tasks, t.kind = "deleted"
  PROVE  /\ tasks = {t} /\ Counting = {}
         /\ \A S : Turns(t, S) => tasks' = S /\ Counting' = {} /\ Apart' /\ Handling'
<1>1. TypeOK /\ Handling /\ Apart
  BY DEF IInv, InStep
<1>2. tasks = {t}
  BY <1>1, Beside
<1>3. Counting = {}
  BY <1>2 DEF Counting
<1>4. ASSUME NEW S, Turns(t, S) PROVE tasks' = S /\ Counting' = {} /\ Apart' /\ Handling'
  <2>1. Counting' = {} /\ Apart' /\ Handling'
    BY <1>1, <1>3, <1>4, TurnKeeps
  <2> QED BY <1>2, <1>4, <2>1 DEF Turns
<1> QED BY <1>2, <1>3, <1>4

LEMMA DeleteEntryKeeps ==
  ASSUME IInv, ~muddled, NEW t \in tasks, DeleteEntry(t)
  PROVE  Apart' /\ StatusFollows' /\ TimersInStep' /\ SubscriptionsInStep' /\ FiresInStep'
<1>0. /\ TimersInStep /\ SubscriptionsInStep /\ up = "on" /\ up' = "on" /\ Quiet
      /\ t \in TaskType /\ WellFormed(t) /\ t.kind = "deleted" /\ t.pc = "delete"
      /\ index' = NoEntry /\ UNCHANGED <<type, backend, runtime, scheduled>>
  BY InFlight DEF DeleteEntry, IInv, InStep, Quiet, chosen
<1> DEFINE u == [t EXCEPT !.pc = "stream"]
<1>1. Turns(t, {u}) /\ u.pc = "stream" /\ u.kind = "deleted"
  BY <1>0, GoesTurns DEF DeleteEntry, Quiet, PCs, StepsOf
<1> HIDE DEF u
<1>2. tasks = {t} /\ tasks' = {u} /\ Counting' = {} /\ Apart'
  BY <1>0, <1>1, DeletesAlone
<1>3. Deleting' /\ ~Rearming' /\ ~Rearming
  BY <1>0, <1>1, <1>2 DEF Deleting, Rearming
<1>4. StatusFollows'
  BY <1>0, <1>1, <1>2, <1>3 DEF StatusFollows
<1>5. TimersInStep'
  BY <1>0, <1>1, <1>2, <1>3 DEF TimersInStep, scheduled, Active
<1>6. SubscriptionsInStep' /\ FiresInStep'
  BY <1>0, <1>1, <1>2, <1>3 DEF SubscriptionsInStep, FiresInStep
<1> QED BY <1>2, <1>4, <1>5, <1>6

LEMMA DeleteStreamKeeps ==
  ASSUME IInv, ~muddled, NEW t \in tasks, DeleteStream(t)
  PROVE  /\ Apart' /\ StatusFollows' /\ TimersInStep' /\ SubscriptionsInStep' /\ FiresInStep'
         /\ Handling' /\ tasks' \subseteq TaskType
<1>0. /\ StatusFollows /\ TimersInStep /\ up = "on" /\ up' = "on"
      /\ t \in TaskType /\ WellFormed(t) /\ t.kind = "deleted" /\ t.pc = "stream" /\ t.fresh
      /\ UNCHANGED <<chosen, up, events, crashes>> /\ UNCHANGED <<type, backend, index>>
      /\ runtime' = NoRuntime /\ fired' = 0 /\ index = NoEntry
  BY InFlight DEF DeleteStream, IInv, InStep, chosen, WellFormed, RemoveTrigger, StatusFollows
<1>1. /\ ~Rearming /\ tasks = {t} /\ Cardinality({}) = 0
      /\ \A S : Turns(t, S) => tasks' = S /\ Counting' = {} /\ Apart' /\ Handling'
  BY <1>0, DeletesAlone, FS_EmptySet DEF Rearming
<1>2. ASSUME NEW S, Turns(t, S), \A v \in S : v.pc = "unpersist" /\ v.kind = "deleted"
      PROVE  Apart' /\ StatusFollows' /\ SubscriptionsInStep' /\ FiresInStep' /\ Handling' /\ tasks' \subseteq TaskType
  <2>1. tasks' = S /\ Counting' = {} /\ Apart' /\ Handling' /\ tasks' \subseteq TaskType
    BY <1>1, <1>2 DEF Turns
  <2>2. ~Deleting'
    BY <1>2, <2>1 DEF Deleting
  <2>3. /\ runtime'.status = "none" /\ runtime'.subs = {} /\ index'.status = "none" /\ index'.subs = {}
        /\ index'.fires = 0 /\ index'.subscribers = 0 /\ index' = NoEntry /\ runtime' = NoRuntime
    BY <1>0 DEF NoRuntime, NoEntry
  <2>4. StatusFollows'
    BY <1>2, <2>1, <2>3 DEF StatusFollows
  <2>5. SubscriptionsInStep'
    BY <1>1, <1>2, <2>1, <2>3 DEF SubscriptionsInStep
  <2>6. FiresInStep'
    BY <1>0, <1>1, <2>1, <2>3 DEF FiresInStep
  <2> QED BY <2>1, <2>4, <2>5, <2>6
<1>3. CASE type = "schedule"
  <2> DEFINE u == [t EXCEPT !.pc = "unpersist"]
  <2>1. Goes(t, "unpersist") /\ StopTimer
    BY <1>0, <1>3 DEF DeleteStream
  <2>2. Turns(t, {u}) /\ u.pc = "unpersist" /\ u.kind = "deleted"
    BY <1>0, <1>3, <2>1, GoesTurns DEF PCs, StepsOf
  <2> HIDE DEF u
  <2>3. tasks' = {u}
    BY <1>1, <2>2
  <2>4. TimersInStep'
    BY <1>0, <2>1, <2>2, <2>3 DEF TimersInStep, StopTimer, Rearming
  <2> QED BY <1>2, <2>2, <2>4
<1>4. CASE type # "schedule"
  <2>1. Ends(t) /\ UNCHANGED scheduled
    BY <1>0, <1>4 DEF DeleteStream
  <2>2. Turns(t, {})
    BY <1>0, <2>1, EndsTurns
  <2>3. tasks' = {}
    BY <1>1, <2>2
  <2>4. TimersInStep'
    BY <1>0, <1>1, <1>4, <2>1, <2>3 DEF TimersInStep, scheduled, Active
  <2> QED BY <1>2, <2>2, <2>4
<1> QED BY <1>3, <1>4

\* The steps that only write the job.
LEMMA JobTurn ==
  ASSUME IInv, ~muddled, NEW t \in tasks, t.pc \in {"unpersist", "persist"}, NEW S, Turns(t, S),
         UNCHANGED <<runtime, index, fired>>,
         \A u \in S : u.pc = "persist" /\ t.kind # "deleted"
  PROVE  Apart' /\ StatusFollows' /\ SubscriptionsInStep' /\ FiresInStep'
<1>0. /\ TypeOK /\ Handling /\ Apart /\ StatusFollows /\ SubscriptionsInStep /\ FiresInStep
      /\ t \in TaskType /\ WellFormed(t) /\ up = "on" /\ up' = "on"
      /\ UNCHANGED <<type, backend>>
  BY InFlight DEF WellFormed, IInv, InStep, Turns, chosen
<1>1. t.kind \in Lifecycle /\ t.kind # "stats" /\ ~Deleting /\ ~Deleting'
  BY <1>0, KindOf, Alone DEF Lifecycle
<1>2. Apart' /\ Cardinality(Counting') = Cardinality(Counting) /\ (Counting = {} => Counting' = {})
  BY <1>0, <1>1, TurnKeeps
<1>3. \A u \in tasks' : u \in tasks \/ (u \in S /\ u.kind = t.kind /\ u.arg = t.arg)
  <2>1. \A u \in tasks' : u \in tasks \/ u \in S
    BY DEF Turns
  <2>2. \A u \in S : u.kind = t.kind /\ u.arg = t.arg
    BY DEF Turns
  <2> QED BY <2>1, <2>2
<1>4. StatusFollows'
  BY <1>0, <1>1, <1>3 DEF StatusFollows
<1>5. SubscriptionsInStep'
  <2> SUFFICES ASSUME backend # "redis" PROVE SubscriptionsInStep'
    BY <1>0 DEF SubscriptionsInStep
  <2>1. \A f : Halfway(f)' <=> Halfway(f)
    BY DEF Halfway, Turns
  <2> QED BY <1>0, <1>1, <1>3, <2>1 DEF SubscriptionsInStep
<1>6. FiresInStep'
  BY <1>0, <1>1, <1>2 DEF FiresInStep
<1> QED BY <1>2, <1>4, <1>5, <1>6

LEMMA UnpersistKeeps ==
  ASSUME IInv, ~muddled, NEW t \in tasks, Unpersist(t)
  PROVE  Apart' /\ StatusFollows' /\ TimersInStep' /\ SubscriptionsInStep' /\ FiresInStep'
<1>0. /\ TypeOK /\ Handling /\ Apart /\ StatusFollows /\ TimersInStep /\ up = "on" /\ up' = "on" /\ Quiet
      /\ t \in TaskType /\ WellFormed(t) /\ t.pc = "unpersist" /\ type = "schedule" /\ job' = "none"
      /\ timer = "none" /\ UNCHANGED <<type, runtime, index, timer, loose, fired>>
  BY InFlight DEF Unpersist, IInv, InStep, Quiet, chosen, WellFormed, TimersInStep
<1>1. t.kind \in Lifecycle
  BY <1>0, KindOf
<1>2. \A u \in tasks : u # t => u.pc \notin {"unpersist", "persist"}
  BY <1>0, <1>1, Beside
<1>3. CASE t.kind = "deleted"
  <2>1. Turns(t, {})
    BY <1>0, <1>3, EndsTurns DEF Unpersist, Quiet
  <2>2. runtime.status = "none"
    BY <1>0, <1>3 DEF StatusFollows
  <2>3. TimersInStep'
    BY <1>0, <1>2, <2>1, <2>2 DEF TimersInStep, Turns, Active
  <2> QED BY <1>0, <1>3, <2>1, <2>3, JobTurn
<1>4. CASE t.kind # "deleted"
  <2> DEFINE u == [t EXCEPT !.pc = "persist"]
  <2>1. Turns(t, {u}) /\ u.pc = "persist"
    BY <1>0, <1>1, <1>4, GoesTurns DEF Unpersist, Quiet, PCs, StepsOf, Lifecycle
  <2> HIDE DEF u
  <2>2. Rearming'
    BY <2>1 DEF Rearming, Turns
  <2>3. TimersInStep'
    BY <1>0, <2>2 DEF TimersInStep
  <2> QED BY <1>0, <1>4, <2>1, <2>3, JobTurn
<1> QED BY <1>3, <1>4

LEMMA PersistJobKeeps ==
  ASSUME IInv, ~muddled, NEW t \in tasks, PersistJob(t)
  PROVE  Apart' /\ StatusFollows' /\ TimersInStep' /\ SubscriptionsInStep' /\ FiresInStep'
<1>0. /\ TypeOK /\ Handling /\ Apart /\ StatusFollows /\ TimersInStep /\ up = "on" /\ up' = "on" /\ Quiet
      /\ t \in TaskType /\ WellFormed(t) /\ t.pc = "persist" /\ type = "schedule"
      /\ timer = "none" /\ UNCHANGED <<type, runtime, index, fired>>
  BY InFlight DEF PersistJob, IInv, InStep, Quiet, chosen, WellFormed, TimersInStep
<1>1. t.kind \in Lifecycle /\ t.kind # "deleted" /\ runtime.status = t.arg
  BY <1>0, KindOf DEF StatusFollows
<1>2. \A u \in tasks : u # t => u.pc \notin {"unpersist", "persist"}
  BY <1>0, <1>1, Beside
<1>3. Turns(t, {})
  BY <1>0, EndsTurns DEF PersistJob, Quiet
<1>4. \A u \in tasks' : u.pc \notin {"unpersist", "persist"}
  BY <1>2, <1>3 DEF Turns
<1>5. TimersInStep'
  BY <1>0, <1>1, <1>4 DEF TimersInStep, Active, PersistJob
<1> QED BY <1>0, <1>3, <1>5, JobTurn

-----------------------------------------------------------------------------
(* Fires. *)

LEMMA UpdateFiredAtKeeps ==
  ASSUME IInv, ~muddled, NEW t \in tasks, AppendFired(t) \/ UpdateFiredAt(t)
  PROVE  Apart' /\ StatusFollows' /\ TimersInStep' /\ SubscriptionsInStep' /\ FiresInStep'
<1>1. CASE UpdateFiredAt(t) /\ Throws(t)
  BY <1>1, ThrowsKeeps DEF UpdateFiredAt
<1>2. ASSUME NEW p \in {"stats", "fires"}, Goes(t, p), Quiet, t.kind = "stats", t.pc \in {"append", "stats"},
             UNCHANGED <<runtime, index, scheduled>>
      PROVE  Apart' /\ StatusFollows' /\ TimersInStep' /\ SubscriptionsInStep' /\ FiresInStep'
  <2> DEFINE u == [t EXCEPT !.pc = p]
  <2>0. p \in PCs /\ p \in StepsOf(t.kind) /\ p \notin {"unpersist", "persist"}
    BY <1>2 DEF PCs, StepsOf
  <2>1. Turns(t, {u}) /\ u.pc = p
    BY <1>2, <2>0, GoesTurns DEF Quiet
  <2> HIDE DEF u
  <2> QED BY <1>2, <2>1, QuietTurn DEF Quiet
<1> QED BY <1>1, <1>2 DEF AppendFired, UpdateFiredAt

LEMMA CountFiredKeeps ==
  ASSUME IInv, ~muddled, NEW t \in tasks, CountFired(t)
  PROVE  Apart' /\ StatusFollows' /\ TimersInStep' /\ SubscriptionsInStep' /\ FiresInStep'
<1>0. /\ TypeOK /\ Handling /\ Apart /\ StatusFollows /\ TimersInStep /\ SubscriptionsInStep /\ FiresInStep
      /\ t \in TaskType /\ WellFormed(t) /\ up = "on" /\ up' = "on" /\ Quiet
      /\ t.pc = "fires" /\ t.kind = "stats" /\ UNCHANGED <<type, backend, fired>>
  BY InFlight DEF CountFired, IInv, InStep, Quiet, chosen
<1>1. CASE Throws(t)
  BY <1>0, <1>1, ThrowsKeeps
<1>2. CASE ~Throws(t)
  <2>1. /\ index.status # "none" /\ index' = [index EXCEPT !.fires = @ + 1]
        /\ Turns(t, {}) /\ UNCHANGED <<runtime, scheduled>>
    BY <1>0, <1>2, EndsTurns DEF CountFired, Quiet
  <2>2. /\ index'.status = index.status /\ index'.subs = index.subs /\ index'.fires = index.fires + 1
        /\ index'.subscribers = index.subscribers /\ index.fires \in Int
    BY <2>1, InFlight DEF EntryType
  <2>3. Apart' /\ Cardinality(Counting') = Cardinality(Counting) - 1 /\ ~Deleting /\ ~Deleting'
    BY <1>0, <2>1, TurnKeeps, Alone
  <2>4. \A u \in tasks' : u \in tasks
    BY <2>1 DEF Turns
  <2>5. (Rearming' <=> Rearming) /\ \A f : Halfway(f)' <=> Halfway(f)
    BY <1>0, <2>1 DEF Rearming, Halfway, Turns
  <2>6. StatusFollows'
    <3>1. \A u \in tasks : u.pc # "stream"
      BY <2>3 DEF Deleting
    <3> QED BY <1>0, <2>1, <2>2, <2>3, <2>4, <3>1 DEF StatusFollows
  <2>7. TimersInStep'
    BY <1>0, <2>1, <2>4, <2>5 DEF TimersInStep, scheduled, Active
  <2>8. SubscriptionsInStep'
    BY <1>0, <2>1, <2>2, <2>3, <2>4, <2>5 DEF SubscriptionsInStep
  <2>9. FiresInStep'
    <3>1. Cardinality(Counting) \in Nat
      BY <1>0, FS_CardinalityType DEF Handling
    <3>2. index.fires + 1 + (Cardinality(Counting) - 1) = index.fires + Cardinality(Counting)
      BY <2>2, <3>1
    <3> QED BY <1>0, <2>1, <2>2, <2>3, <3>2 DEF FiresInStep
  <2> QED BY <2>3, <2>6, <2>7, <2>8, <2>9
<1> QED BY <1>1, <1>2

LEMMA FiredKeeps ==
  ASSUME IInv, ~muddled, NEW t \in tasks, ResolvePayload(t) \/ StartFlow(t)
  PROVE  Apart' /\ StatusFollows' /\ TimersInStep' /\ SubscriptionsInStep' /\ FiresInStep'
<1>0. /\ t \in TaskType /\ t.kind = "fired" /\ t.pc \in {"resolve", "start"}
      /\ UNCHANGED <<chosen, up, runtime, index, scheduled, events, crashes, fired>>
  BY InFlight DEF ResolvePayload, StartFlow, Quiet
<1>1. ASSUME NEW S, Turns(t, S), \A u \in S : u.pc = "start"
      PROVE  Apart' /\ StatusFollows' /\ TimersInStep' /\ SubscriptionsInStep' /\ FiresInStep'
  BY <1>0, <1>1, QuietTurn
<1>2. CASE ResolvePayload(t)
  <2>1. CASE Ends(t)
    BY <1>0, <1>1, <2>1, EndsTurns
  <2>2. CASE Goes(t, "start")
    <3>1. "start" \in PCs /\ "start" \in StepsOf(t.kind)
      BY <1>0 DEF PCs, StepsOf
    <3> DEFINE u == [t EXCEPT !.pc = "start"]
    <3>2. Turns(t, {u}) /\ u.pc = "start"
      BY <1>0, <2>2, <3>1, GoesTurns
    <3> HIDE DEF u
    <3> QED BY <1>1, <3>2
  <2> QED BY <1>2, <2>1, <2>2 DEF ResolvePayload
<1>3. CASE StartFlow(t)
  <2>1. PICK f \in t.todo : AfterStart(t, f)
    BY <1>3 DEF StartFlow
  <2> DEFINE left == t.todo \ {f}
             u == [t EXCEPT !.todo = left]
  <2>2. left \in SUBSET Flows
    BY <1>0, TaskFacts
  <2> HIDE DEF left
  <2>3. /\ u \in TaskType /\ u.pc = t.pc /\ u.id = t.id /\ u.kind = t.kind /\ u.arg = t.arg
        /\ u.fresh = t.fresh /\ t.pc = "start"
    BY <1>0, <1>3, <2>2, TaskFacts DEF StartFlow
  <2>4. tasks' = (tasks \ {t}) \cup (IF left = {} THEN {} ELSE {u})
    BY <2>1 DEF AfterStart, left
  <2> HIDE DEF u
  <2>5. "start" \in StepsOf(t.kind)
    BY <1>0 DEF StepsOf
  <2>6. Turns(t, IF left = {} THEN {} ELSE {u})
    BY <1>0, <2>3, <2>4, <2>5 DEF Turns
  <2> QED BY <1>1, <2>3, <2>6
<1> QED BY <1>2, <1>3

\* Of a call that fails before its handler has changed anything.
LEMMA FailsKeeps ==
  ASSUME IInv, ~muddled', NEW t \in tasks, Fails(t)
  PROVE  Apart' /\ StatusFollows' /\ TimersInStep' /\ SubscriptionsInStep' /\ FiresInStep'
<1>1. /\ ~muddled /\ t.kind \in Lifecycle \cup Changes /\ t.pc \in {"add", "update", "delete"}
      /\ UNCHANGED <<chosen, up, runtime, index, scheduled, events, crashes, fired>> /\ Ends(t)
  BY DEF Fails, Cut, IInv, TypeOK
<1>2. Turns(t, {})
  BY <1>1, EndsTurns
<1>3. t.kind # "stats"
  BY <1>1 DEF Lifecycle, Changes
<1> QED BY <1>1, <1>2, <1>3, QuietTurn

-----------------------------------------------------------------------------
(* Any handler. *)

LEMMA HandleTurns ==
  ASSUME IInv, NEW t \in tasks, Handle(t)
  PROVE  \E S : Turns(t, S)
<1>0. t \in TaskType /\ WellFormed(t)
  BY InFlight
<1>1. ASSUME UNCHANGED <<chosen, up, events, crashes>>,
             \/ Ends(t)
             \/ \E p \in PCs : /\ Goes(t, p) /\ p \in StepsOf(t.kind)
                               /\ p \in {"unpersist", "persist"} => type = "schedule"
      PROVE  \E S : Turns(t, S)
  BY <1>1, EndsTurns, GoesTurns
<1>2. CASE AddEntry(t) \/ UpdateEntry(t)
  <2>1. "unpersist" \in PCs /\ "unpersist" \in StepsOf(t.kind)
    BY <1>2 DEF AddEntry, UpdateEntry, PCs, StepsOf
  <2>2. Ends(t) \/ (Goes(t, "unpersist") /\ type = "schedule")
    BY <1>2 DEF AddEntry, UpdateEntry, ThenSchedule, Throws
  <2>3. UNCHANGED <<chosen, up, events, crashes>>
    BY <1>2 DEF AddEntry, UpdateEntry, Quiet
  <2> QED BY <1>1, <2>1, <2>2, <2>3
<1>3. CASE AddSubscription(t) \/ CountSubscription(t) \/ UncountSubscription(t)
  <2>1. CASE AddSubscription(t)
    <3>1. "increment" \in PCs /\ "increment" \in StepsOf(t.kind)
      BY <2>1 DEF AddSubscription, PCs, StepsOf
    <3>2. Ends(t) \/ Goes(t, "increment")
      BY <2>1 DEF AddSubscription, Throws
    <3>3. UNCHANGED <<chosen, up, events, crashes>>
      BY <2>1 DEF AddSubscription, Quiet
    <3> QED BY <1>1, <3>1, <3>2, <3>3
  <2>2. CASE CountSubscription(t) \/ UncountSubscription(t)
    BY <1>1, <2>2 DEF CountSubscription, UncountSubscription, Throws, Quiet
  <2> QED BY <1>3, <2>1, <2>2
<1>4. CASE RemoveSubscription(t)
  <2>1. "decrement" \in PCs /\ "decrement" \in StepsOf(t.kind)
    BY <1>4 DEF RemoveSubscription, PCs, StepsOf
  <2>2. Ends(t) \/ Goes(t, "decrement")
    BY <1>4 DEF RemoveSubscription, Throws
  <2> QED BY <1>1, <1>4, <2>1, <2>2 DEF RemoveSubscription, Quiet
<1>5. CASE DeleteEntry(t) \/ DeleteStream(t)
  <2>1. {"stream", "unpersist"} \subseteq PCs \cap StepsOf(t.kind)
    BY <1>5 DEF DeleteEntry, DeleteStream, PCs, StepsOf
  <2>2. Ends(t) \/ Goes(t, "stream") \/ (Goes(t, "unpersist") /\ type = "schedule")
    BY <1>5 DEF DeleteEntry, DeleteStream
  <2>3. UNCHANGED <<chosen, up, events, crashes>>
    BY <1>5 DEF DeleteEntry, DeleteStream, Quiet
  <2> QED BY <1>1, <2>1, <2>2, <2>3
<1>6. CASE Unpersist(t) \/ PersistJob(t)
  <2>1. t.kind \in Lifecycle /\ type = "schedule" /\ "persist" \in PCs
    BY <1>0, <1>6, KindOf DEF Unpersist, PersistJob, WellFormed, PCs
  <2>2. t.kind # "deleted" => "persist" \in StepsOf(t.kind)
    BY <2>1 DEF StepsOf, Lifecycle
  <2>3. Ends(t) \/ (t.kind # "deleted" /\ Goes(t, "persist"))
    BY <1>6 DEF Unpersist, PersistJob
  <2>4. UNCHANGED <<chosen, up, events, crashes>>
    BY <1>6 DEF Unpersist, PersistJob, Quiet
  <2> QED BY <1>1, <2>1, <2>2, <2>3, <2>4
<1>7. CASE AppendFired(t) \/ UpdateFiredAt(t) \/ CountFired(t)
  <2>1. {"stats", "fires"} \subseteq PCs \cap StepsOf(t.kind)
    BY <1>7 DEF AppendFired, UpdateFiredAt, CountFired, PCs, StepsOf
  <2>2. Ends(t) \/ Goes(t, "stats") \/ Goes(t, "fires")
    BY <1>7 DEF AppendFired, UpdateFiredAt, CountFired, Throws
  <2>3. UNCHANGED <<chosen, up, events, crashes>>
    BY <1>7 DEF AppendFired, UpdateFiredAt, CountFired, Quiet
  <2> QED BY <1>1, <2>1, <2>2, <2>3
<1>8. CASE ResolvePayload(t)
  <2>1. "start" \in PCs /\ "start" \in StepsOf(t.kind)
    BY <1>8 DEF ResolvePayload, PCs, StepsOf
  <2> QED BY <1>1, <1>8, <2>1 DEF ResolvePayload, Quiet
<1>9. CASE StartFlow(t)
  <2>1. PICK f \in t.todo : AfterStart(t, f)
    BY <1>9 DEF StartFlow
  <2>2. Turns(t, IF t.todo \ {f} = {} THEN {} ELSE {[t EXCEPT !.todo = t.todo \ {f}]})
    <3> DEFINE left == t.todo \ {f}
               u == [t EXCEPT !.todo = left]
    <3>1. left \in SUBSET Flows
      BY <1>0, TaskFacts
    <3>2. UNCHANGED <<chosen, up, events, crashes>> /\ t.pc = "start" /\ t.kind = "fired"
      BY <1>9 DEF StartFlow
    <3>3. tasks' = (tasks \ {t}) \cup (IF left = {} THEN {} ELSE {u})
      BY <2>1 DEF AfterStart
    <3> HIDE DEF left
    <3>4. u \in TaskType /\ u.pc = t.pc /\ u.id = t.id /\ u.kind = t.kind /\ u.arg = t.arg /\ u.fresh = t.fresh
      BY <1>0, <3>1, TaskFacts
    <3> HIDE DEF u
    <3>5. "start" \in StepsOf(t.kind)
      BY <3>2 DEF StepsOf
    <3>6. Turns(t, IF left = {} THEN {} ELSE {u})
      BY <3>2, <3>3, <3>4, <3>5 DEF Turns
    <3> QED BY <3>6 DEF left, u
  <2> QED BY <2>2
<1>10. CASE Fails(t)
  BY <1>1, <1>10 DEF Fails
<1> QED BY <1>2, <1>3, <1>4, <1>5, <1>6, <1>7, <1>8, <1>9, <1>10 DEF Handle

LEMMA HandleTypes ==
  ASSUME IInv, NEW t \in tasks, Handle(t)
  PROVE  TypeOK' /\ Handling'
<1>0. /\ TypeOK /\ Handling /\ t \in TaskType /\ WellFormed(t)
      /\ runtime \in Copies /\ index \in EntryType
  BY InFlight DEF IInv
<1>1. PICK S : Turns(t, S)
  BY HandleTurns
<1>2. tasks' \subseteq TaskType /\ Handling' /\ UNCHANGED <<type, backend, up, events>>
  BY <1>0, <1>1, TurnKeeps DEF Turns, chosen
<1>3. t.kind \in Changes => t.arg \in Flows
  BY <1>0 DEF WellFormed
<1>4. t.kind \in Lifecycle => t.arg \in Statuses
  BY <1>0 DEF WellFormed, Statuses
<1>5. NoEntry \in EntryType /\ NoRuntime \in Copies
  BY DEF NoEntry, NoRuntime, EntryType, Copies, Statuses
<1>6. runtime' \in Copies
  <2>1. /\ \A s \in Statuses : [runtime EXCEPT !.status = s] \in Copies
        /\ \A f \in Flows : [runtime EXCEPT !.subs = @ \cup {f}] \in Copies
        /\ \A f \in Flows : [runtime EXCEPT !.subs = @ \ {f}] \in Copies
    BY <1>0 DEF Copies
  <2>2. \/ runtime' = runtime \/ runtime' = NoRuntime
        \/ \E s \in Statuses : runtime' = [runtime EXCEPT !.status = s]
        \/ \E f \in Flows : runtime' = [runtime EXCEPT !.subs = @ \cup {f}]
        \/ \E f \in Flows : runtime' = [runtime EXCEPT !.subs = @ \ {f}]
    <3>1. CASE AddEntry(t) \/ UpdateEntry(t)
      BY <1>4, <3>1 DEF AddEntry, UpdateEntry, AddTrigger, Throws, Statuses, Lifecycle
    <3>2. CASE AddSubscription(t) \/ CountSubscription(t) \/ RemoveSubscription(t) \/ UncountSubscription(t)
      BY <1>3, <3>2 DEF AddSubscription, CountSubscription, RemoveSubscription, UncountSubscription,
                        AddRuntimeSub, RemoveRuntimeSub, Throws, Changes
    <3>3. CASE DeleteEntry(t) \/ DeleteStream(t) \/ Unpersist(t) \/ PersistJob(t) \/ AppendFired(t)
      BY <3>3 DEF DeleteEntry, DeleteStream, RemoveTrigger, Unpersist, PersistJob, AppendFired
    <3>4. CASE UpdateFiredAt(t) \/ CountFired(t) \/ ResolvePayload(t) \/ StartFlow(t) \/ Fails(t)
      BY <3>4 DEF UpdateFiredAt, CountFired, ResolvePayload, StartFlow, Fails, Throws
    <3> QED BY <3>1, <3>2, <3>3, <3>4 DEF Handle
  <2> QED BY <1>0, <1>5, <2>1, <2>2
<1>7. index' \in EntryType
  <2>1. /\ \A s \in Statuses : [index EXCEPT !.status = s] \in EntryType
        /\ \A fs \in SUBSET Flows : [index EXCEPT !.subs = fs] \in EntryType
        /\ [index EXCEPT !.subscribers = @ + 1] \in EntryType
        /\ [index EXCEPT !.subscribers = @ - 1] \in EntryType
        /\ [index EXCEPT !.fires = @ + 1] \in EntryType
    BY <1>0 DEF EntryType
  <2>2. CASE AddEntry(t)
    <3>1. index' = [status |-> "active", fires |-> 0, subscribers |-> 0,
                    subs |-> IF backend = "memory" THEN {} ELSE index.subs]
      BY <2>2 DEF AddEntry
    <3> QED BY <1>0, <3>1 DEF EntryType, Statuses
  <2>3. CASE UpdateEntry(t)
    BY <1>0, <1>4, <2>1, <2>3 DEF UpdateEntry, Throws, Lifecycle
  <2>4. CASE AddSubscription(t)
    <3>1. index' = index \/ index' = [index EXCEPT !.subs = index.subs \cup {t.arg}]
      BY <2>4 DEF AddSubscription, Throws
    <3>2. index.subs \cup {t.arg} \in SUBSET Flows
      BY <1>0, <1>3, <2>4 DEF AddSubscription, Changes, EntryType
    <3> QED BY <1>0, <2>1, <3>1, <3>2
  <2>5. CASE RemoveSubscription(t)
    <3>1. index' = index \/ index' = [index EXCEPT !.subs = NullSubscription(index.subs, t.arg)]
      BY <2>5 DEF RemoveSubscription, Throws
    <3>2. NullSubscription(index.subs, t.arg) \in SUBSET Flows
      BY <1>0 DEF NullSubscription, EntryType
    <3> QED BY <1>0, <2>1, <3>1, <3>2
  <2>6. CASE CountSubscription(t) \/ UncountSubscription(t) \/ CountFired(t)
    BY <1>0, <2>1, <2>6 DEF CountSubscription, UncountSubscription, CountFired, Throws
  <2>7. CASE DeleteEntry(t) \/ DeleteStream(t) \/ Unpersist(t) \/ PersistJob(t) \/ AppendFired(t)
    BY <1>0, <1>5, <2>7 DEF DeleteEntry, DeleteStream, Unpersist, PersistJob, AppendFired
  <2>8. CASE UpdateFiredAt(t) \/ ResolvePayload(t) \/ StartFlow(t) \/ Fails(t)
    BY <1>0, <2>8 DEF UpdateFiredAt, ResolvePayload, StartFlow, Fails, Throws
  <2> QED BY <2>2, <2>3, <2>4, <2>5, <2>6, <2>7, <2>8 DEF Handle
<1>8. /\ job' \in {"none", "enabled", "disabled"} /\ timer' \in {"none", "live", "stopped"}
      /\ loose' \in Nat /\ fired' \in Nat /\ muddled' \in BOOLEAN
  <2>0. /\ job \in {"none", "enabled", "disabled"} /\ timer \in {"none", "live", "stopped"}
        /\ loose \in Nat /\ fired \in Nat /\ muddled \in BOOLEAN
    BY <1>0 DEF TypeOK
  <2>1. CASE AddEntry(t) \/ UpdateEntry(t)
    BY <2>0, <2>1 DEF AddEntry, UpdateEntry, Throws, ThenSchedule, StopTimer, scheduled, Quiet
  <2>2. CASE AddSubscription(t) \/ CountSubscription(t) \/ RemoveSubscription(t) \/ UncountSubscription(t)
    BY <2>0, <2>2 DEF AddSubscription, CountSubscription, RemoveSubscription, UncountSubscription,
                      Throws, scheduled, Quiet
  <2>3. CASE DeleteEntry(t) \/ DeleteStream(t) \/ Unpersist(t) \/ PersistJob(t) \/ AppendFired(t)
    BY <2>0, <2>3 DEF DeleteEntry, DeleteStream, Unpersist, PersistJob, AppendFired, StopTimer, scheduled, Quiet
  <2>4. CASE UpdateFiredAt(t) \/ CountFired(t) \/ ResolvePayload(t) \/ StartFlow(t)
    BY <2>0, <2>4 DEF UpdateFiredAt, CountFired, ResolvePayload, StartFlow, Throws, scheduled, Quiet
  <2>5. CASE Fails(t)
    BY <2>0, <2>5 DEF Fails, scheduled, Cut
  <2> QED BY <2>1, <2>2, <2>3, <2>4, <2>5 DEF Handle
<1> QED BY <1>0, <1>2, <1>6, <1>7, <1>8 DEF TypeOK

LEMMA HandleKeeps ==
  ASSUME IInv, NEW t \in tasks, Handle(t)
  PROVE  IInv'
<1>1. TypeOK' /\ Handling'
  BY HandleTypes
<1>2. ASSUME ~muddled' PROVE Apart' /\ StatusFollows' /\ TimersInStep' /\ SubscriptionsInStep' /\ FiresInStep'
  <2>1. CASE Fails(t)
    BY <1>2, <2>1, FailsKeeps
  <2>2. CASE DeleteStream(t)
    BY <1>2, <2>2, DeleteStreamKeeps DEF DeleteStream
  <2>3. CASE StartFlow(t)
    BY <1>2, <2>3, FiredKeeps DEF StartFlow
  <2>4. CASE ~Fails(t) /\ ~DeleteStream(t) /\ ~StartFlow(t)
    <3>1. Quiet
      BY <2>4 DEF Handle, AddEntry, UpdateEntry, AddSubscription, CountSubscription, RemoveSubscription,
                  UncountSubscription, DeleteEntry, Unpersist, PersistJob, AppendFired, UpdateFiredAt,
                  CountFired, ResolvePayload
    <3>2. ~muddled
      BY <1>2, <3>1 DEF Quiet
    <3> QED BY <2>4, <3>2, AddEntryKeeps, UpdateEntryKeeps, AddSubscriptionKeeps, CountSubscriptionKeeps,
               RemoveSubscriptionKeeps, UncountSubscriptionKeeps, DeleteEntryKeeps, UnpersistKeeps,
               PersistJobKeeps, UpdateFiredAtKeeps, CountFiredKeeps, FiredKeeps DEF Handle
  <2> QED BY <2>1, <2>2, <2>3, <2>4
<1> QED BY <1>1, <1>2 DEF IInv, InStep

-----------------------------------------------------------------------------
(* What is published. *)

Published == {"registered", "updated", "deleted", "added", "removed", "fired"}

\* An event the code publishes in the state the handlers find.
Fits(e) ==
  /\ e.kind \in Published
  /\ e.kind \in Changes => e.arg \in Flows
  /\ e.kind \in Lifecycle => e.arg \in {"active", "inactive"}
  /\ e.kind = "registered" => e.arg = "active" /\ ~HasTrigger
  /\ e.kind = "deleted" => HasTrigger
  /\ e.kind = "removed" => e.arg \in runtime.subs
  /\ e.kind = "fired" => e.arg = "active"

\* Events published in one stretch are about different data.
FitTogether(evs) ==
  \A e, g \in evs :
    \/ e = g
    \/ /\ {e.kind, g.kind} \subseteq Lifecycle \cup Changes /\ "deleted" \notin {e.kind, g.kind}
       /\ ~({e.kind, g.kind} \subseteq Lifecycle)
       /\ {e.kind, g.kind} \subseteq Changes => e.arg # g.arg

LEMMA TaskFields ==
  ASSUME NEW id \in Nat, NEW kind \in Kinds, NEW pc \in PCs, NEW arg \in Flows \cup Statuses,
         NEW fresh \in BOOLEAN, NEW todo \in SUBSET Flows
  PROVE  LET u == Task(id, kind, pc, arg, fresh, todo)
         IN  /\ u \in TaskType /\ u.id = id /\ u.kind = kind /\ u.pc = pc /\ u.arg = arg
             /\ u.fresh = fresh /\ u.todo = todo
BY DEF Task, TaskType

LEMMA HandlerFacts ==
  ASSUME TypeOK, NEW e, Fits(e), NEW u \in Handlers(events + 1, e.kind, e.arg)
  PROVE  /\ u \in TaskType /\ u.id = events + 1 /\ u.arg = e.arg
         /\ e.kind # "fired" => u.kind = e.kind
         /\ e.kind = "fired" => u.kind \in {"stats", "fired"}
         /\ u.pc \in StepsOf(u.kind) /\ u.pc \in {"add", "update", "delete", "append", "resolve"}
         /\ u.kind = "deleted" => u.fresh
         /\ u.kind = "added" => (u.fresh <=> u.arg \notin runtime.subs)
         /\ e.kind # "fired" => Handlers(events + 1, e.kind, e.arg) = {u}
         /\ u.kind = "stats" => u = Task(events + 1, "stats", "append", "active", TRUE, {})
<1>0. /\ events + 1 \in Nat /\ runtime.subs \in SUBSET Flows
      /\ {"add", "update", "delete", "append", "resolve"} \subseteq PCs /\ Published \subseteq Kinds \cup {"fired"}
      /\ {"stats", "fired"} \subseteq Kinds /\ HasTrigger \in BOOLEAN /\ {} \in SUBSET Flows
      /\ e.kind \in Published /\ e.arg \in Flows \cup Statuses
  BY DEF TypeOK, Copies, PCs, Published, Kinds, HasTrigger, Fits, Changes, Lifecycle, Statuses
<1>1. CASE e.kind = "registered"
  <2>1. u = Task(events + 1, e.kind, "add", e.arg, TRUE, {}) /\ Handlers(events + 1, e.kind, e.arg) = {u}
    BY <1>1 DEF Handlers
  <2>2. /\ u \in TaskType /\ u.id = events + 1 /\ u.kind = e.kind /\ u.pc = "add" /\ u.arg = e.arg
    BY <1>0, <1>1, <2>1 DEF Task, TaskType, Published
  <2>3. u.pc \in StepsOf(u.kind)
    BY <1>1, <2>2 DEF StepsOf
  <2> QED BY <1>1, <2>1, <2>2, <2>3
<1>2. CASE e.kind = "updated" \/ e.kind = "removed"
  <2>1. u = Task(events + 1, e.kind, "update", e.arg, TRUE, {}) /\ Handlers(events + 1, e.kind, e.arg) = {u}
    BY <1>2 DEF Handlers
  <2>2. /\ u \in TaskType /\ u.id = events + 1 /\ u.kind = e.kind /\ u.pc = "update" /\ u.arg = e.arg
    BY <1>0, <1>2, <2>1 DEF Task, TaskType, Published
  <2>3. u.pc \in StepsOf(u.kind)
    BY <1>2, <2>2 DEF StepsOf
  <2> QED BY <1>2, <2>1, <2>2, <2>3
<1>3. CASE e.kind = "deleted"
  <2>1. u = Task(events + 1, e.kind, "delete", e.arg, HasTrigger, {}) /\ Handlers(events + 1, e.kind, e.arg) = {u}
    BY <1>3 DEF Handlers
  <2>2. /\ u \in TaskType /\ u.id = events + 1 /\ u.kind = e.kind /\ u.pc = "delete" /\ u.arg = e.arg
        /\ u.fresh = HasTrigger
    BY <1>0, <1>3, <2>1, TaskFields
  <2>3. u.pc \in StepsOf(u.kind) /\ HasTrigger
    BY <1>3, <2>2 DEF StepsOf, Fits
  <2> QED BY <1>3, <2>1, <2>2, <2>3
<1>4. CASE e.kind = "added"
  <2>1. u = Task(events + 1, e.kind, "update", e.arg, e.arg \notin runtime.subs, {})
        /\ Handlers(events + 1, e.kind, e.arg) = {u}
    BY <1>4 DEF Handlers
  <2>2. /\ u \in TaskType /\ u.id = events + 1 /\ u.kind = e.kind /\ u.pc = "update" /\ u.arg = e.arg
        /\ u.fresh = (e.arg \notin runtime.subs)
    BY <1>0, <1>4, <2>1 DEF Task, TaskType, Published
  <2>3. u.pc \in StepsOf(u.kind)
    BY <1>4, <2>2 DEF StepsOf
  <2> QED BY <1>4, <2>1, <2>2, <2>3
<1>5. CASE e.kind = "fired"
  <2>0. e.arg = "active"
    BY <1>5 DEF Fits
  <2>1. \/ u = Task(events + 1, "stats", "append", e.arg, TRUE, {})
        \/ u = Task(events + 1, "fired", "resolve", e.arg, TRUE, runtime.subs)
    BY <1>5 DEF Handlers
  <2>2. CASE u = Task(events + 1, "stats", "append", e.arg, TRUE, {})
    <3>1. /\ u \in TaskType /\ u.id = events + 1 /\ u.kind = "stats" /\ u.pc = "append" /\ u.arg = e.arg
      BY <1>0, <2>2 DEF Task, TaskType, Published
    <3>2. u.pc \in StepsOf(u.kind)
      BY <3>1 DEF StepsOf
    <3> QED BY <1>5, <2>0, <2>2, <3>1, <3>2
  <2>3. CASE u = Task(events + 1, "fired", "resolve", e.arg, TRUE, runtime.subs)
    <3>1. /\ u \in TaskType /\ u.id = events + 1 /\ u.kind = "fired" /\ u.pc = "resolve" /\ u.arg = e.arg
      BY <1>0, <2>3 DEF Task, TaskType, Published
    <3>2. u.pc \in StepsOf(u.kind)
      BY <3>1 DEF StepsOf
    <3> QED BY <1>5, <3>1, <3>2
  <2> QED BY <2>1, <2>2, <2>3
<1> QED BY <1>0, <1>1, <1>2, <1>3, <1>4, <1>5 DEF Published

\* The handlers that a call starts.
NewTasks(evs) == UNION {Handlers(events + 1, e.kind, e.arg) : e \in evs}

LEMMA PublishFacts ==
  ASSUME TypeOK, Handling, NEW evs, Publish(evs), evs # {}, \A e \in evs : Fits(e), FitTogether(evs),
         up' = "on", UNCHANGED chosen
  PROVE  /\ tasks' \subseteq TaskType /\ Handling' /\ ~muddled
         /\ tasks' = tasks \cup NewTasks(evs) /\ NewTasks(evs) # {} /\ events' \in Nat /\ muddled' \in BOOLEAN
         /\ (\E e \in evs : e.kind = "fired") => Cardinality(Counting') = Cardinality(Counting) + 1
         /\ (\A e \in evs : e.kind # "fired") => Counting' = Counting
         /\ \A u \in NewTasks(evs) :
              \E e \in evs : /\ u.arg = e.arg
                             /\ e.kind # "fired" => u.kind = e.kind
                             /\ e.kind = "fired" => u.kind \in {"stats", "fired"}
                             /\ Fits(e)
                             /\ u.pc \in {"add", "update", "delete", "append", "resolve"}
                             /\ u.pc = "add" => u.kind = "registered"
                             /\ u.kind = "added" => (u.fresh <=> u.arg \notin runtime.subs)
         /\ Apart /\ ~muddled' => Apart'
         /\ Deleting => muddled'
<1> DEFINE New == NewTasks(evs)
<1>1. /\ tasks' = tasks \cup New /\ events' = events + 1 /\ ~muddled /\ events \in Nat
      /\ muddled' = (muddled \/ \E t \in tasks, u \in New : Conflict(t, u))
  BY DEF Publish, NewTasks, TypeOK
<1>2. ASSUME NEW u \in New
      PROVE  \E e \in evs : Fits(e) /\ u \in Handlers(events + 1, e.kind, e.arg)
  BY DEF NewTasks
<1>3. \A e \in evs : Handlers(events + 1, e.kind, e.arg) \subseteq New /\ Handlers(events + 1, e.kind, e.arg) # {}
  <2> TAKE e \in evs
  <2>1. Fits(e)
    OBVIOUS
  <2>2. Handlers(events + 1, e.kind, e.arg) # {}
    BY <2>1 DEF Handlers, Fits, Published
  <2> QED BY <2>2 DEF NewTasks
<1>4. New # {}
  BY <1>3
<1> HIDE DEF New
<1>5. ASSUME NEW u \in New
      PROVE  /\ u \in TaskType /\ u.id = events + 1 /\ WellFormed(u)'
             /\ u.kind = "stats" => u = Task(events + 1, "stats", "append", "active", TRUE, {})
             /\ u.kind = "stats" => \E e \in evs : e.kind = "fired"
             /\ \E e \in evs : /\ u.arg = e.arg
                               /\ e.kind # "fired" => u.kind = e.kind
                               /\ e.kind = "fired" => u.kind \in {"stats", "fired"}
                               /\ Fits(e)
                               /\ u.pc \in {"add", "update", "delete", "append", "resolve"}
                               /\ u.pc = "add" => u.kind = "registered"
                               /\ u.kind = "added" => (u.fresh <=> u.arg \notin runtime.subs)
  <2>1. PICK e \in evs : Fits(e) /\ u \in Handlers(events + 1, e.kind, e.arg)
    BY <1>2
  <2>2. /\ u \in TaskType /\ u.id = events + 1 /\ u.arg = e.arg
        /\ e.kind # "fired" => u.kind = e.kind
        /\ e.kind = "fired" => u.kind \in {"stats", "fired"}
        /\ u.pc \in StepsOf(u.kind) /\ u.pc \in {"add", "update", "delete", "append", "resolve"}
        /\ u.kind = "deleted" => u.fresh
        /\ u.kind = "added" => (u.fresh <=> u.arg \notin runtime.subs)
        /\ u.kind = "stats" => u = Task(events + 1, "stats", "append", "active", TRUE, {})
    BY <2>1, HandlerFacts
  <2>3. /\ u.kind \in Changes => u.arg \in Flows
        /\ u.kind \in Lifecycle => u.arg \in {"active", "inactive"}
        /\ u.kind = "registered" => u.arg = "active"
    BY <2>1, <2>2 DEF Fits, Changes, Lifecycle
  <2>4. u.kind = "stats" => e.kind = "fired"
    BY <2>1, <2>2 DEF Fits, Published
  <2>5. WellFormed(u)'
    BY <1>1, <2>2, <2>3 DEF WellFormed
  <2>6. u.pc = "add" => u.kind = "registered"
    BY <2>2 DEF StepsOf, TaskType, Kinds, Lifecycle, Changes
  <2> QED BY <2>1, <2>2, <2>4, <2>5, <2>6
<1>6. \A t \in tasks : t \in TaskType /\ WellFormed(t) /\ t.id \in Nat /\ t.id <= events
  BY DEF TypeOK, Handling, WellFormed, TaskType
<1>7. \A t \in tasks : WellFormed(t)' /\ t.id # events + 1
  <2> TAKE t \in tasks
  <2>1. WellFormed(t) /\ t.id \in Nat /\ t.id <= events
    BY <1>6
  <2> QED BY <1>1, <2>1 DEF WellFormed, chosen
<1>8. \A t, u \in tasks' : t.id = u.id /\ t.kind = "stats" /\ u.kind = "stats" => t = u
  <2> TAKE t, u \in tasks'
  <2> HAVE t.id = u.id /\ t.kind = "stats" /\ u.kind = "stats"
  <2>1. CASE t \in tasks /\ u \in tasks
    BY <2>1 DEF Handling
  <2>2. CASE t \in New /\ u \in New
    <3>1. t = Task(events + 1, "stats", "append", "active", TRUE, {})
      BY <1>5, <2>2
    <3>2. u = Task(events + 1, "stats", "append", "active", TRUE, {})
      BY <1>5, <2>2
    <3> QED BY <3>1, <3>2
  <2>3. CASE (t \in New /\ u \in tasks) \/ (t \in tasks /\ u \in New)
    BY <1>5, <1>7, <2>3
  <2> QED BY <1>1, <2>1, <2>2, <2>3
<1>9. tasks' \subseteq TaskType /\ (tasks' # {} => up' = "on") /\ \A t \in tasks' : WellFormed(t)'
  BY <1>1, <1>5, <1>6, <1>7
<1>10. IsFiniteSet(Counting)
  BY DEF Handling
<1>11. ASSUME \A e \in evs : e.kind # "fired" PROVE Counting' = Counting
  <2>1. \A u \in New : u.kind # "stats"
    BY <1>5, <1>11
  <2> QED BY <1>1, <2>1 DEF Counting
<1>12. ASSUME NEW e \in evs, e.kind = "fired"
       PROVE  IsFiniteSet(Counting') /\ Cardinality(Counting') = Cardinality(Counting) + 1
  <2> DEFINE s == Task(events + 1, "stats", "append", e.arg, TRUE, {})
  <2>1. Fits(e)
    OBVIOUS
  <2>2. e.arg = "active" /\ s \in Handlers(events + 1, e.kind, e.arg)
    BY <1>12, <2>1 DEF Handlers, Fits
  <2>3. s \in New
    BY <1>3, <2>2
  <2>4. s.kind = "stats" /\ s.id = events + 1
    BY DEF Task
  <2>5. \A u \in New : u.kind = "stats" => u = s
    BY <1>5, <2>2
  <2>6. s \notin Counting
    BY <1>7, <2>4 DEF Counting
  <2> HIDE DEF s
  <2>7. Counting' = Counting \cup {s}
    BY <1>1, <2>3, <2>4, <2>5 DEF Counting
  <2> QED BY <1>10, <2>6, <2>7, FS_AddElement
<1>13. Handling'
  <2>1. IsFiniteSet(Counting')
    BY <1>10, <1>11, <1>12
  <2> QED BY <1>8, <1>9, <2>1 DEF Handling
<1>14. ASSUME Apart, ~muddled' PROVE Apart'
  <2> SUFFICES ASSUME NEW t \in tasks', NEW u \in tasks', Conflict(t, u) PROVE t = u
    BY DEF Apart
  <2>0. Conflict(u, t)
    BY DEF Conflict
  <2>1. CASE t \in tasks /\ u \in tasks
    BY <1>14, <2>1 DEF Apart
  <2>2. CASE (t \in tasks /\ u \in New) \/ (u \in tasks /\ t \in New)
    BY <1>1, <1>14, <2>0, <2>2
  <2>3. CASE t \in New /\ u \in New
    <3>1. PICK e \in evs : Fits(e) /\ t \in Handlers(events + 1, e.kind, e.arg)
      BY <1>2, <2>3
    <3>2. PICK g \in evs : Fits(g) /\ u \in Handlers(events + 1, g.kind, g.arg)
      BY <1>2, <2>3
    <3>3. /\ t.arg = e.arg /\ u.arg = g.arg
          /\ e.kind # "fired" => t.kind = e.kind /\ Handlers(events + 1, e.kind, e.arg) = {t}
          /\ e.kind = "fired" => t.kind \in {"stats", "fired"}
          /\ g.kind # "fired" => u.kind = g.kind
          /\ g.kind = "fired" => u.kind \in {"stats", "fired"}
      BY <3>1, <3>2, HandlerFacts
    <3>4. CASE e = g
      <4>1. e.kind # "fired"
        BY <3>3, <3>4 DEF Conflict, Lifecycle, Changes
      <4> QED BY <3>2, <3>3, <3>4, <4>1
    <3>5. CASE e # g
      <4>1. /\ {e.kind, g.kind} \subseteq Lifecycle \cup Changes /\ "deleted" \notin {e.kind, g.kind}
            /\ ~({e.kind, g.kind} \subseteq Lifecycle)
            /\ {e.kind, g.kind} \subseteq Changes => e.arg # g.arg
        BY <3>5 DEF FitTogether
      <4>2. t.kind = e.kind /\ u.kind = g.kind
        BY <3>3, <4>1 DEF Lifecycle, Changes
      <4> QED BY <3>3, <4>1, <4>2 DEF Conflict
    <3> QED BY <3>4, <3>5
  <2> QED BY <1>1, <2>1, <2>2, <2>3
<1>15. Deleting => muddled'
  <2> SUFFICES ASSUME NEW t \in tasks, t.pc = "stream" PROVE muddled'
    BY DEF Deleting
  <2>1. t.kind = "deleted"
    BY <1>6, KindOf
  <2>2. \A u \in New : Conflict(t, u)
    BY <2>1 DEF Conflict
  <2> QED BY <1>1, <1>4, <2>2
<1>16. muddled' \in BOOLEAN /\ events' \in Nat
  BY <1>1
<1>17. (\E e \in evs : e.kind = "fired") => Cardinality(Counting') = Cardinality(Counting) + 1
  BY <1>12
<1> QED BY <1>1, <1>4, <1>5, <1>9, <1>11, <1>13, <1>14, <1>15, <1>16, <1>17 DEF New

\* Publishing keeps all in step, with the fire it may count.
LEMMA PublishKeeps ==
  ASSUME IInv, NEW evs, Publish(evs), evs # {}, \A e \in evs : Fits(e), FitTogether(evs),
         up # "off", up' = "on", UNCHANGED <<chosen, runtime, index, scheduled>>,
         \/ UNCHANGED fired /\ \A e \in evs : e.kind # "fired"
         \/ /\ fired' = fired + 1 /\ \E e \in evs : e.kind = "fired"
            /\ ~muddled /\ ~Deleting => index.status # "none"
  PROVE  IInv'
<1>0. TypeOK /\ Handling /\ InStep
  BY DEF IInv
<1>1. /\ tasks' \subseteq TaskType /\ Handling' /\ ~muddled
      /\ tasks' = tasks \cup NewTasks(evs) /\ events' \in Nat /\ muddled' \in BOOLEAN
      /\ (\E e \in evs : e.kind = "fired") => Cardinality(Counting') = Cardinality(Counting) + 1
      /\ (\A e \in evs : e.kind # "fired") => Counting' = Counting
      /\ Apart /\ ~muddled' => Apart'
      /\ Deleting => muddled'
  BY <1>0, PublishFacts
<1>2. \A u \in NewTasks(evs) :
        \E e \in evs : /\ u.arg = e.arg
                       /\ e.kind # "fired" => u.kind = e.kind
                       /\ e.kind = "fired" => u.kind \in {"stats", "fired"}
                       /\ Fits(e)
                       /\ u.pc \in {"add", "update", "delete", "append", "resolve"}
                       /\ u.pc = "add" => u.kind = "registered"
                       /\ u.kind = "added" => (u.fresh <=> u.arg \notin runtime.subs)
  BY <1>0, PublishFacts
<1>3. /\ Apart /\ StatusFollows /\ TimersInStep /\ SubscriptionsInStep /\ FiresInStep
  BY <1>0, <1>1 DEF InStep
<1>4. TypeOK'
  BY <1>0, <1>1 DEF TypeOK, chosen, scheduled
<1>5. \A u \in NewTasks(evs) : /\ u.pc \in {"add", "update", "delete", "append", "resolve"}
                               /\ u.pc = "add" => ~HasTrigger
                               /\ u.kind = "added" => (u.fresh <=> u.arg \notin runtime.subs)
                               /\ u.kind = "removed" => u.arg \in runtime.subs
  <2> TAKE u \in NewTasks(evs)
  <2>1. PICK e \in evs : /\ u.arg = e.arg
                         /\ e.kind # "fired" => u.kind = e.kind
                         /\ e.kind = "fired" => u.kind \in {"stats", "fired"}
                         /\ Fits(e)
                         /\ u.pc \in {"add", "update", "delete", "append", "resolve"}
                         /\ u.pc = "add" => u.kind = "registered"
                         /\ u.kind = "added" => (u.fresh <=> u.arg \notin runtime.subs)
    BY <1>2
  <2>2. u.pc = "add" => ~HasTrigger
    BY <2>1 DEF Fits
  <2>3. u.kind = "removed" => e.kind = "removed"
    BY <2>1
  <2>4. u.kind = "removed" => u.arg \in runtime.subs
    BY <2>1, <2>3 DEF Fits
  <2> QED BY <2>1, <2>2, <2>4
<1>6. ASSUME ~muddled'
      PROVE  Apart' /\ StatusFollows' /\ TimersInStep' /\ SubscriptionsInStep' /\ FiresInStep'
  <2>1. ~Deleting /\ Apart' /\ type' = type /\ backend' = backend
    BY <1>1, <1>3, <1>6 DEF chosen
  <2>2. ~Deleting' /\ (Rearming' <=> Rearming) /\ \A f : Halfway(f)' <=> Halfway(f)
    BY <1>1, <1>5, <2>1 DEF Deleting, Rearming, Halfway
  <2>3. StatusFollows'
    <3>1. HasTrigger \/ index.status = "none"
      BY <1>3, <2>1 DEF StatusFollows, HasTrigger
    <3> QED BY <1>1, <1>3, <1>5, <2>1, <2>2, <3>1 DEF StatusFollows
  <2>4. TimersInStep'
    BY <1>1, <1>3, <1>5, <2>1, <2>2 DEF TimersInStep, scheduled, Active
  <2>5. SubscriptionsInStep'
    BY <1>1, <1>3, <1>5, <2>1, <2>2 DEF SubscriptionsInStep
  <2>6. FiresInStep'
    <3>1. index.fires \in Int /\ Cardinality(Counting) \in Nat /\ fired \in Nat
      BY <1>0, FS_CardinalityType DEF TypeOK, EntryType, Handling
    <3>2. index.fires + Cardinality(Counting) = fired
      BY <1>3, <2>1 DEF FiresInStep
    <3>3. CASE UNCHANGED fired /\ \A e \in evs : e.kind # "fired"
      BY <1>1, <1>3, <2>1, <3>2, <3>3 DEF FiresInStep
    <3>4. CASE fired' = fired + 1 /\ (\E e \in evs : e.kind = "fired") /\ index.status # "none"
      <4>1. index'.fires + Cardinality(Counting') = fired' /\ index'.status # "none"
        BY <1>1, <3>1, <3>2, <3>4
      <4> QED BY <4>1 DEF FiresInStep
    <3> QED BY <1>1, <2>1, <3>3, <3>4
  <2> QED BY <2>1, <2>3, <2>4, <2>5, <2>6
<1> QED BY <1>1, <1>4, <1>6 DEF IInv, InStep

-----------------------------------------------------------------------------
(* Requests and timers. *)

LEMMA EventFields ==
  ASSUME NEW k, NEW a
  PROVE  Event(k, a).kind = k /\ Event(k, a).arg = a
BY DEF Event

\* The status, and the subscriptions that go and come.
LEMMA ChangesFit ==
  ASSUME TypeOK, NEW status \in {"active", "inactive"}, NEW gone \in SUBSET runtime.subs,
         NEW come \in SUBSET Flows, gone \cap come = {}, ~HasTrigger => status = "active",
         NEW reg \in SUBSET RegisterTrigger(status),
         NEW evs, evs = reg \cup UnsubscribeTrigger(gone) \cup SubscribeTrigger(come)
  PROVE  /\ \A e \in evs : Fits(e) /\ e.kind # "fired"
         /\ FitTogether(evs)
<1>1. runtime.subs \in SUBSET Flows
  BY DEF TypeOK, Copies
<1>2. \A e \in evs : \/ e.kind \in {"registered", "updated"} /\ e.arg = status
                                /\ (e.kind = "registered" <=> ~HasTrigger)
                                /\ e = Event(IF HasTrigger THEN "updated" ELSE "registered", status)
                     \/ e.kind = "removed" /\ e.arg \in gone /\ e = Event("removed", e.arg)
                     \/ e.kind = "added" /\ e.arg \in come /\ e = Event("added", e.arg)
  BY EventFields DEF RegisterTrigger, UnsubscribeTrigger, SubscribeTrigger
<1>3. \A e \in evs : Fits(e) /\ e.kind # "fired"
  BY <1>1, <1>2 DEF Fits, Published, Changes, Lifecycle
<1>4. ASSUME NEW e \in evs, NEW g \in evs, e # g
      PROVE  /\ {e.kind, g.kind} \subseteq Lifecycle \cup Changes /\ "deleted" \notin {e.kind, g.kind}
             /\ ~({e.kind, g.kind} \subseteq Lifecycle)
             /\ {e.kind, g.kind} \subseteq Changes => e.arg # g.arg
  <2>1. {e.kind, g.kind} \subseteq Lifecycle \cup Changes /\ "deleted" \notin {e.kind, g.kind}
    BY <1>2 DEF Lifecycle, Changes
  <2>2. ~({e.kind, g.kind} \subseteq Lifecycle)
    BY <1>2, <1>4 DEF Lifecycle
  <2>3. {e.kind, g.kind} \subseteq Changes => e.arg # g.arg
    BY <1>2, <1>4 DEF Changes
  <2> QED BY <2>1, <2>2, <2>3
<1> QED BY <1>3, <1>4 DEF FitTogether

LEMMA PostKeeps ==
  ASSUME IInv, NEW flows \in SUBSET Flows, Post(flows)
  PROVE  IInv'
<1> DEFINE evs == RegisterTrigger("active") \cup SubscribeTrigger(flows)
<1>1. /\ up = "on" /\ up' = "on" /\ ~HasTrigger /\ Publish(evs)
      /\ UNCHANGED <<chosen, runtime, index, scheduled>> /\ UNCHANGED fired
  BY DEF Post
<1>2. evs = RegisterTrigger("active") \cup UnsubscribeTrigger({}) \cup SubscribeTrigger(flows)
  BY DEF UnsubscribeTrigger
<1>3. evs # {}
  BY DEF RegisterTrigger
<1> HIDE DEF evs
<1>4. (\A e \in evs : Fits(e) /\ e.kind # "fired") /\ FitTogether(evs)
  BY <1>1, <1>2, ChangesFit DEF IInv
<1> QED BY <1>1, <1>3, <1>4, PublishKeeps

LEMMA PatchKeeps ==
  ASSUME IInv, NEW status \in {"active", "inactive"}, NEW flows \in SUBSET Flows, Patch(status, flows)
  PROVE  IInv'
<1> DEFINE gone == runtime.subs \ flows
           come == flows \ runtime.subs
           evs == RegisterTrigger(status) \cup UnsubscribeTrigger(gone) \cup SubscribeTrigger(come)
<1>1. /\ up = "on" /\ up' = "on" /\ HasTrigger /\ Publish(evs)
      /\ UNCHANGED <<chosen, runtime, index, scheduled>> /\ UNCHANGED fired
  BY DEF Patch
<1>2. gone \in SUBSET runtime.subs /\ come \in SUBSET Flows /\ gone \cap come = {}
  OBVIOUS
<1>3. evs # {}
  BY DEF RegisterTrigger
<1> HIDE DEF gone, come
<1>4. (\A e \in evs : Fits(e) /\ e.kind # "fired") /\ FitTogether(evs)
  BY <1>1, <1>2, ChangesFit DEF IInv
<1> HIDE DEF evs
<1> QED BY <1>1, <1>3, <1>4, PublishKeeps

LEMMA DeleteKeeps ==
  ASSUME IInv, Delete
  PROVE  IInv'
<1> DEFINE evs == DeleteTrigger
<1>1. /\ up = "on" /\ up' = "on" /\ HasTrigger /\ Publish(evs)
      /\ UNCHANGED <<chosen, runtime, index, scheduled>> /\ UNCHANGED fired
  BY DEF Delete
<1>2. evs = {Event("deleted", "active")}
  BY <1>1 DEF DeleteTrigger
<1> HIDE DEF evs
<1>3. \A e \in evs : e.kind = "deleted" /\ e.arg = "active"
  BY <1>2, EventFields
<1>4. \A e \in evs : Fits(e) /\ e.kind # "fired"
  BY <1>1, <1>3 DEF Fits, Published, Changes
<1>5. FitTogether(evs) /\ evs # {}
  BY <1>2 DEF FitTogether
<1> QED BY <1>1, <1>4, <1>5, PublishKeeps

LEMMA FiresKeep ==
  ASSUME IInv, WebhookCall \/ CronFires
  PROVE  IInv'
<1> DEFINE evs == {Event("fired", "active")}
<1>1. /\ up = "on" /\ up' = "on" /\ Publish(evs) /\ fired' = fired + 1
      /\ UNCHANGED <<chosen, runtime, index, scheduled>>
  BY DEF WebhookCall, CronFires, EmitTrigger, Fired
<1>2. \A e \in evs : e.kind = "fired" /\ e.arg = "active"
  BY EventFields
<1>3. FitTogether(evs) /\ evs # {}
  BY DEF FitTogether
<1> HIDE DEF evs
<1>4. \A e \in evs : Fits(e)
  BY <1>2 DEF Fits, Published, Changes, Lifecycle
<1>5. ASSUME ~muddled, ~Deleting PROVE index.status # "none"
  <2>1. StatusFollows /\ TimersInStep
    BY <1>5 DEF IInv, InStep
  <2>2. runtime.status = index.status
    BY <1>1, <1>5, <2>1 DEF StatusFollows
  <2>3. CASE WebhookCall
    BY <2>2, <2>3 DEF WebhookCall, EmitTrigger
  <2>4. CASE CronFires
    <3>1. timer = "live"
      BY <2>1, <2>4 DEF CronFires, TimersInStep
    <3>2. ~Rearming
      BY <2>1, <3>1 DEF TimersInStep, Rearming
    <3> QED BY <1>1, <2>1, <2>2, <3>1, <3>2 DEF TimersInStep, Active
  <2> QED BY <2>3, <2>4
<1> QED BY <1>1, <1>2, <1>3, <1>4, <1>5, PublishKeeps

-----------------------------------------------------------------------------
(* The process stops and starts. *)

LEMMA CrashKeeps ==
  ASSUME IInv, Crash
  PROVE  IInv'
<1>0. /\ TypeOK /\ Handling /\ up # "off" /\ up' = "off" /\ tasks' = {}
      /\ runtime' = NoRuntime /\ timer' = "none" /\ loose' = 0
      /\ index' = (IF backend = "memory" THEN NoEntry ELSE index)
      /\ job' = (IF backend = "memory" THEN "none" ELSE job)
      /\ fired' = (IF backend = "memory" THEN 0 ELSE fired)
      /\ muddled' = (muddled \/ \E t \in tasks : Cut(t))
      /\ UNCHANGED <<type, backend, events>>
  BY DEF Crash, IInv, chosen
<1>1. NoEntry \in EntryType /\ NoRuntime \in Copies
  BY DEF NoEntry, NoRuntime, EntryType, Copies, Statuses
<1>2. TypeOK'
  BY <1>0, <1>1 DEF TypeOK
<1>3. Counting' = {} /\ Cardinality({}) = 0 /\ IsFiniteSet({})
  BY <1>0, FS_EmptySet DEF Counting
<1>4. Handling'
  BY <1>0, <1>3 DEF Handling
<1>5. ASSUME ~muddled'
      PROVE  Apart' /\ StatusFollows' /\ TimersInStep' /\ SubscriptionsInStep' /\ FiresInStep'
  <2>1. ~muddled /\ \A t \in tasks : t.kind \in Lifecycle \cup Changes /\ t.pc \in {"add", "update", "delete"}
    BY <1>0, <1>5 DEF Cut, TypeOK
  <2>2. Apart /\ StatusFollows /\ TimersInStep /\ SubscriptionsInStep /\ FiresInStep
    BY <2>1 DEF IInv, InStep
  <2>3. ~Deleting /\ ~Rearming /\ (\A f : ~Halfway(f)) /\ Counting = {}
    BY <2>1 DEF Deleting, Rearming, Halfway, Counting, Lifecycle, Changes
  <2>4. Apart' /\ StatusFollows'
    BY <1>0, <2>2 DEF Apart, StatusFollows
  <2>5. TimersInStep'
    <3>1. job = "enabled" <=> Active(index.status)
      BY <1>0, <2>2, <2>3 DEF TimersInStep, StatusFollows
    <3> QED BY <1>0, <3>1 DEF TimersInStep, Active, NoEntry
  <2>6. SubscriptionsInStep'
    <3> SUFFICES ASSUME backend # "redis" PROVE index'.subscribers = Cardinality(index'.subs)
      BY <1>0 DEF SubscriptionsInStep
    <3>1. index.subscribers = Cardinality(runtime.subs) /\ \A f \in Flows : f \in runtime.subs <=> f \in index.subs
      BY <1>0, <2>2, <2>3 DEF SubscriptionsInStep
    <3>2. runtime.subs \in SUBSET Flows /\ index.subs \in SUBSET Flows
      BY <1>0 DEF TypeOK, Copies, EntryType
    <3>3. runtime.subs = index.subs
      BY <3>1, <3>2
    <3> QED BY <1>0, <1>3, <3>1, <3>3 DEF NoEntry
  <2>7. FiresInStep'
    <3>1. index.fires = fired
      BY <1>0, <1>3, <2>2, <2>3 DEF FiresInStep, TypeOK, EntryType
    <3>2. index'.fires + Cardinality(Counting') = fired'
      BY <1>0, <1>3, <3>1 DEF NoEntry, TypeOK
    <3> QED BY <1>3, <3>2 DEF FiresInStep
  <2> QED BY <2>4, <2>5, <2>6, <2>7
<1> QED BY <1>2, <1>4, <1>5 DEF IInv, InStep

LEMMA BootKeeps ==
  ASSUME IInv, Boot
  PROVE  IInv'
<1>0. /\ TypeOK /\ Handling /\ up = "off" /\ up' = "loaded" /\ tasks = {} /\ tasks' = {}
      /\ runtime' = [status |-> index.status, subs |-> index.subs]
      /\ timer' = (IF job = "enabled" THEN "live" ELSE "none")
      /\ UNCHANGED <<type, backend, index, job, loose, events, fired, muddled>>
  BY DEF Boot, Loaded, IInv, chosen, Handling
<1>1. runtime' \in Copies
  BY <1>0 DEF TypeOK, Copies, EntryType
<1>2. TypeOK'
  BY <1>0, <1>1 DEF TypeOK
<1>3. Counting' = Counting /\ Counting = {} /\ IsFiniteSet({})
  BY <1>0, FS_EmptySet DEF Counting
<1>4. Handling'
  BY <1>0, <1>3 DEF Handling
<1>5. ASSUME ~muddled'
      PROVE  Apart' /\ StatusFollows' /\ TimersInStep' /\ SubscriptionsInStep' /\ FiresInStep'
  <2>1. Apart /\ StatusFollows /\ TimersInStep /\ SubscriptionsInStep /\ FiresInStep
    BY <1>0, <1>5 DEF IInv, InStep
  <2>2. runtime'.status = index.status /\ runtime'.subs = index.subs
    BY <1>0
  <2>3. Apart' /\ StatusFollows'
    <3>1. index.status = "none" => runtime' = NoRuntime
      BY <1>0, <2>1 DEF StatusFollows, NoEntry, NoRuntime
    <3> QED BY <1>0, <2>1, <2>2, <3>1 DEF Apart, StatusFollows
  <2>4. TimersInStep'
    BY <1>0, <2>1, <2>2 DEF TimersInStep, Active
  <2>5. SubscriptionsInStep'
    BY <1>0, <2>1, <2>2 DEF SubscriptionsInStep
  <2>6. FiresInStep'
    BY <1>0, <1>3, <2>1 DEF FiresInStep, Deleting
  <2> QED BY <2>3, <2>4, <2>5, <2>6
<1> QED BY <1>2, <1>4, <1>5 DEF IInv, InStep

LEMMA RegisterDeclaredKeeps ==
  ASSUME IInv, RegisterDeclared
  PROVE  IInv'
<1> DEFINE reg == IF HasTrigger THEN {} ELSE {Event("registered", "active")}
           come == Declared \ runtime.subs
           evs == reg \cup SubscribeTrigger(come)
<1>0. /\ up = "loaded" /\ up' = "on" /\ UNCHANGED <<chosen, runtime, index, scheduled>> /\ UNCHANGED fired
      /\ (evs # {} /\ Publish(evs)) \/ UNCHANGED <<tasks, events, muddled>>
  BY DEF RegisterDeclared
<1>1. CASE evs # {} /\ Publish(evs)
  <2>1. come \in SUBSET Flows /\ reg \in SUBSET RegisterTrigger("active")
    BY TriggersAssumption DEF RegisterTrigger
  <2>2. evs = reg \cup UnsubscribeTrigger({}) \cup SubscribeTrigger(come)
    BY DEF UnsubscribeTrigger
  <2> HIDE DEF reg, come
  <2>3. (\A e \in evs : Fits(e) /\ e.kind # "fired") /\ FitTogether(evs)
    BY <2>1, <2>2, ChangesFit DEF IInv
  <2> HIDE DEF evs
  <2> QED BY <1>0, <1>1, <2>3, PublishKeeps
<1>2. CASE UNCHANGED <<tasks, events, muddled>>
  <2>1. TypeOK'
    BY <1>0, <1>2 DEF IInv, TypeOK, chosen, scheduled
  <2>2. Counting' = Counting /\ (Deleting' <=> Deleting) /\ (Rearming' <=> Rearming)
        /\ \A f : Halfway(f)' <=> Halfway(f)
    BY <1>2 DEF Counting, Deleting, Rearming, Halfway
  <2>3. Handling'
    BY <1>0, <1>2, <2>2 DEF IInv, Handling, WellFormed, chosen
  <2>4. InStep'
    BY <1>0, <1>2, <2>2 DEF IInv, InStep, Apart, StatusFollows, TimersInStep, SubscriptionsInStep,
                            FiresInStep, Active, chosen, scheduled
  <2> QED BY <2>1, <2>3, <2>4 DEF IInv
<1> QED BY <1>0, <1>1, <1>2

-----------------------------------------------------------------------------
(* The invariant and what it says. *)

LEMMA InitInv == Init => IInv
<1> SUFFICES ASSUME Init PROVE IInv
  OBVIOUS
<1>1. NoEntry \in EntryType /\ NoRuntime \in Copies
  BY DEF NoEntry, NoRuntime, EntryType, Copies, Statuses
<1>2. TypeOK
  BY <1>1 DEF Init, TypeOK
<1>3. Counting = {} /\ IsFiniteSet({}) /\ Cardinality({}) = 0 /\ tasks = {}
  BY FS_EmptySet DEF Init, Counting
<1>4. Handling
  BY <1>3 DEF Handling
<1>5. InStep
  BY <1>3 DEF Init, InStep, Apart, StatusFollows, TimersInStep, SubscriptionsInStep, FiresInStep,
              Active, NoEntry, Deleting
<1> QED BY <1>2, <1>4, <1>5 DEF IInv

LEMMA NextInv == IInv /\ [Next]_vars => IInv'
<1> SUFFICES ASSUME IInv, [Next]_vars PROVE IInv'
  OBVIOUS
<1>1. CASE Request
  BY <1>1, PostKeeps, PatchKeeps, DeleteKeeps, FiresKeep DEF Request
<1>2. CASE HandleAny
  BY <1>2, HandleKeeps DEF HandleAny
<1>3. CASE Crash
  BY <1>3, CrashKeeps
<1>4. CASE Boot
  BY <1>4, BootKeeps
<1>5. CASE RegisterDeclared
  BY <1>5, RegisterDeclaredKeeps
<1>6. CASE UNCHANGED vars
  <2>1. TypeOK'
    BY <1>6 DEF IInv, TypeOK, vars, chosen, scheduled
  <2>2. Counting' = Counting /\ (Deleting' <=> Deleting) /\ (Rearming' <=> Rearming)
        /\ \A f : Halfway(f)' <=> Halfway(f)
    BY <1>6 DEF Counting, Deleting, Rearming, Halfway, vars
  <2>3. Handling'
    BY <1>6, <2>2 DEF IInv, Handling, WellFormed, vars
  <2>4. InStep'
    BY <1>6, <2>2 DEF IInv, InStep, Apart, StatusFollows, TimersInStep, SubscriptionsInStep,
                      FiresInStep, Active, vars
  <2> QED BY <2>1, <2>3, <2>4 DEF IInv
<1> QED BY <1>1, <1>2, <1>3, <1>4, <1>5, <1>6 DEF Next

\* While no calls about the same data have overlapped, the handlers in flight account
\* for all that runtime, index and timer differ by.
THEOREM Accounted == Spec => []IInv
<1> QED BY InitInv, NextInv, PTL DEF Spec

\* An active schedule trigger has one live timer and an enabled job, any other none,
\* whenever the requests before it are handled (scheduleTrigger, unscheduleTrigger).
THEOREM TimersAreRight == Spec => []TimersFollow
<1>1. IInv => TimersFollow
  <2> SUFFICES ASSUME IInv, Settled PROVE TimersFollow
    BY DEF TimersFollow
  <2>1. TimersInStep /\ ~Rearming /\ up # "off"
    BY DEF IInv, InStep, Settled, Rearming
  <2> QED BY <2>1 DEF TimersInStep, TimersFollow, Active
<1> QED BY <1>1, Accounted, PTL

\* The runtime and the index agree whenever the requests before are handled, in status,
\* subscriptions, subscriber count and fires (the handlers of triggerWiring).
THEOREM RuntimeIsTheIndex == Spec => []SettledAgrees
<1>1. IInv => SettledAgrees
  <2> SUFFICES ASSUME IInv, Settled, backend # "redis"
               PROVE  /\ runtime = Loaded
                      /\ index.subscribers = Cardinality(index.subs)
                      /\ index.fires = fired
    BY DEF SettledAgrees
  <2>1. /\ StatusFollows /\ SubscriptionsInStep /\ FiresInStep /\ TypeOK
        /\ ~Deleting /\ up # "off" /\ (\A f : ~Halfway(f)) /\ Counting = {}
    BY DEF IInv, InStep, Settled, Deleting, Halfway, Counting
  <2>2. runtime \in Copies /\ index \in EntryType
    BY <2>1 DEF TypeOK
  <2>3. runtime.subs = index.subs
    <3>1. \A f \in Flows : f \in runtime.subs <=> f \in index.subs
      BY <2>1 DEF SubscriptionsInStep
    <3> QED BY <2>2, <3>1 DEF Copies, EntryType
  <2>4. runtime = [status |-> runtime.status, subs |-> runtime.subs]
    BY <2>2 DEF Copies
  <2>5. runtime = Loaded
    BY <2>1, <2>3, <2>4 DEF StatusFollows, Loaded
  <2>6. index.subscribers = Cardinality(index.subs)
    BY <2>1, <2>3 DEF SubscriptionsInStep
  <2>7. index.fires = fired
    <3>1. Cardinality({}) = 0
      BY FS_EmptySet
    <3> QED BY <2>1, <2>2, <3>1 DEF FiresInStep, EntryType
  <2> QED BY <2>5, <2>6, <2>7
<1> QED BY <1>1, Accounted, PTL

\* A fire goes on to every flow that was subscribed as it was handled, whatever the
\* other handlers do and also past a flow that cannot be started (handleTriggerFired).
THEOREM FiresGoRound == Spec => FiresReachAllFlows
<1> DEFINE Reaches == \A t \in tasks : t.pc = "start"
              => LET left == {u \in tasks' : u.pc = "start" /\ u.id = t.id}
                 IN  up' = "off" \/ \A f \in t.todo :
                       <<t.id, f>> \in tried' \/ \E u \in left : f \in u.todo
<1>1. ASSUME IInv, [Next]_vars, NEW t \in tasks, t.pc = "start", t \in tasks'
      PROVE  \A f \in t.todo : \E u \in {u \in tasks' : u.pc = "start" /\ u.id = t.id} : f \in u.todo
  BY <1>1
<1>2. ASSUME IInv, Next, NEW t \in tasks, t.pc = "start", t \notin tasks', up' # "off"
      PROVE  StartFlow(t)
  <2>1. CASE HandleAny
    <3>1. PICK s \in tasks : Handle(s)
      BY <2>1 DEF HandleAny
    <3>2. PICK S : Turns(s, S)
      BY <3>1, <1>2, HandleTurns
    <3>3. s = t
      BY <1>2, <3>2 DEF Turns
    <3>4. t \in TaskType /\ WellFormed(t) /\ t.kind = "fired"
      BY <1>2, InFlight, KindOf
    <3> QED BY <1>2, <3>1, <3>3, <3>4
         DEF Handle, AddEntry, UpdateEntry, AddSubscription, CountSubscription, RemoveSubscription,
             UncountSubscription, DeleteEntry, DeleteStream, Unpersist, PersistJob, AppendFired,
             UpdateFiredAt, CountFired, ResolvePayload, Fails
  <2>2. CASE Request
    <3>1. tasks \subseteq tasks'
      BY <2>2 DEF Request, Post, Patch, Delete, WebhookCall, CronFires, EmitTrigger, Fired, Publish
    <3> QED BY <1>2, <3>1
  <2>3. CASE Boot \/ RegisterDeclared
    <3>1. tasks \subseteq tasks'
      BY <2>3 DEF Boot, RegisterDeclared, Publish
    <3> QED BY <1>2, <3>1
  <2>4. CASE Crash
    BY <1>2, <2>4 DEF Crash
  <2> QED BY <1>2, <2>1, <2>2, <2>3, <2>4 DEF Next
<1>3. ASSUME IInv, NEW t \in tasks, StartFlow(t), NEW f \in t.todo
      PROVE  <<t.id, f>> \in tried' \/ \E u \in {u \in tasks' : u.pc = "start" /\ u.id = t.id} : f \in u.todo
  <2>1. PICK g \in t.todo : AfterStart(t, g) /\ tried' = {<<t.id, g>>}
    BY <1>3 DEF StartFlow
  <2>2. t \in TaskType /\ t.pc = "start"
    BY <1>3, InFlight DEF StartFlow
  <2>3. CASE f = g
    BY <2>1, <2>3
  <2>4. CASE f # g
    <3> DEFINE left == t.todo \ {g}
               u == [t EXCEPT !.todo = left]
    <3>1. u \in tasks'
      BY <2>1, <2>4 DEF AfterStart
    <3>2. u.pc = "start" /\ u.id = t.id /\ u.todo = left
      BY <2>2 DEF TaskType
    <3> QED BY <2>4, <3>1, <3>2
  <2> QED BY <2>3, <2>4
<1>4. IInv /\ [Next]_vars => [Reaches]_vars
  <2> SUFFICES ASSUME IInv, Next, NEW t \in tasks, t.pc = "start", up' # "off", NEW f \in t.todo
               PROVE  <<t.id, f>> \in tried'
                        \/ \E u \in {u \in tasks' : u.pc = "start" /\ u.id = t.id} : f \in u.todo
    OBVIOUS
  <2> QED BY <1>1, <1>2, <1>3
<1> QED BY <1>4, Accounted, PTL DEF Spec, FiresReachAllFlows
================================================================================
