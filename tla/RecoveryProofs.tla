---------------------------- MODULE RecoveryProofs ----------------------------
(***************************************************************************)
(* Any number of runs over any number of stops of the server: an unfinished  *)
(* run the index has active keeps a timer or has something under way, and    *)
(* the startup recovery leaves a run alone that a time await keeps waiting.  *)
(*                                                                         *)
(* The invariant has two stages.  IInv says what is in the chain, the queue  *)
(* and the index; WInv adds what makes up for a stall timeout that is lost   *)
(* when the server stops between unscheduling and scheduling it again.       *)
(***************************************************************************)
EXTENDS Recovery, FiniteSetTheorems, TLAPS

IInv == TypeOK /\ RecoveryInv

-----------------------------------------------------------------------------
(* Jobs, events and entries. *)

LEMMA JobFacts ==
  ASSUME NEW r \in Runs
  PROVE  /\ JobsOf(r) = {<<"stall", r>>, <<"wait", r>>} /\ JobsOf(r) \subseteq Jobs
         /\ <<"stall", r>> # <<"wait", r>>
         /\ \A q \in Runs : q # r => JobsOf(q) \cap JobsOf(r) = {}
BY DEF JobsOf, Jobs

LEMMA JobShape ==
  ASSUME NEW j \in Jobs
  PROVE  \E r \in Runs : j = <<"stall", r>> \/ j = <<"wait", r>>
BY DEF Jobs, JobsOf

LEMMA MessageFacts ==
  /\ \A type \in EventTypes : Event(type) \in Messages /\ Event(type).type = type
  /\ \A status \in Statuses \cup {"absent"} :
       Cancellation(status) \in Messages /\ Cancellation(status).type = "flow.cancel"
BY DEF Event, Cancellation, Messages, EventTypes

\* The chain of a run once an event is published.
LEMMA PublishFacts ==
  ASSUME TypeOK, NEW r \in Runs, NEW e \in Messages, Publish(r, e)
  PROVE  /\ chain' \in [Runs -> Seq(Messages)] /\ persisted' = persisted /\ extending' = extending
         /\ \A q \in Runs : q # r => chain'[q] = chain[q]
         /\ Listening \/ chain'[r] = chain[r]
         /\ chain[r] # <<>> => chain'[r] # <<>> /\ Head(chain'[r]) = Head(chain[r])
         /\ \A type : /\ At(r, type) \subseteq At(r, type)'
                      /\ type # e.type => At(r, type)' = At(r, type)
                      /\ \A n \in At(r, type)' : n \in At(r, type) \/ n = Len(chain[r]) + 1
         /\ Len(chain[r]) \in Nat
<1>0. chain \in [Runs -> Seq(Messages)] /\ chain[r] \in Seq(Messages)
  BY DEF TypeOK
<1>1. CASE ~Listening
  <2>1. chain' = chain
    BY <1>0, <1>1 DEF Publish
  <2> QED BY <1>0, <2>1 DEF At, Publish
<1>2. CASE Listening
  <2>1. /\ chain' = [chain EXCEPT ![r] = Append(chain[r], e)] /\ persisted' = persisted
        /\ extending' = extending
    BY <1>0, <1>2 DEF Publish
  <2>2. /\ Append(chain[r], e) \in Seq(Messages) /\ Len(chain[r]) \in Nat
        /\ Len(Append(chain[r], e)) = Len(chain[r]) + 1
        /\ \A n \in 1..Len(chain[r]) : Append(chain[r], e)[n] = chain[r][n]
        /\ Append(chain[r], e)[Len(chain[r]) + 1] = e
        /\ DOMAIN Append(chain[r], e) = 1..(Len(chain[r]) + 1) /\ DOMAIN chain[r] = 1..Len(chain[r])
    BY <1>0
  <2>3. chain' \in [Runs -> Seq(Messages)] /\ chain'[r] = Append(chain[r], e)
        /\ \A q \in Runs : q # r => chain'[q] = chain[q]
    BY <1>0, <2>1, <2>2
  <2>4. chain[r] # <<>> => chain'[r] # <<>> /\ Head(chain'[r]) = Head(chain[r])
    BY <1>0, <2>2, <2>3
  <2>5. ASSUME NEW type
        PROVE  /\ At(r, type) \subseteq At(r, type)'
               /\ type # e.type => At(r, type)' = At(r, type)
               /\ \A n \in At(r, type)' : n \in At(r, type) \/ n = Len(chain[r]) + 1
    <3>1. At(r, type) = {n \in 1..Len(chain[r]) : chain[r][n].type = type}
      BY <2>2 DEF At
    <3>2. At(r, type)' = {n \in 1..(Len(chain[r]) + 1) : Append(chain[r], e)[n].type = type}
      BY <2>2, <2>3 DEF At
    <3> QED BY <2>2, <3>1, <3>2
  <2> QED BY <1>2, <2>1, <2>2, <2>3, <2>4, <2>5
<1> QED BY <1>1, <1>2

\* The chain of a run once its first event is handled.
LEMMA HandleFacts ==
  ASSUME TypeOK, NEW r \in Runs, HeadKept(r), NEW types, NEW pub \in Seq(Messages), Len(pub) <= 1,
         Handle(r, types, pub)
  PROVE  /\ chain' \in [Runs -> Seq(Messages)] /\ persisted' = persisted \ {r} /\ r \in persisted
         /\ extending' = extending \ {r}
         /\ chain[r] # <<>> /\ Head(chain[r]) \in Messages /\ Head(chain[r]).type \in types
         /\ 1 \in At(r, Head(chain[r]).type)
         /\ \A type : 1 \in At(r, type) => type = Head(chain[r]).type
         /\ \A q \in Runs : q # r => chain'[q] = chain[q]
         /\ \A type : (pub = <<>> \/ pub[1].type # type) => \A n \in At(r, type)' : n + 1 \in At(r, type) /\ n >= 1
         /\ UNCHANGED <<config, phase, stream, stats, awaits, recovery, upsets>>
<1>0. chain \in [Runs -> Seq(Messages)] /\ chain[r] \in Seq(Messages) /\ chain[r] # <<>>
  BY DEF TypeOK, HeadKept, Handle
<1>1. /\ chain' = [chain EXCEPT ![r] = Tail(chain[r]) \o pub] /\ persisted' = persisted \ {r}
      /\ r \in persisted /\ Head(chain[r]).type \in types
  BY <1>0 DEF Handle
<1>2. /\ Tail(chain[r]) \in Seq(Messages) /\ Len(chain[r]) \in Nat /\ Len(chain[r]) >= 1
      /\ Len(Tail(chain[r])) = Len(chain[r]) - 1 /\ Head(chain[r]) = chain[r][1]
      /\ \A n \in 1..(Len(chain[r]) - 1) : Tail(chain[r])[n] = chain[r][n + 1]
      /\ DOMAIN chain[r] = 1..Len(chain[r])
  BY <1>0
<1>3. /\ Tail(chain[r]) \o pub \in Seq(Messages)
      /\ Len(Tail(chain[r]) \o pub) = Len(chain[r]) - 1 + Len(pub)
      /\ DOMAIN (Tail(chain[r]) \o pub) = 1..(Len(chain[r]) - 1 + Len(pub))
      /\ \A n \in 1..(Len(chain[r]) - 1) : (Tail(chain[r]) \o pub)[n] = Tail(chain[r])[n]
      /\ Len(pub) = 1 => (Tail(chain[r]) \o pub)[Len(chain[r])] = pub[1]
  BY <1>2
<1>4. chain' \in [Runs -> Seq(Messages)] /\ chain'[r] = Tail(chain[r]) \o pub
      /\ \A q \in Runs : q # r => chain'[q] = chain[q]
  BY <1>0, <1>1, <1>3
<1>5. Head(chain[r]) \in Messages /\ 1 \in At(r, Head(chain[r]).type)
      /\ \A type : 1 \in At(r, type) => type = Head(chain[r]).type
  BY <1>0, <1>2 DEF At
<1>6. ASSUME NEW type, pub = <<>> \/ pub[1].type # type, NEW n \in At(r, type)'
      PROVE  n + 1 \in At(r, type) /\ n >= 1
  <2>1. n \in 1..(Len(chain[r]) - 1 + Len(pub)) /\ (Tail(chain[r]) \o pub)[n].type = type
    BY <1>3, <1>4, <1>6 DEF At
  <2>2. Len(pub) \in Nat /\ (pub = <<>> <=> Len(pub) = 0)
    OBVIOUS
  <2>3. n \in 1..(Len(chain[r]) - 1)
    BY <1>2, <1>3, <1>6, <2>1, <2>2
  <2>4. chain[r][n + 1].type = type
    BY <1>2, <1>3, <2>1, <2>3
  <2> QED BY <1>2, <2>3, <2>4 DEF At
<1> QED BY <1>0, <1>1, <1>4, <1>5, <1>6 DEF Handle

LEMMA EntryFacts ==
  ASSUME NEW e \in Entries \cup {Absent}
  PROVE  /\ e.status \in Statuses \cup {"absent"} /\ e.wait \in {"none", "awaiting", "resolved"}
         /\ e.bare \in {"none", "resolved", "timeout"}
         /\ e = Absent <=> e.status = "absent"
         /\ e.status \in ActiveStatuses => e # Absent
         /\ [e EXCEPT !.bare = e.bare] = e
         /\ \A s \in Statuses :
              LET n == [e EXCEPT !.status = s]
              IN  n \in Entries /\ n # Absent /\ n.status = s /\ n.wait = e.wait /\ n.bare = e.bare
         /\ e # Absent =>
              /\ e \in Entries
              /\ \A w \in {"awaiting", "resolved"} :
                   LET n == [e EXCEPT !.wait = w]
                   IN  n \in Entries /\ n # Absent /\ n.status = e.status /\ n.wait = w /\ n.bare = e.bare
              /\ \A b \in {"none", "resolved", "timeout"} :
                   LET n == [e EXCEPT !.bare = b]
                   IN  n \in Entries /\ n # Absent /\ n.status = e.status /\ n.wait = e.wait /\ n.bare = b
              /\ LET n == [e EXCEPT !.status = "awaiting", !.wait = "awaiting"]
                 IN  n \in Entries /\ n # Absent /\ n.status = "awaiting" /\ n.wait = "awaiting" /\ n.bare = e.bare
<1>0. /\ Absent = [status |-> "absent", wait |-> "none", bare |-> "none"]
      /\ "absent" \notin Statuses /\ "awaiting" \in Statuses
      /\ ActiveStatuses \subseteq Statuses
  BY DEF Absent, Statuses, ActiveStatuses
<1>1. CASE e = Absent
  BY <1>0, <1>1 DEF Entries
<1>2. CASE e \in Entries
  <2>0. /\ e.status \in Statuses /\ e.wait \in {"none", "awaiting", "resolved"}
        /\ e.bare \in {"none", "resolved", "timeout"} /\ e # Absent
        /\ e = [status |-> e.status, wait |-> e.wait, bare |-> e.bare]
    BY <1>0, <1>2 DEF Entries
  <2>1. \A x \in Entries : x # Absent
    BY <1>0 DEF Entries
  <2>2. [e EXCEPT !.bare = e.bare] = e
    BY <2>0
  <2>3. ASSUME NEW x \in Statuses
        PROVE  LET n == [e EXCEPT !.status = x]
               IN  n \in Entries /\ n.status = x /\ n.wait = e.wait /\ n.bare = e.bare
    BY <1>2 DEF Entries
  <2>4. ASSUME NEW w \in {"awaiting", "resolved"}
        PROVE  LET n == [e EXCEPT !.wait = w]
               IN  n \in Entries /\ n.status = e.status /\ n.wait = w /\ n.bare = e.bare
    BY <1>2 DEF Entries
  <2>5. ASSUME NEW b \in {"none", "resolved", "timeout"}
        PROVE  LET n == [e EXCEPT !.bare = b]
               IN  n \in Entries /\ n.status = e.status /\ n.wait = e.wait /\ n.bare = b
    BY <1>2 DEF Entries
  <2>6. LET n == [e EXCEPT !.status = "awaiting", !.wait = "awaiting"]
        IN  n \in Entries /\ n.status = "awaiting" /\ n.wait = "awaiting" /\ n.bare = e.bare
    BY <1>0, <1>2 DEF Entries
  <2>7. e = Absent <=> e.status = "absent"
    BY <1>0, <2>0
  <2>8. e \in Entries /\ e.status \in Statuses \cup {"absent"}
    BY <1>2, <2>0
  <2> QED BY <2>0, <2>1, <2>2, <2>3, <2>4, <2>5, <2>6, <2>7, <2>8
<1> QED BY <1>1, <1>2

LEMMA StatusFacts ==
  ASSUME NEW e \in Entries \cup {Absent}, NEW s \in Statuses, NEW n, n = [e EXCEPT !.status = s]
  PROVE  n # Absent /\ n.status = s /\ n.wait = e.wait /\ n.bare = e.bare
<1>1. "absent" \notin Statuses /\ Absent.status = "absent"
  BY DEF Absent, Statuses
<1>2. CASE e \in Entries
  BY <1>1, <1>2 DEF Entries
<1>3. CASE e = Absent
  BY <1>1, <1>3 DEF Absent
<1> QED BY <1>2, <1>3

LEMMA AwaitFacts ==
  ASSUME NEW e \in Entries \cup {Absent}, e # Absent, NEW n
  PROVE  /\ \A w \in {"awaiting", "resolved"} : n = [e EXCEPT !.wait = w] =>
              n # Absent /\ n.status = e.status /\ n.wait = w /\ n.bare = e.bare
         /\ \A b \in {"none", "resolved", "timeout"} : n = [e EXCEPT !.bare = b] =>
              n # Absent /\ n.status = e.status /\ n.wait = e.wait /\ n.bare = b
<1>1. e \in Entries /\ "absent" \notin Statuses /\ Absent.status = "absent"
  BY DEF Absent, Statuses
<1>2. e.status # "absent"
  BY <1>1 DEF Entries
<1> QED BY <1>1, <1>2 DEF Entries

LEMMA EnqueueFacts ==
  ASSUME TypeOK, NEW r \in Runs, NEW ws \in SUBSET WorkNames, Enqueue(r, ws)
  PROVE  /\ work' \in [Runs -> [WorkNames -> WorkStates]]
         /\ \A q \in Runs : q # r => work'[q] = work[q]
         /\ \A w \in WorkNames : work'[r][w] = IF w \in ws /\ work[r][w] = "none" THEN "waiting" ELSE work[r][w]
<1>1. work \in [Runs -> [WorkNames -> WorkStates]]
  BY DEF TypeOK
<1>2. /\ work' = [work EXCEPT ![r] = [w \in WorkNames |-> IF w \in ws /\ work[r][w] = "none" THEN "waiting" ELSE work[r][w]]]
  BY <1>1 DEF Enqueue
<1>3. [w \in WorkNames |-> IF w \in ws /\ work[r][w] = "none" THEN "waiting" ELSE work[r][w]] \in [WorkNames -> WorkStates]
  BY <1>1 DEF WorkStates
<1> QED BY <1>1, <1>2, <1>3

LEMMA TakeFacts ==
  ASSUME TypeOK, NEW r \in Runs, NEW w \in WorkNames, NEW from \in WorkStates, NEW to \in WorkStates,
         Take(r, w, from, to)
  PROVE  /\ phase = "up" /\ work[r][w] = from
         /\ work' \in [Runs -> [WorkNames -> WorkStates]]
         /\ \A q \in Runs : q # r => work'[q] = work[q]
         /\ \A v \in WorkNames : work'[r][v] = IF v = w THEN to ELSE work[r][v]
BY DEF Take, TypeOK

LEMMA ScheduleFacts ==
  ASSUME TypeOK, NEW r \in Runs, NEW j \in JobsOf(r), Schedule(j)
  PROVE  /\ armed' \cup firing' \cup jobs' \cup due' \subseteq Jobs
         /\ firing' = firing /\ jobs' = jobs \cup {j}
         /\ \A k : k # j => (k \in armed' <=> k \in armed) /\ (k \in due' <=> k \in due)
         /\ Timed /\ phase' = phase => Timed'
BY JobFacts DEF TypeOK, Schedule, Timed

LEMMA UnscheduleFacts ==
  ASSUME TypeOK, NEW js, Unschedule(js)
  PROVE  /\ armed' \cup firing' \cup jobs' \cup due' \subseteq Jobs
         /\ firing' = firing /\ jobs' = jobs \ js /\ armed' = armed \ js /\ due' = due \ js
         /\ Timed /\ phase' = phase => Timed'
BY DEF TypeOK, Unschedule, Timed

LEMMA FireFacts ==
  ASSUME TypeOK, NEW r \in Runs, NEW j \in JobsOf(r), Fire(j)
  PROVE  /\ armed' \cup firing' \cup jobs' \cup due' \subseteq Jobs
         /\ firing' = firing \cup {j} /\ j \in armed /\ jobs' = jobs
         /\ armed' = armed \ {j} /\ due' = due \ {j}
         /\ Timed /\ phase' = phase => Timed'
BY JobFacts DEF TypeOK, Fire, Timed

-----------------------------------------------------------------------------
(* A step of one run leaves the others alone. *)

Local(r) ==
  \/ StartFlow(r) \/ CancelFlow(r) \/ RestartFlow(r) \/ ClearHistory(r)
  \/ Worker(r) \/ Wiring(r) \/ Timers(r)
  \/ EventArrives(r) \/ ResolveEventAwait(r)
  \/ (\E j \in JobsOf(r) : FinishJob(j) \/ Elapse(j))
  \/ RecoverRun(r)

Same(q) ==
  /\ index'[q] = index[q] /\ stream'[q] = stream[q] /\ work'[q] = work[q] /\ chain'[q] = chain[q]
  /\ (q \in persisted' <=> q \in persisted) /\ (q \in subs' <=> q \in subs)
  /\ (q \in extending' <=> q \in extending) /\ (q \in DOMAIN todo' <=> q \in DOMAIN todo)
  /\ \A j \in JobsOf(q) : /\ (j \in jobs' <=> j \in jobs) /\ (j \in firing' <=> j \in firing)
                          /\ (j \in armed' <=> j \in armed) /\ (j \in due' <=> j \in due)
  /\ resolving'[q] = resolving[q] /\ marking'[q] = marking[q]
  /\ q \in DOMAIN todo' => todo'[q] = todo[q]
  /\ phase' = phase /\ config' = config

LEMMA SameKeeps ==
  ASSUME NEW q \in Runs, RunInv(q), Same(q)
  PROVE  RunInv(q)'
<1>1. <<"stall", q>> \in JobsOf(q) /\ <<"wait", q>> \in JobsOf(q)
  BY JobFacts
<1>2. \A type : At(q, type)' = At(q, type)
  BY DEF Same, At
<1>3. (Unfinished(q)' <=> Unfinished(q)) /\ (IsRunning(q)' <=> IsRunning(q)) /\ (AwaitBegun(q)' <=> AwaitBegun(q))
  BY <1>1, <1>2 DEF Same, Unfinished, IsRunning, AwaitBegun
<1>4. Untouched(q)'
  BY DEF Same, RunInv, Untouched
<1>5. StartsFirst(q)'
  BY <1>1, <1>2 DEF Same, RunInv, StartsFirst
<1>6. EntryFirst(q)'
  BY <1>2, <1>3 DEF Same, RunInv, EntryFirst
<1>7. HeadKept(q)' /\ VerdictEnds(q)'
  BY <1>2, <1>3 DEF Same, RunInv, HeadKept, VerdictEnds
<1>8. KeptActive(q)' /\ FiredInVain(q)'
  BY <1>1, <1>3 DEF Same, RunInv, KeptActive, FiredInVain, Live
<1>9. Rereads(q)'
  BY <1>2 DEF Same, RunInv, Rereads
<1> QED BY <1>4, <1>5, <1>6, <1>7, <1>8, <1>9 DEF RunInv

Base(r) == TypeOK' /\ Timed' /\ \A q \in Runs : q # r => Same(q)

\* What a step of a run writes is its own.
LEMMA BaseFacts ==
  ASSUME TypeOK, Timed, NEW r \in Runs, config' = config, phase' = phase, found' = found,
         stats' \in [{"running", "awaiting"} -> Int],
         index' \in [Runs -> Entries \cup {Absent}], \A q \in Runs : q # r => index'[q] = index[q],
         stream' \in [Runs -> SUBSET EventTypes], \A q \in Runs : q # r => stream'[q] = stream[q],
         work' \in [Runs -> [WorkNames -> WorkStates]], \A q \in Runs : q # r => work'[q] = work[q],
         chain' \in [Runs -> Seq(Messages)], \A q \in Runs : q # r => chain'[q] = chain[q],
         resolving' \in [Runs -> Nat], \A q \in Runs : q # r => resolving'[q] = resolving[q],
         marking' \in [Runs -> [Markers -> Statuses \cup {"no"}]],
         \A q \in Runs : q # r => marking'[q] = marking[q],
         persisted' = persisted \/ persisted' = persisted \cup {r} \/ persisted' = persisted \ {r},
         extending' = extending \/ extending' = extending \cup {r} \/ extending' = extending \ {r},
         subs' = subs \/ subs' = subs \cup {r} \/ subs' = subs \ {r},
         armed' \cup firing' \cup jobs' \cup due' \subseteq Jobs, Timed',
         \A j : j \notin JobsOf(r) => /\ (j \in jobs' <=> j \in jobs) /\ (j \in firing' <=> j \in firing)
                                      /\ (j \in armed' <=> j \in armed) /\ (j \in due' <=> j \in due),
         DOMAIN todo' \subseteq DOMAIN todo, \A q \in DOMAIN todo' : todo'[q] = todo[q],
         \A q \in DOMAIN todo : q # r => q \in DOMAIN todo'
  PROVE  Base(r)
<1>1. TypeOK'
  BY DEF TypeOK
<1>2. ASSUME NEW q \in Runs, q # r PROVE Same(q)
  <2>1. \A j \in JobsOf(q) : j \notin JobsOf(r)
    BY <1>2 DEF JobsOf
  <2> QED BY <1>2, <2>1 DEF Same
<1> QED BY <1>1, <1>2 DEF Base

LEMMA CallsBase ==
  ASSUME TypeOK, Timed, NEW r \in Runs, StartFlow(r) \/ CancelFlow(r) \/ RestartFlow(r) \/ ClearHistory(r)
  PROVE  Base(r)
<1> USE DEF store, scheduler, awaits, recovery, bus
<1>0. index[r].status \in Statuses \cup {"absent"}
  <2>1. index[r] \in Entries \cup {Absent}
    BY DEF TypeOK
  <2> QED BY <2>1, EntryFacts
<1>1. CASE StartFlow(r)
  <2>1. Event("flow.start") \in Messages /\ {"entry"} \in SUBSET WorkNames
    BY MessageFacts DEF EventTypes, WorkNames
  <2>2. Publish(r, Event("flow.start")) /\ Enqueue(r, {"entry"})
    BY <1>1 DEF StartFlow
  <2>3. chain' \in [Runs -> Seq(Messages)] /\ persisted' = persisted /\ extending' = extending
        /\ \A q \in Runs : q # r => chain'[q] = chain[q]
    BY <2>1, <2>2, PublishFacts
  <2>4. work' \in [Runs -> [WorkNames -> WorkStates]] /\ \A q \in Runs : q # r => work'[q] = work[q]
    BY <2>1, <2>2, EnqueueFacts
  <2> QED BY <1>1, <2>3, <2>4, BaseFacts DEF StartFlow, TypeOK, Timed
<1>2. CASE CancelFlow(r) \/ RestartFlow(r)
  <2>1. Cancellation(index[r].status) \in Messages
    BY <1>0, MessageFacts
  <2>2. Publish(r, Cancellation(index[r].status)) \/ UNCHANGED bus
    BY <1>2 DEF CancelFlow, RestartFlow
  <2>3. chain' \in [Runs -> Seq(Messages)] /\ persisted' = persisted /\ extending' = extending
        /\ \A q \in Runs : q # r => chain'[q] = chain[q]
    BY <2>1, <2>2, PublishFacts DEF TypeOK
  <2> QED BY <1>2, <2>3, BaseFacts DEF CancelFlow, RestartFlow, TypeOK, Timed
<1>3. CASE ClearHistory(r)
  <2>1. /\ index' \in [Runs -> Entries \cup {Absent}] /\ \A q \in Runs : q # r => index'[q] = index[q]
        /\ stream' \in [Runs -> SUBSET EventTypes] /\ \A q \in Runs : q # r => stream'[q] = stream[q]
    BY <1>3 DEF ClearHistory, TypeOK
  <2> QED BY <1>3, <2>1, BaseFacts DEF ClearHistory, TypeOK, Timed
<1> QED BY <1>1, <1>2, <1>3

LEMMA WorkerBase ==
  ASSUME TypeOK, Timed, NEW r \in Runs, Worker(r)
  PROVE  Base(r)
<1> USE DEF store, scheduler, awaits, recovery, bus
<1>0. Steps \cup {"register"} \subseteq WorkNames /\ {"waiting", "active", "done"} \subseteq WorkStates
      /\ "await.registered" \in EventTypes /\ \A w \in Steps : {StartOf[w], CompletionOf[w]} \subseteq EventTypes
  BY DEF Steps, WorkNames, WorkStates, EventTypes, StartOf, CompletionOf, FinishTypes
<1>1. ASSUME NEW w \in Steps, StartStep(r, w) \/ CompleteStep(r, w) PROVE Base(r)
  <2>1. \E from, to \in WorkStates : Take(r, w, from, to)
    BY <1>0, <1>1 DEF StartStep, CompleteStep
  <2>2. \E e \in Messages : Publish(r, e)
    BY <1>0, <1>1, MessageFacts DEF StartStep, CompleteStep
  <2>3. chain' \in [Runs -> Seq(Messages)] /\ persisted' = persisted /\ extending' = extending
        /\ \A q \in Runs : q # r => chain'[q] = chain[q]
    BY <2>2, PublishFacts
  <2>4. work' \in [Runs -> [WorkNames -> WorkStates]] /\ \A q \in Runs : q # r => work'[q] = work[q]
    BY <1>0, <2>1, TakeFacts
  <2> QED BY <1>1, <2>3, <2>4, BaseFacts DEF StartStep, CompleteStep, TypeOK, Timed
<1>2. CASE AnnounceWait(r) \/ SubscribeWait(r)
  <2>1. \E from, to \in WorkStates : Take(r, "register", from, to)
    BY <1>0, <1>2 DEF AnnounceWait, SubscribeWait
  <2>2. \E e \in Messages : Publish(r, e)
    BY <1>0, <1>2, MessageFacts DEF AnnounceWait, SubscribeWait
  <2>3. chain' \in [Runs -> Seq(Messages)] /\ persisted' = persisted /\ extending' = extending
        /\ \A q \in Runs : q # r => chain'[q] = chain[q]
    BY <2>2, PublishFacts
  <2>4. work' \in [Runs -> [WorkNames -> WorkStates]] /\ \A q \in Runs : q # r => work'[q] = work[q]
    BY <1>0, <2>1, TakeFacts
  <2>5. subs' = subs \/ subs' = subs \cup {r}
    BY <1>2 DEF AnnounceWait, SubscribeWait
  <2> QED BY <1>2, <2>3, <2>4, <2>5, BaseFacts DEF AnnounceWait, SubscribeWait, TypeOK, Timed
<1>3. CASE ScheduleWait(r) \/ ScheduleTimeout(r)
  <2>1. \E from, to \in WorkStates : Take(r, "register", from, to)
    BY <1>0, <1>3 DEF ScheduleWait, ScheduleTimeout
  <2>2. Schedule(<<"wait", r>>) /\ phase' = phase
    BY <1>3 DEF ScheduleWait, ScheduleTimeout
  <2>3. /\ armed' \cup firing' \cup jobs' \cup due' \subseteq Jobs /\ firing' = firing
        /\ jobs' = jobs \cup {<<"wait", r>>} /\ Timed' /\ <<"wait", r>> \in JobsOf(r)
        /\ \A k : k # <<"wait", r>> => (k \in armed' <=> k \in armed) /\ (k \in due' <=> k \in due)
    BY <2>2, JobFacts, ScheduleFacts
  <2>4. work' \in [Runs -> [WorkNames -> WorkStates]] /\ \A q \in Runs : q # r => work'[q] = work[q]
    BY <1>0, <2>1, TakeFacts
  <2> QED BY <1>3, <2>3, <2>4, BaseFacts DEF ScheduleWait, ScheduleTimeout, TypeOK
<1> QED BY <1>1, <1>2, <1>3 DEF Worker

LEMMA ReadStatusFacts ==
  ASSUME TypeOK, NEW r \in Runs, NEW m \in Markers, ReadStatus(r, m)
  PROVE  /\ marking' \in [Runs -> [Markers -> Statuses \cup {"no"}]]
         /\ \A q \in Runs : q # r => marking'[q] = marking[q]
         /\ \A n \in Markers : n # m => marking'[r][n] = marking[r][n]
         /\ marking'[r][m] = IF IsRunning(r) THEN index[r].status ELSE "no"
         /\ IsRunning(r) => marking'[r][m] # "no"
<1>1. marking \in [Runs -> [Markers -> Statuses \cup {"no"}]]
  BY DEF TypeOK
<1>2. (IF IsRunning(r) THEN index[r].status ELSE "no") \in Statuses \cup {"no"}
  BY DEF IsRunning, ActiveStatuses, Statuses
<1>3. marking' = [marking EXCEPT ![r][m] = IF IsRunning(r) THEN index[r].status ELSE "no"]
  BY DEF ReadStatus
<1> QED BY <1>1, <1>2, <1>3 DEF IsRunning, ActiveStatuses

LEMMA TimersBase ==
  ASSUME TypeOK, Timed, NEW r \in Runs,
         \/ Timers(r) \/ EventArrives(r) \/ ResolveEventAwait(r)
         \/ \E j \in JobsOf(r) : FinishJob(j) \/ Elapse(j)
  PROVE  Base(r)
<1> USE DEF store, scheduler, awaits, recovery, bus
<1>0. /\ {"await.resolved", "await.timeout", "flow.stalled", "entry.stalled", "step.stalled"} \subseteq EventTypes
      /\ <<"wait", r>> \in JobsOf(r) /\ <<"stall", r>> \in JobsOf(r) /\ Markers = {"timer", "recovery"}
      /\ index[r] \in Entries \cup {Absent} /\ "stalled" \in Statuses
  BY JobFacts DEF EventTypes, Markers, TypeOK, Statuses
<1>1. CASE EventArrives(r)
  <2>1. resolving' \in [Runs -> Nat] /\ \A q \in Runs : q # r => resolving'[q] = resolving[q]
    BY <1>1 DEF EventArrives, TypeOK
  <2> QED BY <1>1, <2>1, BaseFacts DEF EventArrives, TypeOK, Timed
<1>2. CASE ResolveEventAwait(r)
  <2>1. resolving' \in [Runs -> Nat] /\ \A q \in Runs : q # r => resolving'[q] = resolving[q]
    BY <1>2 DEF ResolveEventAwait, TypeOK
  <2>2. Event("await.resolved") \in Messages /\ Publish(r, Event("await.resolved"))
        /\ Unschedule({<<"wait", r>>}) /\ phase' = phase
    BY <1>0, <1>2, MessageFacts DEF ResolveEventAwait
  <2>3. chain' \in [Runs -> Seq(Messages)] /\ persisted' = persisted /\ extending' = extending
        /\ \A q \in Runs : q # r => chain'[q] = chain[q]
    BY <2>2, PublishFacts
  <2>4. /\ armed' \cup firing' \cup jobs' \cup due' \subseteq Jobs /\ firing' = firing
        /\ jobs' = jobs \ {<<"wait", r>>} /\ Timed'
        /\ armed' = armed \ {<<"wait", r>>} /\ due' = due \ {<<"wait", r>>}
    BY <2>2, UnscheduleFacts
  <2> QED BY <1>0, <1>2, <2>1, <2>3, <2>4, BaseFacts DEF ResolveEventAwait, TypeOK
<1>3. CASE WaitFires(r)
  <2>1. /\ \E e \in Messages : Publish(r, e)
        /\ Fire(<<"wait", r>>) /\ phase' = phase
    BY <1>0, <1>3, MessageFacts DEF WaitFires
  <2>2. chain' \in [Runs -> Seq(Messages)] /\ persisted' = persisted /\ extending' = extending
        /\ \A q \in Runs : q # r => chain'[q] = chain[q]
    BY <2>1, PublishFacts
  <2>3. /\ armed' \cup firing' \cup jobs' \cup due' \subseteq Jobs /\ firing' = firing \cup {<<"wait", r>>}
        /\ jobs' = jobs /\ Timed' /\ armed' = armed \ {<<"wait", r>>} /\ due' = due \ {<<"wait", r>>}
    BY <1>0, <2>1, FireFacts
  <2> QED BY <1>0, <1>3, <2>2, <2>3, BaseFacts DEF WaitFires, TypeOK
<1>4. CASE StallFires(r)
  <2>1. ReadStatus(r, "timer") /\ Fire(<<"stall", r>>) /\ phase' = phase
    BY <1>4 DEF StallFires
  <2>2. /\ marking' \in [Runs -> [Markers -> Statuses \cup {"no"}]]
        /\ \A q \in Runs : q # r => marking'[q] = marking[q]
    BY <1>0, <2>1, ReadStatusFacts
  <2>3. /\ armed' \cup firing' \cup jobs' \cup due' \subseteq Jobs /\ firing' = firing \cup {<<"stall", r>>}
        /\ jobs' = jobs /\ Timed' /\ armed' = armed \ {<<"stall", r>>} /\ due' = due \ {<<"stall", r>>}
    BY <1>0, <2>1, FireFacts
  <2> QED BY <1>0, <1>4, <2>2, <2>3, BaseFacts DEF StallFires, TypeOK
<1>5. ASSUME NEW m \in Markers, MarkAsStalled(r, m) PROVE Base(r)
  <2>1. /\ marking' \in [Runs -> [Markers -> Statuses \cup {"no"}]]
        /\ \A q \in Runs : q # r => marking'[q] = marking[q]
    BY <1>5 DEF MarkAsStalled, TypeOK
  <2>2. /\ index' \in [Runs -> Entries \cup {Absent}]
        /\ \A q \in Runs : q # r => index'[q] = index[q]
    <3>1. [index[r] EXCEPT !.status = "stalled"] \in Entries
      BY <1>0, EntryFacts
    <3>2. index' = index \/ index' = [index EXCEPT ![r] = [index[r] EXCEPT !.status = "stalled"]]
      BY <1>5 DEF MarkAsStalled
    <3> QED BY <3>1, <3>2 DEF TypeOK
  <2>3. /\ stream' \in [Runs -> SUBSET EventTypes]
        /\ \A q \in Runs : q # r => stream'[q] = stream[q]
    <3>1. {StallOf[x] : x \in StalledSteps(r)} \subseteq EventTypes
      BY <1>0 DEF StalledSteps, Steps, StallOf
    <3> DEFINE S == stream[r] \cup {"flow.stalled"} \cup {StallOf[x] : x \in StalledSteps(r)}
    <3>2. stream' = stream \/ stream' = [stream EXCEPT ![r] = S]
      BY <1>5 DEF MarkAsStalled
    <3>3. S \in SUBSET EventTypes
      BY <1>0, <3>1 DEF TypeOK
    <3> HIDE DEF S
    <3> QED BY <3>2, <3>3 DEF TypeOK
  <2> QED BY <1>5, <2>1, <2>2, <2>3, BaseFacts DEF MarkAsStalled, TypeOK, Timed
<1>6. ASSUME NEW j \in JobsOf(r), FinishJob(j) \/ Elapse(j) PROVE Base(r)
  <2>1. /\ armed' \cup firing' \cup jobs' \cup due' \subseteq Jobs /\ Timed'
        /\ \A k : k \notin JobsOf(r) => /\ (k \in jobs' <=> k \in jobs) /\ (k \in firing' <=> k \in firing)
                                        /\ (k \in armed' <=> k \in armed) /\ (k \in due' <=> k \in due)
    BY <1>6 DEF FinishJob, Elapse, TypeOK, Timed
  <2> QED BY <1>6, <2>1, BaseFacts DEF FinishJob, Elapse, TypeOK
<1> QED BY <1>0, <1>1, <1>2, <1>3, <1>4, <1>5, <1>6 DEF Timers

LEMMA CountFacts ==
  ASSUME TypeOK, NEW e \in Messages
  PROVE  CountEvent(e) \in [{"running", "awaiting"} -> Int]
<1>1. stats \in [{"running", "awaiting"} -> Int]
  BY DEF TypeOK
<1> QED BY <1>1 DEF CountEvent, Move

LEMMA PendingFacts ==
  ASSUME NEW r, NEW wait
  PROVE  /\ Pending(r, wait) \subseteq {"register", "step"} /\ Pending(r, wait) \in SUBSET WorkNames
         /\ "register" \in Pending(r, wait) => "entry.completed" \in stream[r] /\ wait = "none" /\ index[r] # Absent
         /\ Pending(r, wait) # {} => index[r] # Absent
BY DEF Pending, WorkNames

LEMMA VerdictFacts ==
  ASSUME NEW r
  PROVE  /\ Verdict(r) \in Statuses
         /\ Verdict(r) = "completed" => "step.completed" \in stream[r]
         /\ Verdict(r) = "canceled" => "flow.cancel" \in stream[r]
         /\ Verdict(r) = "failed" => index[r].bare = "timeout" \/ "step.failed" \in stream[r]
         /\ Verdict(r) \in {"completed", "canceled", "failed", "running", "awaiting"}
BY DEF Verdict, Analysis, Statuses

\* An event that is handled, and what is published for it.
OneEvent == {<<>>, <<Event("flow.completed")>>, <<Event("flow.failed")>>, <<Event("step.failed")>>}

LEMMA OneEventFacts ==
  \A pub \in OneEvent : pub \in Seq(Messages) /\ Len(pub) <= 1
<1>1. {"flow.completed", "flow.failed", "step.failed"} \subseteq EventTypes
  BY DEF EventTypes, TerminalTypes, FinishTypes
<1>2. {Event("flow.completed"), Event("flow.failed"), Event("step.failed")} \subseteq Messages
  BY <1>1, MessageFacts
<1>3. \A m \in Messages : <<m>> \in Seq(Messages) /\ Len(<<m>>) = 1
  OBVIOUS
<1>4. <<>> \in Seq(Messages) /\ Len(<<>>) = 0
  OBVIOUS
<1>5. ASSUME NEW pub \in OneEvent PROVE pub = <<>> \/ \E m \in Messages : pub = <<m>>
  BY <1>2 DEF OneEvent
<1>6. ASSUME NEW pub \in OneEvent PROVE pub \in Seq(Messages) /\ Len(pub) <= 1
  <2>1. CASE pub = <<>>
    BY <1>4, <2>1
  <2>2. ASSUME NEW m \in Messages, pub = <<m>> PROVE pub \in Seq(Messages) /\ Len(pub) <= 1
    BY <1>3, <2>2
  <2> QED BY <1>5, <2>1, <2>2
<1> QED BY <1>6

\* What orchestration does to the run's entry, its jobs and its timers.
LEMMA WiringBase ==
  ASSUME TypeOK, Timed, NEW r \in Runs, HeadKept(r), Wiring(r)
  PROVE  Base(r)
<1> USE DEF store, scheduler, awaits, recovery, bus
<1>0. /\ <<"wait", r>> \in JobsOf(r) /\ <<"stall", r>> \in JobsOf(r)
      /\ index[r] \in Entries \cup {Absent} /\ "canceled" \in Statuses /\ "awaiting" \in Statuses
  BY JobFacts DEF TypeOK, Statuses
<1>1. CASE Persist(r)
  <2>1. chain[r] \in Seq(Messages) /\ chain[r] # <<>>
    BY <1>1 DEF Persist, TypeOK
  <2>2. Head(chain[r]) \in Messages /\ Head(chain[r]).type \in EventTypes
    <3>1. Head(chain[r]) \in Messages
      BY <2>1
    <3> QED BY <3>1 DEF Messages
  <2>3. /\ stream' \in [Runs -> SUBSET EventTypes] /\ \A q \in Runs : q # r => stream'[q] = stream[q]
    BY <1>1, <2>2 DEF Persist, TypeOK
  <2>4. stats' \in [{"running", "awaiting"} -> Int]
    BY <1>1, <2>2, CountFacts DEF Persist
  <2> QED BY <1>1, <2>3, <2>4, BaseFacts DEF Persist, TypeOK, Timed
<1>2. ASSUME NEW types, NEW pub \in OneEvent, Handle(r, types, pub),
             index' \in [Runs -> Entries \cup {Absent}], \A q \in Runs : q # r => index'[q] = index[q],
             work' \in [Runs -> [WorkNames -> WorkStates]], \A q \in Runs : q # r => work'[q] = work[q],
             \/ UNCHANGED scheduler \/ Schedule(<<"stall", r>>) \/ Unschedule(JobsOf(r))
      PROVE  Base(r)
  <2>1. /\ chain' \in [Runs -> Seq(Messages)] /\ persisted' = persisted \ {r} /\ extending' = extending \ {r}
        /\ \A q \in Runs : q # r => chain'[q] = chain[q]
        /\ UNCHANGED <<config, phase, stream, stats, awaits, recovery, upsets>>
    BY <1>2, OneEventFacts, HandleFacts
  <2>2. /\ armed' \cup firing' \cup jobs' \cup due' \subseteq Jobs /\ firing' = firing /\ Timed'
        /\ jobs' = jobs \/ jobs' = jobs \cup {<<"stall", r>>} \/ jobs' = jobs \ JobsOf(r)
        /\ \A k : k \notin JobsOf(r) => (k \in armed' <=> k \in armed) /\ (k \in due' <=> k \in due)
    <3>1. CASE UNCHANGED scheduler
      BY <2>1, <3>1 DEF TypeOK, Timed
    <3>2. CASE Schedule(<<"stall", r>>)
      BY <1>0, <2>1, <3>2, ScheduleFacts
    <3>3. CASE Unschedule(JobsOf(r))
      BY <2>1, <3>3, UnscheduleFacts
    <3> QED BY <1>2, <3>1, <3>2, <3>3
  <2> QED BY <1>0, <1>2, <2>1, <2>2, BaseFacts DEF TypeOK
<1>3. \A e \in Entries \cup {Absent} :
        LET i == [index EXCEPT ![r] = e]
        IN  i \in [Runs -> Entries \cup {Absent}] /\ \A q \in Runs : q # r => i[q] = index[q]
  BY DEF TypeOK
<1>4. index \in [Runs -> Entries \cup {Absent}] /\ work \in [Runs -> [WorkNames -> WorkStates]]
  BY DEF TypeOK
<1>5. <<>> \in OneEvent /\ <<Event("flow.completed")>> \in OneEvent /\ <<Event("flow.failed")>> \in OneEvent
      /\ <<Event("step.failed")>> \in OneEvent
  BY DEF OneEvent
<1>6. CASE OnFlowStart(r)
  <2>1. [status |-> "running", wait |-> "none", bare |-> "none"] \in Entries
    BY DEF Entries, Statuses
  <2> QED BY <1>2, <1>3, <1>4, <1>5, <1>6, <2>1 DEF OnFlowStart
<1>7. CASE OnFlowCancel(r)
  <2>1. [index[r] EXCEPT !.status = "canceled"] \in Entries
    BY <1>0, EntryFacts
  <2>2. index' = index \/ index' = [index EXCEPT ![r] = [index[r] EXCEPT !.status = "canceled"]]
    BY <1>7 DEF OnFlowCancel
  <2> QED BY <1>2, <1>3, <1>4, <1>5, <1>7, <2>1, <2>2 DEF OnFlowCancel
<1>8. CASE OnTerminal(r) \/ OnStarted(r)
  BY <1>2, <1>4, <1>5, <1>8 DEF OnTerminal, OnStarted
<1>9. CASE OnFinished(r)
  <2>1. [index[r] EXCEPT !.status = Verdict(r)] \in Entries
    BY <1>0, EntryFacts, VerdictFacts
  <2>2. index' = index \/ index' = [index EXCEPT ![r] = [index[r] EXCEPT !.status = Verdict(r)]]
    BY <1>9 DEF OnFinished
  <2>3. index' \in [Runs -> Entries \cup {Absent}] /\ \A q \in Runs : q # r => index'[q] = index[q]
    BY <1>3, <1>4, <2>1, <2>2
  <2>4. \E ws \in SUBSET WorkNames : Enqueue(r, ws)
    BY <1>9, PendingFacts DEF OnFinished
  <2>5. work' \in [Runs -> [WorkNames -> WorkStates]] /\ \A q \in Runs : q # r => work'[q] = work[q]
    BY <2>4, EnqueueFacts
  <2>6. \E pub \in OneEvent : Handle(r, FinishTypes, pub)
    BY <1>5, <1>9 DEF OnFinished
  <2>7. Schedule(<<"stall", r>>)
    BY <1>9 DEF OnFinished
  <2> QED BY <1>2, <2>3, <2>5, <2>6, <2>7
<1>10. CASE OnAwaitRegistered(r)
  <2>1. index[r] # Absent => [index[r] EXCEPT !.status = "awaiting", !.wait = "awaiting"] \in Entries
    BY <1>0, EntryFacts
  <2>2. index' = index \/ (index[r] # Absent /\
          index' = [index EXCEPT ![r] = [index[r] EXCEPT !.status = "awaiting", !.wait = "awaiting"]])
    <3>1. Open(r) => index[r] # Absent
      BY <1>0, EntryFacts DEF Open
    <3> QED BY <1>4, <1>10, <3>1 DEF OnAwaitRegistered
  <2>3. index' \in [Runs -> Entries \cup {Absent}] /\ \A q \in Runs : q # r => index'[q] = index[q]
    BY <1>3, <1>4, <2>1, <2>2
  <2> QED BY <1>2, <1>4, <1>5, <1>10, <2>3 DEF OnAwaitRegistered
<1>11. CASE OnAwaitResolved(r)
  <2>1. index[r] # Absent => [index[r] EXCEPT !.wait = "resolved"] \in Entries
    BY <1>0, EntryFacts
  <2>2. index' = index \/ (index[r] # Absent /\
          index' = [index EXCEPT ![r] = [index[r] EXCEPT !.wait = "resolved"]])
    <3>1. Open(r) => index[r] # Absent
      BY <1>0, EntryFacts DEF Open
    <3> QED BY <1>4, <1>11, <3>1 DEF OnAwaitResolved
  <2>3. index' \in [Runs -> Entries \cup {Absent}] /\ \A q \in Runs : q # r => index'[q] = index[q]
    BY <1>3, <1>4, <2>1, <2>2
  <2>4. work' = work \/ \E ws \in SUBSET WorkNames : Enqueue(r, ws)
    BY <1>11, PendingFacts DEF OnAwaitResolved
  <2>5. work' \in [Runs -> [WorkNames -> WorkStates]] /\ \A q \in Runs : q # r => work'[q] = work[q]
    BY <1>4, <2>4, EnqueueFacts
  <2> QED BY <1>2, <1>5, <1>11, <2>3, <2>5 DEF OnAwaitResolved
<1>12. CASE OnAwaitTimeout(r)
  <2>0. index[r] # Absent => \A b \in {"resolved", "timeout"} : [index[r] EXCEPT !.bare = b] \in Entries
    BY <1>0, EntryFacts
  <2>1. PICK e : /\ index' = [index EXCEPT ![r] = e]
                 /\ \/ e = [index[r] EXCEPT !.bare = index[r].bare]
                    \/ index[r] # Absent /\ \E b \in {"resolved", "timeout"} : e = [index[r] EXCEPT !.bare = b]
    <3>1. index[r] = Absent => index[r].status = "absent"
      BY <1>0, EntryFacts
    <3> QED BY <1>4, <1>12, <3>1 DEF OnAwaitTimeout
  <2>2. e \in Entries \cup {Absent}
    <3>1. [index[r] EXCEPT !.bare = index[r].bare] = index[r]
      BY <1>0, EntryFacts
    <3> QED BY <1>0, <2>0, <2>1, <3>1
  <2>3. index' \in [Runs -> Entries \cup {Absent}] /\ \A q \in Runs : q # r => index'[q] = index[q]
    BY <1>3, <2>1, <2>2
  <2>4. \E pub \in OneEvent : Handle(r, {"await.timeout"}, pub)
    BY <1>5, <1>12 DEF OnAwaitTimeout
  <2> QED BY <1>2, <1>4, <1>12, <2>3, <2>4 DEF OnAwaitTimeout
<1>13. CASE UnscheduleStall(r)
  <2>1. Unschedule({<<"stall", r>>}) /\ phase' = phase
    BY <1>13 DEF UnscheduleStall
  <2>2. /\ armed' \cup firing' \cup jobs' \cup due' \subseteq Jobs /\ firing' = firing /\ Timed'
        /\ jobs' = jobs \ {<<"stall", r>>}
        /\ armed' = armed \ {<<"stall", r>>} /\ due' = due \ {<<"stall", r>>}
    BY <2>1, UnscheduleFacts
  <2> QED BY <1>0, <1>13, <2>2, BaseFacts DEF UnscheduleStall, TypeOK
<1> QED BY <1>1, <1>6, <1>7, <1>8, <1>9, <1>10, <1>11, <1>12, <1>13 DEF Wiring

LEMMA RecoverBase ==
  ASSUME TypeOK, Timed, NEW r \in Runs, Rereads(r), RecoverRun(r)
  PROVE  Base(r)
<1> USE DEF store, scheduler, awaits, bus
<1>1. /\ marking' \in [Runs -> [Markers -> Statuses \cup {"no"}]]
      /\ \A q \in Runs : q # r => marking'[q] = marking[q]
  <2>1. "recovery" \in Markers /\ (ReadStatus(r, "recovery") \/ marking' = marking)
    BY DEF RecoverRun, Markers
  <2> QED BY <2>1, ReadStatusFacts DEF TypeOK
<1>2. /\ index' \in [Runs -> Entries \cup {Absent}]
      /\ \A q \in Runs : q # r => index'[q] = index[q]
  <2>1. [index[r] EXCEPT !.status = "awaiting"] \in Entries
    <3>1. index[r] \in Entries \cup {Absent} /\ "awaiting" \in Statuses
      BY DEF TypeOK, Statuses
    <3> QED BY <3>1, EntryFacts
  <2>2. index' = index \/ index' = [index EXCEPT ![r] = [index[r] EXCEPT !.status = "awaiting"]]
    BY DEF RecoverRun
  <2> QED BY <2>1, <2>2 DEF TypeOK
<1>3. /\ DOMAIN todo' \subseteq DOMAIN todo /\ \A q \in DOMAIN todo' : todo'[q] = todo[q]
      /\ \A q \in DOMAIN todo : q # r => q \in DOMAIN todo'
  BY DEF RecoverRun
<1> QED BY <1>1, <1>2, <1>3, BaseFacts DEF RecoverRun, TypeOK, Timed

-----------------------------------------------------------------------------
(* What a step does to the invariant of its own run. *)

\* A step that publishes at most an event, and changes neither entry nor stream.
LEMMA OutsideKeeps ==
  ASSUME TypeOK, NEW r \in Runs, RunInv(r), work[r]["entry"] # "none",
         index'[r] = index[r], stream'[r] = stream[r], phase' = phase, todo' = todo,
         marking'[r] = marking[r],
         <<"stall", r>> \in firing' <=> <<"stall", r>> \in firing,
         <<"stall", r>> \in jobs' <=> <<"stall", r>> \in jobs,
         <<"wait", r>> \in jobs' => <<"wait", r>> \in jobs \/ work[r]["register"] # "none",
         work'[r]["entry"] # "none", work[r]["entry"] = "done" => work'[r]["entry"] = "done",
         work'[r]["register"] # "none" => work[r]["register"] # "none",
         NEW e \in Messages, UNCHANGED bus \/ Publish(r, e),
         e.type \notin TerminalTypes \cup {"flow.start"},
         e.type = "entry.completed" => work[r]["entry"] # "done" /\ work'[r]["entry"] = "done",
         e.type = "await.timeout" => <<"wait", r>> \in jobs,
         e.type \in WorkerTypes => phase = "up"
  PROVE  RunInv(r)'
<1>0. /\ Untouched(r) /\ StartsFirst(r) /\ EntryFirst(r) /\ HeadKept(r) /\ VerdictEnds(r)
      /\ KeptActive(r) /\ FiredInVain(r) /\ Rereads(r)
  BY DEF RunInv
<1>1. /\ \A type : type # e.type => At(r, type)' = At(r, type)
      /\ \A type : \A n \in At(r, type)' : n \in At(r, type) \/ n = Len(chain[r]) + 1
      /\ \A type : At(r, type) \subseteq At(r, type)'
      /\ persisted' = persisted /\ (Listening \/ chain'[r] = chain[r])
      /\ chain[r] # <<>> => chain'[r] # <<>> /\ Head(chain'[r]) = Head(chain[r])
  <2>1. CASE UNCHANGED bus
    BY <2>1 DEF bus, At
  <2>2. CASE Publish(r, e)
    BY <2>2, PublishFacts
  <2> QED BY <2>1, <2>2
<1>2. (Unfinished(r)' <=> Unfinished(r)) /\ (IsRunning(r)' <=> IsRunning(r))
  BY DEF Unfinished, IsRunning
<1>3. AwaitBegun(r)' => AwaitBegun(r)
  BY <1>1 DEF AwaitBegun
<1>4. Untouched(r)'
  BY DEF Untouched
<1>5. StartsFirst(r)'
  BY <1>0, <1>1 DEF StartsFirst, TerminalTypes
<1>6. EntryFirst(r)'
  <2>1. CASE e.type # "entry.completed"
    <3>1. At(r, "entry.completed")' = At(r, "entry.completed")
      BY <1>1, <2>1
    <3> QED BY <1>0, <1>1, <1>3, <3>1 DEF EntryFirst
  <2>2. CASE e.type = "entry.completed"
    <3>1. At(r, "entry.completed") = {} /\ "entry.completed" \notin stream[r] /\ ~AwaitBegun(r)
      BY <1>0, <2>2 DEF EntryFirst
    <3> QED BY <1>1, <1>3, <2>2, <3>1 DEF EntryFirst
  <2> QED BY <2>1, <2>2
<1>7. HeadKept(r)'
  BY <1>0, <1>1 DEF HeadKept
<1>8. VerdictEnds(r)'
  BY <1>0, <1>1, <1>2 DEF VerdictEnds
<1>9. KeptActive(r)' /\ FiredInVain(r)'
  BY <1>0, <1>2 DEF KeptActive, FiredInVain, Live
<1>10. Rereads(r)'
  BY <1>0, <1>1 DEF Rereads, Listening
<1> QED BY <1>4, <1>5, <1>6, <1>7, <1>8, <1>9, <1>10 DEF RunInv

\* The first event of the chain is handled.
LEMMA HandledKeeps ==
  ASSUME TypeOK, NEW r \in Runs, RunInv(r), NEW types, NEW pub \in OneEvent, Handle(r, types, pub),
         work'[r]["entry"] = work[r]["entry"],
         work'[r]["register"] # "none" => work[r]["register"] # "none" \/ "entry.completed" \in stream[r],
         index'[r] = Absent <=> index[r] = Absent /\ Head(chain[r]).type # "flow.start",
         index'[r].bare = "timeout" => index[r].bare = "timeout" \/ Head(chain[r]).type = "await.timeout",
         index'[r].wait = "awaiting" => index[r].wait = "awaiting" \/ Head(chain[r]).type = "await.registered",
         <<"wait", r>> \in jobs' => <<"wait", r>> \in jobs, firing' = firing,
         pub # <<>> /\ pub[1].type \in TerminalTypes => ~Unfinished(r),
         KeptActive(r)'
  PROVE  RunInv(r)'
<1>0. /\ Untouched(r) /\ StartsFirst(r) /\ EntryFirst(r) /\ HeadKept(r) /\ VerdictEnds(r)
      /\ FiredInVain(r) /\ Rereads(r)
  BY DEF RunInv
<1>1. pub \in Seq(Messages) /\ Len(pub) <= 1
  BY OneEventFacts
<1>2. /\ persisted' = persisted \ {r} /\ r \in persisted
      /\ chain[r] # <<>> /\ 1 \in At(r, Head(chain[r]).type)
      /\ \A type : 1 \in At(r, type) => type = Head(chain[r]).type
      /\ \A type : (pub = <<>> \/ pub[1].type # type) => \A n \in At(r, type)' : n + 1 \in At(r, type) /\ n >= 1
      /\ UNCHANGED <<config, phase, stream, stats, awaits, recovery, upsets>>
  BY <1>0, <1>1, HandleFacts
<1>3. pub # <<>> => pub[1].type \in {"flow.completed", "flow.failed", "step.failed"}
  BY DEF OneEvent, Event
<1>4. \A type : type \notin {"flow.completed", "flow.failed", "step.failed"} =>
        \A n \in At(r, type)' : n + 1 \in At(r, type) /\ n >= 1
  BY <1>2, <1>3
<1>5. (Unfinished(r)' <=> Unfinished(r)) /\ UNCHANGED <<stream, phase, todo, marking>>
  BY <1>2 DEF Unfinished, recovery
<1>6. At(r, "flow.start")' = {}
  <2>1. \A n \in At(r, "flow.start")' : n + 1 = 1 /\ n >= 1
    BY <1>0, <1>4 DEF StartsFirst
  <2>2. DOMAIN chain'[r] \subseteq Nat
    <3>1. chain'[r] \in Seq(Messages)
      BY <1>0, <1>1, HandleFacts
    <3> QED BY <3>1
  <2> QED BY <2>1, <2>2 DEF At
<1>7. /\ \A n \in At(r, "entry.completed")' : n + 1 \in At(r, "entry.completed") /\ n >= 1 /\ n \in Nat
      /\ \A type \in WorkerTypes : At(r, type) = {} => At(r, type)' = {}
      /\ At(r, "await.timeout") = {} => At(r, "await.timeout")' = {}
  <2>1. chain'[r] \in Seq(Messages)
    BY <1>0, <1>1, HandleFacts
  <2>2. \A n \in DOMAIN chain'[r] : n \in Nat
    BY <2>1
  <2>3. WorkerTypes \cap {"flow.completed", "flow.failed", "step.failed"} = {}
    BY DEF WorkerTypes, StartTypes, Steps, StartOf, CompletionOf
  <2> QED BY <1>4, <2>2, <2>3 DEF At
<1>8. phase \notin {"down", "booting"}
  BY <1>0, <1>2 DEF Rereads
<1>9. work[r]["entry"] # "none"
  BY <1>0, <1>2 DEF Untouched
<1>10. EntryFirst(r)'
  <2>1. \A m, n \in At(r, "entry.completed")' : m = n
    <3> TAKE m, n \in At(r, "entry.completed")'
    <3>1. m + 1 = n + 1 /\ m \in Nat /\ n \in Nat
      BY <1>0, <1>7 DEF EntryFirst
    <3> QED BY <3>1
  <2>2. At(r, "entry.completed") = {} => At(r, "entry.completed")' = {}
    BY <1>7
  <2>3. "entry.completed" \in stream[r] => At(r, "entry.completed")' = {}
    <3>1. CASE At(r, "entry.completed") = {}
      BY <2>2, <3>1
    <3>2. CASE 1 \in At(r, "entry.completed")
      <4>1. \A n \in At(r, "entry.completed")' : n + 1 = 1 /\ n >= 1 /\ n \in Nat
        BY <1>0, <1>7, <3>2 DEF EntryFirst
      <4> QED BY <4>1
    <3> QED BY <1>0, <3>1, <3>2 DEF EntryFirst
  <2>4. AwaitBegun(r)' => AwaitBegun(r) \/ "entry.completed" \in stream[r]
    <3>1. Head(chain[r]).type = "await.timeout" => At(r, "await.timeout") # {}
      BY <1>2
    <3> QED BY <1>7, <3>1 DEF AwaitBegun
  <2>5. AwaitBegun(r)' => At(r, "entry.completed")' = {} /\ work'[r]["entry"] = "done"
    BY <1>0, <2>2, <2>3, <2>4 DEF EntryFirst
  <2>6. At(r, "entry.completed")' # {} \/ "entry.completed" \in stream'[r] => work'[r]["entry"] = "done"
    BY <1>0, <1>5, <2>2 DEF EntryFirst
  <2> QED BY <1>5, <2>1, <2>3, <2>5, <2>6 DEF EntryFirst
<1>11. VerdictEnds(r)'
  <2> SUFFICES ASSUME NEW type \in TerminalTypes, At(r, type)' # {} PROVE ~Unfinished(r)
    BY <1>5 DEF VerdictEnds
  <2>1. CASE pub # <<>> /\ pub[1].type = type
    BY <2>1
  <2>2. CASE pub = <<>> \/ pub[1].type # type
    <3>1. At(r, type) # {}
      BY <1>2, <2>2
    <3> QED BY <1>0, <3>1 DEF VerdictEnds
  <2> QED BY <2>1, <2>2
<1>12. FiredInVain(r)'
  <2>1. Head(chain[r]).type = "flow.start" => <<"stall", r>> \notin firing
    BY <1>0, <1>2 DEF StartsFirst
  <2> QED BY <1>0, <1>5, <2>1 DEF FiredInVain, Live
<1>13. Rereads(r)'
  <2>1. phase = "recovering" => Head(chain[r]).type # "await.registered"
    BY <1>0, <1>2 DEF Rereads, WorkerTypes
  <2>2. phase = "recovering" => \A type \in WorkerTypes : At(r, type)' = {}
    BY <1>0, <1>7 DEF Rereads
  <2> QED BY <1>0, <1>5, <1>6, <1>8, <2>1, <2>2 DEF Rereads
<1>14. Untouched(r)' /\ HeadKept(r)' /\ StartsFirst(r)'
  BY <1>2, <1>6, <1>9 DEF Untouched, HeadKept, StartsFirst
<1> QED BY <1>10, <1>11, <1>12, <1>13, <1>14 DEF RunInv

LEMMA RunFacts ==
  ASSUME IInv, NEW r \in Runs
  PROVE  /\ TypeOK /\ Timed /\ RunInv(r)
         /\ Untouched(r) /\ StartsFirst(r) /\ EntryFirst(r) /\ HeadKept(r) /\ VerdictEnds(r)
         /\ KeptActive(r) /\ FiredInVain(r) /\ Rereads(r)
         /\ index[r] \in Entries \cup {Absent} /\ work[r] \in [WorkNames -> WorkStates]
         /\ chain[r] \in Seq(Messages) /\ stream[r] \in SUBSET EventTypes
BY DEF IInv, RecoveryInv, RunInv, TypeOK

LEMMA CallsKeep ==
  ASSUME IInv, NEW r \in Runs, StartFlow(r) \/ CancelFlow(r) \/ RestartFlow(r) \/ ClearHistory(r)
  PROVE  RunInv(r)'
<1> USE DEF store, scheduler, awaits, recovery
<1>0. /\ TypeOK /\ RunInv(r) /\ Untouched(r) /\ StartsFirst(r) /\ EntryFirst(r) /\ HeadKept(r)
      /\ VerdictEnds(r) /\ Rereads(r) /\ index[r] \in Entries \cup {Absent} /\ chain[r] \in Seq(Messages)
  BY RunFacts
<1>1. CASE StartFlow(r)
  <2>1. Event("flow.start") \in Messages /\ Event("flow.start").type = "flow.start"
    BY MessageFacts DEF EventTypes
  <2>2. /\ chain[r] = <<>> /\ index[r] = Absent /\ work[r]["register"] = "none" /\ r \notin persisted
        /\ JobsOf(r) \cap (jobs \cup firing) = {} /\ phase = "up" /\ phase' = phase
        /\ UNCHANGED <<index, stream, jobs, firing, marking, todo, persisted>>
    BY <1>0, <1>1 DEF StartFlow, Untouched, Publish
  <2>3. /\ \A type : type # "flow.start" => At(r, type)' = At(r, type)
        /\ \A n \in At(r, "flow.start")' : n \in At(r, "flow.start") \/ n = Len(chain[r]) + 1
    BY <1>0, <1>1, <2>1, PublishFacts DEF StartFlow
  <2>4. \A type : At(r, type) = {}
    BY <2>2 DEF At
  <2>5. work'[r]["entry"] = "waiting" /\ work'[r]["register"] = "none" /\ {"entry", "register"} \subseteq WorkNames
    BY <1>0, <1>1, <2>2, EnqueueFacts DEF StartFlow, WorkNames
  <2>6. <<"stall", r>> \notin jobs \cup firing /\ <<"wait", r>> \notin jobs
    BY <2>2, JobFacts
  <2>7. ~AwaitBegun(r)' /\ "entry.completed" \notin stream[r]
    <3>1. At(r, "await.timeout")' = {}
      BY <2>3, <2>4
    <3>2. index[r].bare # "timeout"
      BY <2>2 DEF Absent
    <3>3. work[r]["entry"] # "done"
      BY <1>1 DEF StartFlow
    <3> QED BY <1>0, <2>2, <2>5, <2>6, <3>1, <3>2, <3>3 DEF AwaitBegun, EntryFirst
  <2>8. At(r, "flow.start")' \subseteq {1}
    BY <2>2, <2>3, <2>4
  <2>9. StartsFirst(r)' /\ EntryFirst(r)' /\ VerdictEnds(r)'
    <3>1. \A type : type # "flow.start" => At(r, type)' = {}
      BY <2>3, <2>4
    <3>2. TerminalTypes = {"flow.completed", "flow.failed"}
      BY DEF TerminalTypes
    <3> QED BY <2>2, <2>5, <2>6, <2>7, <2>8, <3>1, <3>2 DEF StartsFirst, EntryFirst, VerdictEnds
  <2>10. Untouched(r)' /\ HeadKept(r)' /\ KeptActive(r)' /\ FiredInVain(r)'
    BY <2>2, <2>5, <2>6 DEF Untouched, HeadKept, KeptActive, FiredInVain, Live
  <2>11. Rereads(r)'
    BY <1>0, <2>2 DEF Rereads
  <2> QED BY <2>9, <2>10, <2>11 DEF RunInv
<1>2. CASE CancelFlow(r) \/ RestartFlow(r)
  <2>1. index[r].status \in Statuses \cup {"absent"}
    BY <1>0, EntryFacts
  <2> DEFINE e == Cancellation(index[r].status)
  <2>2. e \in Messages /\ e.type = "flow.cancel"
    BY <2>1, MessageFacts
  <2>3. work[r]["entry"] # "none"
    BY <1>0, <1>2 DEF CancelFlow, RestartFlow, Call, Untouched
  <2>4. UNCHANGED bus \/ Publish(r, e)
    BY <1>2 DEF CancelFlow, RestartFlow
  <2>5. UNCHANGED <<index, stream, phase, todo, marking, firing, jobs, work>>
    BY <1>2 DEF CancelFlow, RestartFlow
  <2> HIDE DEF e
  <2>6. "flow.cancel" \notin TerminalTypes \cup WorkerTypes \cup {"flow.start"}
    BY DEF TerminalTypes, WorkerTypes, StartTypes, Steps, StartOf, CompletionOf
  <2> QED BY <1>0, <2>2, <2>3, <2>4, <2>5, <2>6, OutsideKeeps
<1>3. CASE ClearHistory(r)
  <2>1. /\ phase = "up" /\ index[r] # Absent /\ index'[r] = Absent /\ stream'[r] = {}
        /\ UNCHANGED <<phase, work, jobs, firing, marking, todo, chain, persisted>>
    BY <1>3 DEF ClearHistory, Call, TypeOK, IInv, bus
  <2>2. \A type : At(r, type)' = At(r, type)
    BY <2>1 DEF At
  <2>3. ~Unfinished(r)' /\ (AwaitBegun(r)' => AwaitBegun(r)) /\ work[r]["entry"] # "none"
    BY <1>0, <2>1, <2>2 DEF Unfinished, AwaitBegun, Absent, Untouched
  <2>4. Untouched(r)' /\ HeadKept(r)' /\ VerdictEnds(r)' /\ KeptActive(r)' /\ FiredInVain(r)'
    BY <1>0, <2>1, <2>3 DEF Untouched, HeadKept, VerdictEnds, KeptActive, FiredInVain, Live
  <2>5. StartsFirst(r)' /\ EntryFirst(r)' /\ Rereads(r)'
    BY <1>0, <2>1, <2>2, <2>3 DEF StartsFirst, EntryFirst, Rereads
  <2> QED BY <2>4, <2>5 DEF RunInv
<1> QED BY <1>1, <1>2, <1>3

LEMMA WorkerKeeps ==
  ASSUME IInv, NEW r \in Runs, Worker(r)
  PROVE  RunInv(r)'
<1> USE DEF store, awaits, recovery
<1>0. /\ TypeOK /\ RunInv(r) /\ Untouched(r) /\ work[r] \in [WorkNames -> WorkStates]
      /\ Steps = {"entry", "step"} /\ WorkNames = {"entry", "register", "step"}
      /\ {"waiting", "active", "done"} \subseteq WorkStates
      /\ TerminalTypes = {"flow.completed", "flow.failed"}
  BY RunFacts DEF Steps, WorkNames, WorkStates, TerminalTypes
<1>1. ASSUME NEW w \in Steps, StartStep(r, w) PROVE RunInv(r)'
  <2>1. Take(r, w, "waiting", "active") /\ Publish(r, Event(StartOf[w]))
        /\ UNCHANGED <<index, stream, phase, todo, marking, firing, jobs>>
    BY <1>1 DEF StartStep, scheduler
  <2>2. /\ phase = "up" /\ work[r][w] = "waiting"
        /\ \A v \in WorkNames : work'[r][v] = IF v = w THEN "active" ELSE work[r][v]
    BY <1>0, <2>1, TakeFacts
  <2>3. /\ Event(StartOf[w]) \in Messages
        /\ Event(StartOf[w]).type \in {"entry.started", "step.started"}
    BY <1>0, MessageFacts DEF StartOf, EventTypes
  <2> DEFINE e == Event(StartOf[w])
  <2> HIDE DEF e
  <2>4. /\ work[r]["entry"] # "none" /\ work'[r]["entry"] # "none"
        /\ work[r]["entry"] = "done" => work'[r]["entry"] = "done"
        /\ work'[r]["register"] # "none" => work[r]["register"] # "none"
    BY <1>0, <2>2 DEF Untouched
  <2>5. Publish(r, e) /\ e \in Messages /\ e.type \in {"entry.started", "step.started"}
    BY <2>1, <2>3 DEF e
  <2> QED BY <1>0, <2>1, <2>2, <2>4, <2>5, OutsideKeeps
<1>2. ASSUME NEW w \in Steps, CompleteStep(r, w) PROVE RunInv(r)'
  <2>1. Take(r, w, "active", "done") /\ Publish(r, Event(CompletionOf[w]))
        /\ UNCHANGED <<index, stream, phase, todo, marking, firing, jobs>>
    BY <1>2 DEF CompleteStep, scheduler
  <2>2. /\ phase = "up" /\ work[r][w] = "active"
        /\ \A v \in WorkNames : work'[r][v] = IF v = w THEN "done" ELSE work[r][v]
    BY <1>0, <2>1, TakeFacts
  <2> DEFINE e == Event(CompletionOf[w])
  <2>3. /\ e \in Messages /\ Publish(r, e)
        /\ w = "entry" => e.type = "entry.completed"
        /\ w = "step" => e.type = "step.completed"
    BY <1>0, <2>1, MessageFacts DEF CompletionOf, EventTypes, FinishTypes
  <2> HIDE DEF e
  <2>4. /\ work[r]["entry"] # "none" /\ work'[r]["entry"] # "none"
        /\ work[r]["entry"] = "done" => work'[r]["entry"] = "done"
        /\ work'[r]["register"] # "none" => work[r]["register"] # "none"
        /\ w = "entry" => work[r]["entry"] # "done" /\ work'[r]["entry"] = "done"
    BY <1>0, <2>2 DEF Untouched
  <2> QED BY <1>0, <2>1, <2>2, <2>3, <2>4, OutsideKeeps
<1>3. ASSUME NEW from \in WorkStates \ {"none"}, NEW to \in WorkStates, Take(r, "register", from, to)
      PROVE  /\ work[r]["entry"] # "none" /\ work'[r]["entry"] = work[r]["entry"]
             /\ work[r]["register"] # "none" /\ phase = "up"
  BY <1>0, <1>3, TakeFacts DEF Untouched
<1>4. ASSUME NEW type \in EventTypes
      PROVE  Event(type) \in Messages /\ Event(type).type = type
  BY MessageFacts
<1>5. "await.registered" \in EventTypes
  BY DEF EventTypes
<1>6. CASE AnnounceWait(r) \/ SubscribeWait(r)
  <2> DEFINE e == Event("await.registered")
  <2>1. /\ \E from \in WorkStates \ {"none"}, to \in WorkStates : Take(r, "register", from, to)
        /\ Publish(r, e) /\ UNCHANGED <<index, stream, phase, todo, marking, firing, jobs>>
    BY <1>0, <1>6 DEF AnnounceWait, SubscribeWait, scheduler
  <2>2. e \in Messages /\ e.type = "await.registered"
    BY <1>4, <1>5
  <2> HIDE DEF e
  <2>3. /\ work[r]["entry"] # "none" /\ work'[r]["entry"] = work[r]["entry"]
        /\ work[r]["register"] # "none" /\ phase = "up"
    BY <1>3, <2>1
  <2> QED BY <1>0, <2>1, <2>2, <2>3, OutsideKeeps
<1>7. CASE ScheduleWait(r) \/ ScheduleTimeout(r)
  <2> DEFINE e == Event("flow.cancel")
  <2>1. /\ \E from \in WorkStates \ {"none"}, to \in WorkStates : Take(r, "register", from, to)
        /\ Schedule(<<"wait", r>>) /\ UNCHANGED <<index, stream, phase, todo, marking>> /\ UNCHANGED bus
    BY <1>0, <1>7 DEF ScheduleWait, ScheduleTimeout
  <2>2. e \in Messages /\ e.type = "flow.cancel"
    BY MessageFacts DEF EventTypes
  <2> HIDE DEF e
  <2>3. /\ work[r]["entry"] # "none" /\ work'[r]["entry"] = work[r]["entry"]
        /\ work[r]["register"] # "none" /\ phase = "up"
    BY <1>3, <2>1
  <2>4. firing' = firing /\ jobs' = jobs \cup {<<"wait", r>>} /\ <<"wait", r>> # <<"stall", r>>
    BY <1>0, <2>1, JobFacts, ScheduleFacts
  <2> QED BY <1>0, <2>1, <2>2, <2>3, <2>4, OutsideKeeps
<1> QED BY <1>1, <1>2, <1>6, <1>7 DEF Worker

LEMMA TimersKeep ==
  ASSUME IInv, NEW r \in Runs,
         \/ Timers(r) \/ EventArrives(r) \/ ResolveEventAwait(r)
         \/ \E j \in JobsOf(r) : FinishJob(j) \/ Elapse(j)
  PROVE  RunInv(r)'
<1> USE DEF store, awaits, recovery
<1>0. /\ TypeOK /\ Timed /\ RunInv(r) /\ Untouched(r) /\ StartsFirst(r) /\ EntryFirst(r) /\ HeadKept(r)
      /\ VerdictEnds(r) /\ KeptActive(r) /\ FiredInVain(r) /\ Rereads(r)
      /\ index[r] \in Entries \cup {Absent} /\ work[r] \in [WorkNames -> WorkStates]
      /\ TerminalTypes = {"flow.completed", "flow.failed"}
  BY RunFacts DEF TerminalTypes
<1>1. /\ <<"wait", r>> \in JobsOf(r) /\ <<"stall", r>> \in JobsOf(r) /\ <<"wait", r>> # <<"stall", r>>
      /\ JobsOf(r) = {<<"stall", r>>, <<"wait", r>>}
      /\ {"await.resolved", "await.timeout", "flow.cancel"} \cap WorkerTypes = {}
  BY JobFacts DEF WorkerTypes, StartTypes, Steps, StartOf, CompletionOf
<1>2. ASSUME NEW type \in {"await.resolved", "await.timeout", "flow.cancel"}
      PROVE  Event(type) \in Messages /\ Event(type).type = type
  BY MessageFacts DEF EventTypes
<1>3. CASE EventArrives(r)
  <2> DEFINE e == Event("flow.cancel")
  <2>1. UNCHANGED <<index, stream, phase, todo, marking, firing, jobs, work>> /\ UNCHANGED bus /\ r \in subs
    BY <1>3 DEF EventArrives, scheduler
  <2>2. e \in Messages /\ e.type = "flow.cancel" /\ work[r]["entry"] # "none"
    BY <1>0, <1>2, <2>1 DEF Untouched
  <2> HIDE DEF e
  <2> QED BY <1>0, <1>1, <2>1, <2>2, OutsideKeeps
<1>4. CASE ResolveEventAwait(r)
  <2> DEFINE e == Event("await.resolved")
  <2>1. /\ UNCHANGED <<index, stream, phase, todo, marking, work>> /\ Publish(r, e)
        /\ Unschedule({<<"wait", r>>}) /\ resolving[r] > 0
    BY <1>4 DEF ResolveEventAwait
  <2>2. e \in Messages /\ e.type = "await.resolved" /\ work[r]["entry"] # "none"
    BY <1>0, <1>2, <2>1 DEF Untouched
  <2>3. firing' = firing /\ jobs' = jobs \ {<<"wait", r>>}
    BY <1>0, <2>1, UnscheduleFacts
  <2> HIDE DEF e
  <2> QED BY <1>0, <1>1, <2>1, <2>2, <2>3, OutsideKeeps
<1>5. CASE WaitFires(r)
  <2> DEFINE e == Event(IF config.kind = "event" THEN "await.timeout" ELSE "await.resolved")
  <2>1. /\ UNCHANGED <<index, stream, phase, todo, marking, work>> /\ Publish(r, e)
        /\ Fire(<<"wait", r>>)
    BY <1>5 DEF WaitFires
  <2>2. firing' = firing \cup {<<"wait", r>>} /\ jobs' = jobs /\ <<"wait", r>> \in jobs
    BY <1>0, <1>1, <2>1, FireFacts DEF Timed
  <2>3. e \in Messages /\ e.type \in {"await.resolved", "await.timeout"} /\ work[r]["entry"] # "none"
    BY <1>0, <1>1, <1>2, <2>2 DEF Untouched
  <2> HIDE DEF e
  <2> QED BY <1>0, <1>1, <2>1, <2>2, <2>3, OutsideKeeps
<1>6. CASE StallFires(r)
  <2>1. /\ UNCHANGED <<index, stream, phase, todo, work>> /\ UNCHANGED bus
        /\ ReadStatus(r, "timer") /\ Fire(<<"stall", r>>)
    BY <1>6 DEF StallFires
  <2>2. firing' = firing \cup {<<"stall", r>>} /\ jobs' = jobs /\ <<"stall", r>> \in jobs
    BY <1>0, <1>1, <2>1, FireFacts DEF Timed
  <2>3. marking'[r]["timer"] = "no" => ~IsRunning(r)
    BY <1>0, <2>1, ReadStatusFacts DEF Markers
  <2>4. (\A type : At(r, type)' = At(r, type)) /\ (AwaitBegun(r)' <=> AwaitBegun(r))
        /\ (Unfinished(r)' <=> Unfinished(r)) /\ (IsRunning(r)' <=> IsRunning(r)) /\ UNCHANGED <<chain, persisted>>
    BY <2>1, <2>2 DEF At, AwaitBegun, Unfinished, IsRunning, bus
  <2>5. work[r]["entry"] # "none" /\ At(r, "flow.start") = {}
    BY <1>0, <1>1, <2>2 DEF Untouched, StartsFirst
  <2>6. FiredInVain(r)'
    BY <1>0, <2>1, <2>3, <2>4 DEF FiredInVain, KeptActive, Live
  <2>7. Untouched(r)' /\ StartsFirst(r)' /\ EntryFirst(r)' /\ HeadKept(r)'
    BY <1>0, <2>1, <2>4, <2>5 DEF Untouched, StartsFirst, EntryFirst, HeadKept
  <2>8. VerdictEnds(r)' /\ KeptActive(r)' /\ Rereads(r)'
    BY <1>0, <2>1, <2>2, <2>4 DEF VerdictEnds, KeptActive, Live, Rereads
  <2> QED BY <2>6, <2>7, <2>8 DEF RunInv
<1>7. ASSUME NEW m \in Markers, MarkAsStalled(r, m) PROVE RunInv(r)'
  <2>1. UNCHANGED <<phase, todo, work, chain, persisted, jobs, firing, subs, resolving>>
    BY <1>7 DEF MarkAsStalled, scheduler, bus
  <2>2. \A type : At(r, type)' = At(r, type)
    BY <2>1 DEF At
  <2>3. CASE index[r] = Absent
    <3>1. UNCHANGED <<index, stream>>
      BY <1>7, <2>3 DEF MarkAsStalled
    <3>2. (AwaitBegun(r)' <=> AwaitBegun(r)) /\ (Unfinished(r)' <=> Unfinished(r)) /\ (IsRunning(r)' <=> IsRunning(r))
      BY <2>1, <2>2, <3>1 DEF AwaitBegun, Unfinished, IsRunning
    <3>3. FiredInVain(r)' /\ KeptActive(r)'
      BY <2>3, <3>1 DEF FiredInVain, KeptActive, Live
    <3>4. Untouched(r)' /\ StartsFirst(r)' /\ EntryFirst(r)'
      BY <1>0, <2>1, <2>2, <3>1, <3>2 DEF Untouched, StartsFirst, EntryFirst
    <3>5. HeadKept(r)' /\ VerdictEnds(r)' /\ Rereads(r)'
      BY <1>0, <2>1, <2>2, <3>1, <3>2 DEF HeadKept, VerdictEnds, Rereads
    <3> QED BY <3>3, <3>4, <3>5 DEF RunInv
  <2>4. CASE index[r] # Absent
    <3>1. /\ index'[r] = [index[r] EXCEPT !.status = "stalled"]
          /\ stream'[r] = stream[r] \cup {"flow.stalled"} \cup {StallOf[x] : x \in StalledSteps(r)}
      BY <1>0, <1>7, <2>4 DEF MarkAsStalled, TypeOK
    <3>2. index'[r] # Absent /\ index'[r].bare = index[r].bare /\ index'[r].wait = index[r].wait
      <4>1. LET n == [index[r] EXCEPT !.status = "stalled"]
            IN  n # Absent /\ n.bare = index[r].bare /\ n.wait = index[r].wait
        <5>1. "stalled" \in Statuses
          BY DEF Statuses
        <5> QED BY <1>0, <5>1, StatusFacts
      <4> QED BY <3>1, <4>1
    <3>3. \A x \in StalledSteps(r) : StallOf[x] \in {"entry.stalled", "step.stalled"}
      BY DEF StalledSteps, Steps, StallOf
    <3>4. /\ stream[r] \subseteq stream'[r] /\ "flow.stalled" \in stream'[r]
          /\ "entry.completed" \in stream'[r] => "entry.completed" \in stream[r]
          /\ "flow.start" \in stream'[r] => "flow.start" \in stream[r]
      BY <3>1, <3>3
    <3>5. ~Unfinished(r)' /\ (AwaitBegun(r)' <=> AwaitBegun(r))
      BY <2>1, <2>2, <3>2, <3>4 DEF Unfinished, AwaitBegun
    <3>6. work[r]["entry"] # "none" /\ At(r, "flow.start") = {}
      BY <1>0, <2>4 DEF Untouched, StartsFirst
    <3>7. Untouched(r)' /\ StartsFirst(r)' /\ EntryFirst(r)'
      BY <1>0, <2>1, <2>2, <3>4, <3>5, <3>6 DEF Untouched, StartsFirst, EntryFirst
    <3>8. HeadKept(r)' /\ VerdictEnds(r)' /\ KeptActive(r)' /\ FiredInVain(r)' /\ Rereads(r)'
      BY <1>0, <2>1, <2>2, <3>2, <3>4, <3>5 DEF HeadKept, VerdictEnds, KeptActive, FiredInVain, Live, Rereads
    <3> QED BY <3>7, <3>8 DEF RunInv
  <2> QED BY <2>3, <2>4
<1>8. ASSUME NEW j \in JobsOf(r), FinishJob(j) PROVE RunInv(r)'
  <2>1. /\ UNCHANGED <<phase, todo, work, chain, persisted, marking, index, stream, subs, resolving>>
        /\ jobs' = jobs \ {j} /\ firing' = firing \ {j} /\ j \in firing
        /\ j = <<"stall", r>> => marking[r]["timer"] = "no"
    BY <1>8 DEF FinishJob, bus
  <2>2. (\A type : At(r, type)' = At(r, type)) /\ (AwaitBegun(r)' => AwaitBegun(r))
        /\ (Unfinished(r)' <=> Unfinished(r)) /\ (IsRunning(r)' <=> IsRunning(r))
    BY <2>1 DEF At, AwaitBegun, Unfinished, IsRunning
  <2>3. KeptActive(r)' /\ FiredInVain(r)'
    BY <1>0, <2>1, <2>2 DEF KeptActive, FiredInVain, Live
  <2>4. Untouched(r)' /\ StartsFirst(r)' /\ EntryFirst(r)'
    BY <1>0, <2>1, <2>2 DEF Untouched, StartsFirst, EntryFirst
  <2>5. HeadKept(r)' /\ VerdictEnds(r)' /\ Rereads(r)'
    BY <1>0, <2>1, <2>2 DEF HeadKept, VerdictEnds, Rereads
  <2> QED BY <2>3, <2>4, <2>5 DEF RunInv
<1>9. ASSUME NEW j \in JobsOf(r), Elapse(j) PROVE RunInv(r)'
  <2> DEFINE e == Event("flow.cancel")
  <2>1. UNCHANGED <<index, stream, phase, todo, marking, firing, jobs, work>> /\ UNCHANGED bus
        /\ j \in jobs
    BY <1>9 DEF Elapse
  <2>2. e \in Messages /\ e.type = "flow.cancel" /\ work[r]["entry"] # "none"
    BY <1>0, <1>2, <2>1 DEF Untouched
  <2> HIDE DEF e
  <2> QED BY <1>0, <1>1, <2>1, <2>2, OutsideKeeps
<1> QED BY <1>3, <1>4, <1>5, <1>6, <1>7, <1>8, <1>9 DEF Timers

LEMMA PersistKeeps ==
  ASSUME IInv, NEW r \in Runs, Persist(r)
  PROVE  RunInv(r)'
<1> DEFINE t == Head(chain[r]).type
<1>0. /\ TypeOK /\ Untouched(r) /\ StartsFirst(r) /\ EntryFirst(r)
      /\ VerdictEnds(r) /\ KeptActive(r) /\ FiredInVain(r) /\ Rereads(r) /\ chain[r] \in Seq(Messages)
  BY RunFacts
<1>1. /\ chain[r] # <<>> /\ r \notin persisted /\ persisted' = persisted \cup {r}
      /\ stream'[r] = stream[r] \cup {t}
      /\ UNCHANGED <<phase, index, work, chain, jobs, firing, subs, resolving, marking, todo>>
  BY <1>0 DEF Persist, TypeOK, scheduler, awaits, recovery
<1>2. 1 \in At(r, t)
  BY <1>0, <1>1 DEF At
<1> HIDE DEF t
<1>3. (\A type : At(r, type)' = At(r, type)) /\ (AwaitBegun(r)' <=> AwaitBegun(r)) /\ (IsRunning(r)' <=> IsRunning(r))
  BY <1>1 DEF At, AwaitBegun, IsRunning
<1>4. work[r]["entry"] # "none"
  BY <1>0, <1>1 DEF Untouched
<1>5. t # "flow.start" => (Unfinished(r)' => Unfinished(r))
  BY <1>1 DEF Unfinished
<1>6. t = "flow.start" => index[r] = Absent /\ \A type \in TerminalTypes : At(r, type) = {}
  BY <1>0, <1>2 DEF StartsFirst
<1>7. Untouched(r)' /\ StartsFirst(r)' /\ Rereads(r)'
  BY <1>0, <1>1, <1>3, <1>4 DEF Untouched, StartsFirst, Rereads
<1>8. EntryFirst(r)'
  <2>1. CASE t = "entry.completed"
    BY <1>0, <1>1, <1>2, <1>3, <2>1 DEF EntryFirst
  <2>2. CASE t # "entry.completed"
    BY <1>0, <1>1, <1>3, <2>2 DEF EntryFirst
  <2> QED BY <2>1, <2>2
<1>9. HeadKept(r)'
  BY <1>1 DEF HeadKept, t
<1>10. VerdictEnds(r)' /\ KeptActive(r)' /\ FiredInVain(r)'
  BY <1>0, <1>1, <1>3, <1>5, <1>6 DEF VerdictEnds, KeptActive, FiredInVain, Live
<1> QED BY <1>7, <1>8, <1>9, <1>10 DEF RunInv

\* A run that wiring gives a verdict is not unfinished.
LEMMA VerdictIsLate ==
  ASSUME IInv, NEW r \in Runs, r \in persisted, Head(chain[r]).type \in FinishTypes,
         Verdict(r) \in {"completed", "failed", "canceled"}
  PROVE  ~Unfinished(r)
<1>0. HeadKept(r) /\ EntryFirst(r) /\ chain[r] \in Seq(Messages)
  BY RunFacts
<1>1. chain[r] # <<>> /\ (Head(chain[r]).type \in stream[r] \/ "flow.start" \notin stream[r])
  BY <1>0 DEF HeadKept
<1>2. 1 \in At(r, Head(chain[r]).type)
  BY <1>0, <1>1 DEF At
<1>3. CASE index[r].bare = "timeout"
  <2>1. Head(chain[r]).type # "entry.completed"
    BY <1>0, <1>2, <1>3 DEF EntryFirst, AwaitBegun
  <2> QED BY <1>1, <2>1 DEF FinishTypes, Unfinished, EndsOf
<1>4. CASE index[r].bare # "timeout"
  BY <1>4, VerdictFacts DEF Unfinished, EndsOf
<1> QED BY <1>3, <1>4

LEMMA WiringKeeps ==
  ASSUME IInv, NEW r \in Runs, Wiring(r)
  PROVE  RunInv(r)'
<1>0. /\ TypeOK /\ Timed /\ RunInv(r) /\ HeadKept(r) /\ VerdictEnds(r) /\ KeptActive(r)
      /\ index[r] \in Entries \cup {Absent} /\ chain[r] \in Seq(Messages)
      /\ index \in [Runs -> Entries \cup {Absent}] /\ work[r] \in [WorkNames -> WorkStates]
  BY RunFacts DEF TypeOK
<1>1. CASE Persist(r)
  BY <1>1, PersistKeeps
<1>2. ASSUME NEW types, NEW pub \in OneEvent, Handle(r, types, pub)
      PROVE  /\ r \in persisted /\ stream' = stream /\ chain[r] # <<>> /\ Head(chain[r]).type \in types
             /\ 1 \in At(r, Head(chain[r]).type) /\ (Unfinished(r)' <=> Unfinished(r))
             /\ Head(chain[r]).type \in stream[r] \/ "flow.start" \notin stream[r]
  <2>1. /\ r \in persisted /\ stream' = stream /\ chain[r] # <<>> /\ Head(chain[r]).type \in types
        /\ 1 \in At(r, Head(chain[r]).type)
    BY <1>0, <1>2, OneEventFacts, HandleFacts
  <2> QED BY <1>0, <2>1 DEF HeadKept, Unfinished
<1>3. <<>> \in OneEvent /\ <<Event("flow.completed")>> \in OneEvent /\ <<Event("flow.failed")>> \in OneEvent
      /\ <<Event("step.failed")>> \in OneEvent
  BY DEF OneEvent
<1>4. <<"stall", r>> \in JobsOf(r) /\ <<"wait", r>> \in JobsOf(r) /\ <<"wait", r>> # <<"stall", r>>
  BY JobFacts
<1>5. Schedule(<<"stall", r>>) => firing' = firing /\ jobs' = jobs \cup {<<"stall", r>>}
  BY <1>0, <1>4, ScheduleFacts
<1>6. Unschedule(JobsOf(r)) => firing' = firing /\ jobs' = jobs \ JobsOf(r)
  BY <1>0, UnscheduleFacts
<1>7. UNCHANGED scheduler => firing' = firing /\ jobs' = jobs
  BY DEF scheduler
<1>8. CASE OnFlowStart(r)
  <2>1. Handle(r, {"flow.start"}, <<>>) /\ Schedule(<<"stall", r>>) /\ work' = work
        /\ index'[r] = [status |-> "running", wait |-> "none", bare |-> "none"]
    BY <1>0, <1>8 DEF OnFlowStart
  <2>2. /\ index'[r].status = "running" /\ index'[r].bare = "none" /\ index'[r].wait = "none" /\ index'[r] # Absent
        /\ Head(chain[r]).type = "flow.start"
    BY <1>2, <1>3, <2>1 DEF Absent
  <2>3. KeptActive(r)'
    BY <1>5, <2>1, <2>2 DEF KeptActive, Live, IsRunning, ActiveStatuses
  <2> QED BY <1>0, <1>3, <1>4, <1>5, <2>1, <2>2, <2>3, HandledKeeps
<1>9. CASE OnFlowCancel(r)
  <2>1. Handle(r, {"flow.cancel"}, <<>>) /\ work' = work
    BY <1>9 DEF OnFlowCancel
  <2>2. Head(chain[r]).type = "flow.cancel" /\ ~Unfinished(r)'
    BY <1>2, <1>3, <2>1 DEF Unfinished
  <2>3. /\ (index'[r] = Absent <=> index[r] = Absent) /\ index'[r].bare = index[r].bare
        /\ index'[r].wait = index[r].wait
    <3>1. index' = index \/ (index[r] # Absent /\ index'[r] = [index[r] EXCEPT !.status = "canceled"])
      BY <1>0, <1>9 DEF OnFlowCancel
    <3>2. LET n == [index[r] EXCEPT !.status = "canceled"]
          IN  n # Absent /\ n.bare = index[r].bare /\ n.wait = index[r].wait
      <4>1. "canceled" \in Statuses
        BY DEF Statuses
      <4> QED BY <1>0, <4>1, StatusFacts
    <3> QED BY <3>1, <3>2
  <2>4. firing' = firing /\ jobs' \subseteq jobs
    BY <1>6, <1>7, <1>9 DEF OnFlowCancel, scheduler
  <2>5. KeptActive(r)'
    BY <2>2 DEF KeptActive, Live
  <2> QED BY <1>0, <1>3, <2>1, <2>2, <2>3, <2>4, <2>5, HandledKeeps
<1>10. CASE OnTerminal(r)
  <2>1. Handle(r, TerminalTypes, <<>>) /\ work' = work /\ index' = index /\ Unschedule(JobsOf(r))
    BY <1>10 DEF OnTerminal
  <2>2. Head(chain[r]).type \in TerminalTypes /\ ~Unfinished(r)'
    BY <1>0, <1>2, <1>3, <2>1 DEF VerdictEnds
  <2>3. KeptActive(r)' /\ Head(chain[r]).type \notin {"flow.start", "await.timeout", "await.registered"}
    BY <2>2 DEF KeptActive, Live, TerminalTypes
  <2> QED BY <1>0, <1>3, <1>6, <2>1, <2>3, HandledKeeps
<1>11. CASE OnStarted(r)
  <2>1. Handle(r, StartTypes, <<>>) /\ work' = work /\ index' = index /\ Schedule(<<"stall", r>>)
    BY <1>11 DEF OnStarted
  <2>2. Head(chain[r]).type \in {"entry.started", "step.started"} /\ (Unfinished(r)' <=> Unfinished(r))
    BY <1>2, <1>3, <2>1 DEF StartTypes, Steps, StartOf
  <2>3. KeptActive(r)'
    BY <1>0, <1>5, <2>1, <2>2 DEF KeptActive, Live, IsRunning
  <2> QED BY <1>0, <1>3, <1>4, <1>5, <2>1, <2>2, <2>3, HandledKeeps
<1>12. CASE OnFinished(r)
  <2> DEFINE pub == IF Publishes(r) THEN <<Event(IF Verdict(r) = "completed" THEN "flow.completed"
                                           ELSE "flow.failed")>> ELSE <<>>
  <2>1. Handle(r, FinishTypes, pub) /\ Schedule(<<"stall", r>>)
        /\ \E ws : Enqueue(r, ws) /\ (ws = {} \/ ws = Pending(r, index[r].wait))
        /\ index'[r] = IF Open(r) THEN [index[r] EXCEPT !.status = Verdict(r)] ELSE index[r]
    BY <1>0, <1>12 DEF OnFinished
  <2>2. pub \in OneEvent /\ (pub # <<>> => Publishes(r))
    BY <1>3
  <2> HIDE DEF pub
  <2>3. r \in persisted /\ Head(chain[r]).type \in FinishTypes /\ (Unfinished(r)' <=> Unfinished(r))
    BY <1>2, <2>1, <2>2
  <2>4. Verdict(r) \in {"completed", "failed", "canceled"} => ~Unfinished(r)
    BY <2>3, VerdictIsLate
  <2>5. /\ (index'[r] = Absent <=> index[r] = Absent) /\ index'[r].bare = index[r].bare
        /\ index'[r].wait = index[r].wait
        /\ index'[r].status = IF Open(r) THEN Verdict(r) ELSE index[r].status
    <3>1. Open(r) => index[r] # Absent
      BY <1>0, EntryFacts DEF Open
    <3>2. LET n == [index[r] EXCEPT !.status = Verdict(r)]
          IN  n # Absent /\ n.bare = index[r].bare /\ n.wait = index[r].wait /\ n.status = Verdict(r)
      <4>1. Verdict(r) \in Statuses
        BY VerdictFacts
      <4> QED BY <1>0, <4>1, StatusFacts
    <3> QED BY <2>1, <3>1, <3>2
  <2>6. /\ work'[r]["entry"] = work[r]["entry"]
        /\ work'[r]["register"] # "none" => work[r]["register"] # "none" \/ "entry.completed" \in stream[r]
    <3>1. PICK ws : Enqueue(r, ws) /\ (ws = {} \/ ws = Pending(r, index[r].wait))
      BY <2>1
    <3>2. ws \in SUBSET WorkNames /\ "entry" \notin ws /\ ("register" \in ws => "entry.completed" \in stream[r])
      BY <3>1, PendingFacts
    <3> QED BY <1>0, <3>1, <3>2, EnqueueFacts DEF WorkNames
  <2>7. KeptActive(r)'
    <3> SUFFICES ASSUME Unfinished(r), index[r] # Absent PROVE index'[r].status \in ActiveStatuses
      BY <1>5, <2>1, <2>3, <2>5 DEF KeptActive, Live, IsRunning
    <3>1. Verdict(r) \in {"running", "awaiting"}
      BY <2>4, VerdictFacts
    <3>2. index[r].status \in ActiveStatuses
      BY <1>0 DEF KeptActive, Live, IsRunning
    <3> QED BY <2>5, <3>1, <3>2 DEF ActiveStatuses
  <2>8. pub # <<>> => ~Unfinished(r)
    BY <2>2, <2>4 DEF Publishes
  <2>9. Head(chain[r]).type \notin {"flow.start", "await.timeout", "await.registered"}
    BY <2>3 DEF FinishTypes
  <2> QED BY <1>0, <1>4, <1>5, <2>1, <2>2, <2>5, <2>6, <2>7, <2>8, <2>9, HandledKeeps
<1>13. CASE OnAwaitRegistered(r)
  <2>1. Handle(r, {"await.registered"}, <<>>) /\ work' = work /\ UNCHANGED scheduler
        /\ index'[r] = IF Open(r) THEN [index[r] EXCEPT !.status = "awaiting", !.wait = "awaiting"] ELSE index[r]
    BY <1>0, <1>13 DEF OnAwaitRegistered
  <2>2. Head(chain[r]).type = "await.registered" /\ (Unfinished(r)' <=> Unfinished(r))
    BY <1>2, <1>3, <2>1
  <2>3. /\ (index'[r] = Absent <=> index[r] = Absent) /\ index'[r].bare = index[r].bare
        /\ index'[r].status \in {"awaiting", index[r].status}
    <3>1. Open(r) => index[r] # Absent
      BY <1>0, EntryFacts DEF Open
    <3>2. index[r] # Absent =>
            LET n == [index[r] EXCEPT !.status = "awaiting", !.wait = "awaiting"]
            IN  n # Absent /\ n.bare = index[r].bare /\ n.status = "awaiting"
      BY <1>0, EntryFacts
    <3> QED BY <2>1, <3>1, <3>2
  <2>4. KeptActive(r)'
    BY <1>0, <1>7, <2>1, <2>2, <2>3 DEF KeptActive, Live, IsRunning, ActiveStatuses
  <2> QED BY <1>0, <1>3, <1>7, <2>1, <2>2, <2>3, <2>4, HandledKeeps
<1>14. CASE OnAwaitResolved(r)
  <2>1. /\ Handle(r, {"await.resolved"}, <<>>) /\ UNCHANGED scheduler
        /\ index'[r] = IF Open(r) THEN [index[r] EXCEPT !.wait = "resolved"] ELSE index[r]
    BY <1>0, <1>14 DEF OnAwaitResolved
  <2>2. Head(chain[r]).type = "await.resolved" /\ (Unfinished(r)' <=> Unfinished(r))
    BY <1>2, <1>3, <2>1
  <2>3. /\ (index'[r] = Absent <=> index[r] = Absent) /\ index'[r].bare = index[r].bare
        /\ index'[r].status = index[r].status /\ index'[r].wait \in {"resolved", index[r].wait}
    <3>1. Open(r) => index[r] # Absent
      BY <1>0, EntryFacts DEF Open
    <3>2. index[r] # Absent =>
            LET n == [index[r] EXCEPT !.wait = "resolved"]
            IN  n # Absent /\ n.bare = index[r].bare /\ n.status = index[r].status /\ n.wait = "resolved"
      BY <1>0, AwaitFacts
    <3> QED BY <2>1, <3>1, <3>2
  <2>4. /\ work'[r]["entry"] = work[r]["entry"]
        /\ work'[r]["register"] # "none" => work[r]["register"] # "none"
    <3> DEFINE ws == Pending(r, "resolved")
    <3>1. ws \in SUBSET WorkNames /\ "entry" \notin ws /\ "register" \notin ws
      BY PendingFacts
    <3>2. work' = work \/ Enqueue(r, ws)
      BY <1>14 DEF OnAwaitResolved
    <3> HIDE DEF ws
    <3> QED BY <1>0, <3>1, <3>2, EnqueueFacts DEF WorkNames
  <2>5. KeptActive(r)'
    BY <1>0, <1>7, <2>1, <2>2, <2>3 DEF KeptActive, Live, IsRunning
  <2> QED BY <1>0, <1>3, <1>7, <2>1, <2>2, <2>3, <2>4, <2>5, HandledKeeps
<1>15. CASE OnAwaitTimeout(r)
  <2>1. PICK pub \in OneEvent : /\ Handle(r, {"await.timeout"}, pub)
                                /\ pub = <<>> \/ pub = <<Event("step.failed")>>
    BY <1>3, <1>15 DEF OnAwaitTimeout
  <2>2. /\ work' = work /\ UNCHANGED scheduler
        /\ \/ index'[r] = [index[r] EXCEPT !.bare = index[r].bare]
           \/ index[r] # Absent /\ \E b \in {"resolved", "timeout"} : index'[r] = [index[r] EXCEPT !.bare = b]
    <3>1. index[r] = Absent => index[r].status = "absent"
      BY <1>0, EntryFacts
    <3> QED BY <1>0, <1>15, <3>1 DEF OnAwaitTimeout
  <2>3. Head(chain[r]).type = "await.timeout" /\ (Unfinished(r)' <=> Unfinished(r))
    BY <1>2, <2>1
  <2>4. /\ (index'[r] = Absent <=> index[r] = Absent) /\ index'[r].wait = index[r].wait
        /\ index'[r].status = index[r].status
    <3>1. CASE index'[r] = [index[r] EXCEPT !.bare = index[r].bare]
      <4>1. [index[r] EXCEPT !.bare = index[r].bare] = index[r]
        BY <1>0, EntryFacts
      <4> QED BY <3>1, <4>1
    <3>2. ASSUME index[r] # Absent, NEW b \in {"resolved", "timeout"}, index'[r] = [index[r] EXCEPT !.bare = b]
          PROVE  /\ (index'[r] = Absent <=> index[r] = Absent) /\ index'[r].wait = index[r].wait
                 /\ index'[r].status = index[r].status
      <4>1. LET n == [index[r] EXCEPT !.bare = b]
            IN  n # Absent /\ n.wait = index[r].wait /\ n.status = index[r].status
        <5>1. b \in {"none", "resolved", "timeout"}
          OBVIOUS
        <5> QED BY <1>0, <3>2, <5>1, AwaitFacts
      <4> QED BY <3>2, <4>1
    <3> QED BY <2>2, <3>1, <3>2
  <2>5. KeptActive(r)'
    BY <1>0, <1>7, <2>2, <2>3, <2>4 DEF KeptActive, Live, IsRunning
  <2>6. pub # <<>> => pub[1].type \notin TerminalTypes
    BY <2>1 DEF Event, TerminalTypes
  <2> QED BY <1>0, <1>7, <2>1, <2>2, <2>3, <2>4, <2>5, <2>6, HandledKeeps
<1>16. CASE UnscheduleStall(r)
  <2>1. /\ UNCHANGED <<phase, index, stream, work, chain, persisted, subs, resolving, marking, todo>>
        /\ jobs' = jobs \ {<<"stall", r>>} /\ firing' = firing
    BY <1>16 DEF UnscheduleStall, Unschedule, store, awaits, recovery
  <2>2. (\A type : At(r, type)' = At(r, type)) /\ (AwaitBegun(r)' <=> AwaitBegun(r))
        /\ (Unfinished(r)' <=> Unfinished(r)) /\ (IsRunning(r)' <=> IsRunning(r))
    BY <1>4, <2>1 DEF At, AwaitBegun, Unfinished, IsRunning
  <2>3. Untouched(r)' /\ StartsFirst(r)' /\ EntryFirst(r)'
    BY <1>0, <2>1, <2>2 DEF RunInv, Untouched, StartsFirst, EntryFirst
  <2>4. HeadKept(r)' /\ VerdictEnds(r)' /\ KeptActive(r)' /\ FiredInVain(r)' /\ Rereads(r)'
    BY <1>0, <2>1, <2>2 DEF RunInv, HeadKept, VerdictEnds, KeptActive, Live, FiredInVain, Rereads
  <2> QED BY <2>3, <2>4 DEF RunInv
<1> QED BY <1>1, <1>8, <1>9, <1>10, <1>11, <1>12, <1>13, <1>14, <1>15, <1>16 DEF Wiring

\* The startup recovery of a run: markAsStalled begins, or the status is put right.
LEMMA RecoverKeeps ==
  ASSUME IInv, NEW r \in Runs, RecoverRun(r)
  PROVE  RunInv(r)'
<1>0. /\ TypeOK /\ RunInv(r) /\ Untouched(r) /\ StartsFirst(r) /\ EntryFirst(r) /\ HeadKept(r)
      /\ VerdictEnds(r) /\ KeptActive(r) /\ FiredInVain(r) /\ Rereads(r)
      /\ index[r] \in Entries \cup {Absent} /\ index \in [Runs -> Entries \cup {Absent}]
  BY RunFacts DEF TypeOK
<1>1. /\ phase = "recovering" /\ r \notin DOMAIN todo' /\ index[r] # Absent
      /\ UNCHANGED <<phase, stream, work, jobs, firing, chain, persisted, subs, resolving>>
  BY <1>0 DEF RecoverRun, Rereads, scheduler, bus, awaits
<1>2. marking'[r]["timer"] = marking[r]["timer"]
  <2>1. "recovery" \in Markers /\ "timer" \in Markers /\ (ReadStatus(r, "recovery") \/ marking' = marking)
    BY DEF RecoverRun, Markers
  <2> QED BY <1>0, <2>1, ReadStatusFacts
<1>3. /\ index'[r] # Absent /\ index'[r].bare = index[r].bare
      /\ index'[r].status \in {"awaiting", index[r].status}
  <2>1. index'[r] = index[r] \/ index'[r] = [index[r] EXCEPT !.status = "awaiting"]
    BY <1>0 DEF RecoverRun
  <2>2. LET n == [index[r] EXCEPT !.status = "awaiting"]
        IN  n # Absent /\ n.bare = index[r].bare /\ n.status = "awaiting"
    <3>1. "awaiting" \in Statuses
      BY DEF Statuses
    <3> QED BY <1>0, <3>1, StatusFacts
  <2> QED BY <1>1, <2>1, <2>2
<1>4. (\A type : At(r, type)' = At(r, type)) /\ (Unfinished(r)' <=> Unfinished(r))
      /\ (AwaitBegun(r)' <=> AwaitBegun(r)) /\ (IsRunning(r) => IsRunning(r)')
  BY <1>1, <1>3 DEF At, Unfinished, AwaitBegun, IsRunning, ActiveStatuses
<1>5. work[r]["entry"] # "none" /\ At(r, "flow.start") = {} /\ \A type \in WorkerTypes : At(r, type) = {}
  BY <1>0, <1>1 DEF Untouched, Rereads, WorkerTypes
<1>6. Untouched(r)' /\ StartsFirst(r)' /\ EntryFirst(r)'
  BY <1>0, <1>1, <1>4, <1>5 DEF Untouched, StartsFirst, EntryFirst
<1>7. HeadKept(r)' /\ VerdictEnds(r)' /\ KeptActive(r)' /\ FiredInVain(r)'
  BY <1>0, <1>1, <1>2, <1>3, <1>4 DEF HeadKept, VerdictEnds, KeptActive, FiredInVain, Live
<1>8. Rereads(r)'
  BY <1>1, <1>4, <1>5 DEF Rereads
<1> QED BY <1>6, <1>7, <1>8 DEF RunInv

\* What one run's step does to all of the invariant.
LEMMA LocalKeeps ==
  ASSUME IInv, NEW r \in Runs, Local(r)
  PROVE  IInv'
<1>0. TypeOK /\ Timed /\ HeadKept(r) /\ Rereads(r) /\ \A q \in Runs : RunInv(q)
  BY RunFacts DEF IInv, RecoveryInv
<1>1. Base(r)
  BY <1>0, CallsBase, WorkerBase, WiringBase, TimersBase, RecoverBase DEF Local
<1>2. RunInv(r)'
  BY CallsKeep, WorkerKeeps, WiringKeeps, TimersKeep, RecoverKeeps DEF Local
<1>3. ASSUME NEW q \in Runs PROVE RunInv(q)'
  <2>1. CASE q = r
    BY <1>2, <2>1
  <2>2. CASE q # r
    BY <1>0, <1>1, <2>2, SameKeeps DEF Base
  <2> QED BY <2>1, <2>2
<1> QED BY <1>1, <1>3 DEF Base, IInv, RecoveryInv

-----------------------------------------------------------------------------
(* Stop and start. *)

LEMMA CrashKeeps ==
  ASSUME IInv, Crash
  PROVE  IInv'
<1>0. TypeOK /\ Timed /\ RecoveryAssumption
  BY RecoveryAssumption DEF IInv, RecoveryInv
<1>1. /\ phase' = "down" /\ armed' = {} /\ firing' = {} /\ chain' = [r \in Runs |-> <<>>] /\ persisted' = {} /\ extending' = {}
      /\ subs' = {} /\ resolving' = [r \in Runs |-> 0] /\ marking' = NotMarking /\ todo' = NothingRead
      /\ found' = NoCounts
      /\ due' = due \cup ((jobs \cap firing) \ armed)
      /\ UNCHANGED <<config, index, stream, stats, jobs>>
      /\ work' = [r \in Runs |-> [w \in WorkNames |->
             IF work[r][w] = "active" THEN "waiting" ELSE work[r][w]]]
  BY DEF Crash, store
<1>2. /\ \A r \in Runs, w \in WorkNames :
           /\ work'[r][w] \in WorkStates
           /\ (work'[r][w] = "none" <=> work[r][w] = "none") /\ (work'[r][w] = "done" <=> work[r][w] = "done")
      /\ work' \in [Runs -> [WorkNames -> WorkStates]]
  <2>1. \A r \in Runs, w \in WorkNames : work[r][w] \in {"none", "waiting", "active", "done"}
    BY <1>0 DEF TypeOK, WorkStates
  <2>2. \A r \in Runs, w \in WorkNames :
          work'[r][w] = IF work[r][w] = "active" THEN "waiting" ELSE work[r][w]
    BY <1>1
  <2>3. \A r \in Runs, w \in WorkNames :
          /\ work'[r][w] \in WorkStates
          /\ (work'[r][w] = "none" <=> work[r][w] = "none") /\ (work'[r][w] = "done" <=> work[r][w] = "done")
    BY <2>1, <2>2 DEF WorkStates
  <2>4. \A r \in Runs : work'[r] = [w \in WorkNames |-> IF work[r][w] = "active" THEN "waiting" ELSE work[r][w]]
    BY <1>1
  <2>5. \A r \in Runs : work'[r] \in [WorkNames -> WorkStates]
    BY <2>1, <2>4 DEF WorkStates
  <2>6. work' = [r \in Runs |-> work'[r]]
    BY <1>1, <2>4
  <2> QED BY <2>3, <2>5, <2>6
<1>3. TypeOK'
  <2>1. chain' \in [Runs -> Seq(Messages)] /\ resolving' \in [Runs -> Nat]
    BY <1>1
  <2>2. marking' \in [Runs -> [Markers -> Statuses \cup {"no"}]] /\ DOMAIN todo' = {}
        /\ found' \in [{"running", "awaiting"} -> Int]
    BY <1>1 DEF NotMarking, NothingRead, NoCounts
  <2> QED BY <1>0, <1>1, <1>2, <2>1, <2>2 DEF TypeOK
<1>4. Timed'
  BY <1>1 DEF Timed
<1>5. ASSUME NEW r \in Runs PROVE RunInv(r)'
  <2>0. /\ Untouched(r) /\ StartsFirst(r) /\ EntryFirst(r) /\ VerdictEnds(r) /\ KeptActive(r)
    BY RunFacts
  <2>1. (\A type : At(r, type)' = {}) /\ chain'[r] = <<>> /\ r \notin DOMAIN todo' /\ resolving'[r] = 0
    BY <1>1 DEF At, NothingRead
  <2>2. (Unfinished(r)' <=> Unfinished(r)) /\ (IsRunning(r)' <=> IsRunning(r))
    BY <1>1 DEF Unfinished, IsRunning
  <2>3. {"entry", "register", "step"} \subseteq WorkNames
    BY DEF WorkNames
  <2>4. AwaitBegun(r)' => AwaitBegun(r)
    BY <1>1, <1>2, <2>1, <2>3 DEF AwaitBegun
  <2>5. Untouched(r)' /\ StartsFirst(r)' /\ EntryFirst(r)'
    BY <1>1, <1>2, <2>0, <2>1, <2>3, <2>4 DEF Untouched, StartsFirst, EntryFirst
  <2>6. HeadKept(r)' /\ VerdictEnds(r)' /\ KeptActive(r)' /\ FiredInVain(r)'
    BY <1>1, <2>0, <2>1, <2>2 DEF HeadKept, VerdictEnds, KeptActive, FiredInVain, Live
  <2>7. Rereads(r)'
    BY <1>1, <2>1 DEF Rereads
  <2> QED BY <2>5, <2>6, <2>7 DEF RunInv
<1> QED BY <1>3, <1>4, <1>5 DEF IInv, RecoveryInv

\* A step of the startup: chains, work and history stay as they are, and a stall
\* timeout that is persisted stays persisted.
LEMMA StartupKeeps ==
  ASSUME IInv, Boot \/ ReadRuns \/ ValidateStats
  PROVE  IInv'
<1>0. TypeOK /\ Timed
  BY DEF IInv, RecoveryInv
<1>1. /\ UNCHANGED <<config, index, stream, work, firing, chain, persisted, extending, subs, resolving, marking>>
      /\ jobs' \subseteq jobs /\ \A r \in Runs : <<"stall", r>> \in jobs => <<"stall", r>> \in jobs'
      /\ phase' \in {"booting", "recovering", "up"} /\ armed' \subseteq jobs' /\ due' \subseteq due
      /\ (phase # "down" => jobs' = jobs /\ armed' = armed) /\ (phase = "down" => armed' = jobs')
  <2>1. CASE Boot
    BY <2>1 DEF Boot, store, bus, awaits, recovery
  <2>2. CASE ReadRuns \/ ValidateStats
    BY <1>0, <2>2 DEF ReadRuns, ValidateStats, store, scheduler, bus, awaits, Timed
  <2> QED BY <2>1, <2>2
<1>2. /\ {stats', found'} \subseteq [{"running", "awaiting"} -> Int]
      /\ DOMAIN todo' \subseteq Runs
  <2>1. CASE Boot
    BY <1>0, <2>1 DEF Boot, store, recovery, TypeOK
  <2>2. CASE ReadRuns
    <3>1. \A status : CountOf(status) \in Int
      <4> TAKE status
      <4>1. IsFiniteSet({r \in Runs : index[r].status = status})
        BY RecoveryAssumption, FS_Subset DEF RecoveryAssumption
      <4> QED BY <4>1, FS_CardinalityType DEF CountOf
    <3>2. found' = [running |-> CountOf("running"), awaiting |-> CountOf("awaiting")]
      BY <2>2 DEF ReadRuns
    <3>3. found' \in [{"running", "awaiting"} -> Int]
      BY <3>1, <3>2
    <3> QED BY <1>0, <2>2, <3>3 DEF ReadRuns, store, TypeOK
  <2>3. CASE ValidateStats
    BY <1>0, <2>3 DEF ValidateStats, NoCounts, TypeOK
  <2> QED BY <2>1, <2>2, <2>3
<1>3. TypeOK' /\ Timed'
  BY <1>0, <1>1, <1>2 DEF TypeOK, Timed
<1>4. ASSUME NEW r \in Runs PROVE RunInv(r)'
  <2>0. /\ Untouched(r) /\ StartsFirst(r) /\ EntryFirst(r) /\ HeadKept(r) /\ VerdictEnds(r)
        /\ KeptActive(r) /\ FiredInVain(r) /\ Rereads(r)
    BY RunFacts
  <2>1. /\ \A type : At(r, type)' = At(r, type)
        /\ (Unfinished(r)' <=> Unfinished(r)) /\ (IsRunning(r)' <=> IsRunning(r))
        /\ AwaitBegun(r)' => AwaitBegun(r)
    BY <1>1 DEF At, Unfinished, IsRunning, AwaitBegun
  <2>2. Untouched(r)' /\ StartsFirst(r)' /\ EntryFirst(r)'
    BY <1>1, <2>0, <2>1 DEF Untouched, StartsFirst, EntryFirst
  <2>3. HeadKept(r)' /\ VerdictEnds(r)' /\ KeptActive(r)' /\ FiredInVain(r)'
    BY <1>1, <2>0, <2>1 DEF HeadKept, VerdictEnds, KeptActive, FiredInVain, Live
  <2>4. Rereads(r)'
    <3>1. CASE Boot
      BY <1>1, <2>0, <2>1, <3>1 DEF Boot, recovery, Rereads
    <3>2. CASE ReadRuns
      <4>1. phase = "booting" /\ phase' = "recovering" /\ chain[r] = <<>>
            /\ todo' = [q \in {q \in Runs : index[q] # Absent} |-> index[q]]
        BY <2>0, <3>2 DEF ReadRuns, Rereads
      <4>2. \A type : At(r, type) = {}
        BY <4>1 DEF At
      <4> QED BY <1>1, <2>1, <4>1, <4>2 DEF Rereads
    <3>3. CASE ValidateStats
      BY <1>1, <3>3 DEF ValidateStats, Rereads
    <3> QED BY <3>1, <3>2, <3>3
  <2> QED BY <2>2, <2>3, <2>4 DEF RunInv
<1> QED BY <1>3, <1>4 DEF IInv, RecoveryInv

-----------------------------------------------------------------------------
(* The invariant. *)

LEMMA InitIInv == Init => IInv
<1> SUFFICES ASSUME Init PROVE IInv
  OBVIOUS
<1>1. TypeOK
  <2>1. index \in [Runs -> Entries \cup {Absent}] /\ stream \in [Runs -> SUBSET EventTypes]
    BY DEF Init
  <2>2. {stats, found} \subseteq [{"running", "awaiting"} -> Int] /\ config \in [kind : Kinds, action : Actions]
    BY DEF Init, NoCounts
  <2>3. work \in [Runs -> [WorkNames -> WorkStates]]
    BY DEF Init, NoWork, WorkStates
  <2>4. chain \in [Runs -> Seq(Messages)] /\ resolving \in [Runs -> Nat]
    BY DEF Init
  <2>5. marking \in [Runs -> [Markers -> Statuses \cup {"no"}]] /\ DOMAIN todo = {}
    BY DEF Init, NotMarking, NothingRead
  <2> QED BY <2>1, <2>2, <2>3, <2>4, <2>5 DEF Init, TypeOK
<1>2. Timed
  BY DEF Init, Timed
<1>3. ASSUME NEW r \in Runs PROVE RunInv(r)
  <2>1. /\ index[r] = Absent /\ stream[r] = {} /\ chain[r] = <<>> /\ r \notin DOMAIN todo /\ phase = "up"
        /\ jobs = {} /\ firing = {} /\ persisted = {} /\ subs = {} /\ resolving[r] = 0
        /\ \A w \in WorkNames : work[r][w] = "none"
    BY DEF Init, NoWork, NothingRead
  <2>2. (\A type : At(r, type) = {}) /\ {"entry", "register", "step"} \subseteq WorkNames /\ index[r].bare = "none"
    BY <2>1 DEF At, WorkNames, Absent
  <2>3. Untouched(r) /\ StartsFirst(r) /\ EntryFirst(r) /\ HeadKept(r)
    BY <2>1, <2>2 DEF Untouched, StartsFirst, EntryFirst, AwaitBegun, HeadKept
  <2>4. VerdictEnds(r) /\ KeptActive(r) /\ FiredInVain(r) /\ Rereads(r)
    BY <2>1, <2>2 DEF VerdictEnds, KeptActive, FiredInVain, Live, Rereads
  <2> QED BY <2>3, <2>4 DEF RunInv
<1> QED BY <1>1, <1>2, <1>3 DEF IInv, RecoveryInv

LEMMA NextIsLocal ==
  ASSUME Next
  PROVE  Crash \/ Boot \/ ReadRuns \/ ValidateStats \/ \E r \in Runs : Local(r)
<1>1. (\E j \in Jobs : FinishJob(j) \/ Elapse(j)) => \E r \in Runs : Local(r)
  <2> SUFFICES ASSUME NEW j \in Jobs, FinishJob(j) \/ Elapse(j) PROVE \E r \in Runs : Local(r)
    OBVIOUS
  <2>1. PICK r \in Runs : j = <<"stall", r>> \/ j = <<"wait", r>>
    BY JobShape
  <2>2. j \in JobsOf(r)
    BY <2>1, JobFacts
  <2> QED BY <2>2 DEF Local
<1> QED BY <1>1 DEF Next, Startup, Local

LEMMA NextIInv == IInv /\ [Next]_vars => IInv'
<1> SUFFICES ASSUME IInv, [Next]_vars PROVE IInv'
  OBVIOUS
<1>1. CASE UNCHANGED vars
  <2>1. TypeOK' /\ Timed'
    BY <1>1 DEF vars, IInv, RecoveryInv, TypeOK, Timed
  <2>2. ASSUME NEW r \in Runs PROVE RunInv(r)'
    BY <1>1, RunFacts, SameKeeps DEF vars, Same
  <2> QED BY <2>1, <2>2 DEF IInv, RecoveryInv
<1>2. CASE Next
  <2>1. Crash \/ Boot \/ ReadRuns \/ ValidateStats \/ \E r \in Runs : Local(r)
    BY <1>2, NextIsLocal
  <2> QED BY <2>1, CrashKeeps, StartupKeeps, LocalKeeps
<1> QED BY <1>1, <1>2

\* In every state of every execution a persisted job has a timer or a handler, and
\* an unfinished run of the index is active.
THEOREM Accounted == Spec => []IInv
BY InitIInv, NextIInv, PTL DEF Spec

-----------------------------------------------------------------------------
(* What follows from it. *)

\* The startup recovery marks no run as stalled that a time await keeps waiting and
\* whose timer is armed (runStartupRecovery and the scheduler's own recovery agree).
THEOREM WaitsAreSpared == Spec => RecoverySparesWaits
<1> DEFINE Spared == config.kind = "time" => \A r \in Runs :
             marking[r]["recovery"] = "no" /\ marking'[r]["recovery"] # "no" =>
               ~(index[r].wait = "awaiting" /\ <<"wait", r>> \in armed \ due)
<1>1. IInv /\ [Next]_vars => [Spared]_vars
  <2> SUFFICES ASSUME IInv, Next, config.kind = "time", NEW r \in Runs,
                      marking[r]["recovery"] = "no", marking'[r]["recovery"] # "no"
               PROVE  ~(index[r].wait = "awaiting" /\ <<"wait", r>> \in armed \ due)
    BY DEF Spared
  <2>0. TypeOK /\ Rereads(r) /\ Markers = {"timer", "recovery"}
        /\ marking \in [Runs -> [Markers -> Statuses \cup {"no"}]]
    BY RunFacts DEF TypeOK, Markers
  <2>1. RecoverRun(r)
    <3>1. ASSUME NEW q \in Runs, RecoverRun(q) PROVE q = r
      <4>1. "recovery" \in Markers /\ (ReadStatus(q, "recovery") \/ marking' = marking)
        BY <3>1 DEF RecoverRun, Markers
      <4> QED BY <2>0, <4>1, ReadStatusFacts
    <3>2. ASSUME NEW q \in Runs, StallFires(q) PROVE FALSE
      <4>1. "timer" \in Markers /\ ReadStatus(q, "timer")
        BY <3>2 DEF StallFires, Markers
      <4>2. marking'[r]["recovery"] = marking[r]["recovery"]
        BY <2>0, <4>1, ReadStatusFacts
      <4> QED BY <4>2
    <3>3. ASSUME NEW q \in Runs, NEW m \in Markers, MarkAsStalled(q, m) PROVE FALSE
      <4>1. marking' = [marking EXCEPT ![q][m] = "no"]
        BY <3>3 DEF MarkAsStalled
      <4> QED BY <2>0, <4>1
    <3>4. ~UNCHANGED marking /\ ~Crash
      BY DEF Crash, NotMarking, Markers
    <3>5. \A q \in Runs : ~(StartFlow(q) \/ CancelFlow(q) \/ RestartFlow(q) \/ ClearHistory(q))
      BY <3>4 DEF StartFlow, CancelFlow, RestartFlow, ClearHistory, recovery
    <3>6. \A q \in Runs : ~Worker(q)
      BY <3>4 DEF Worker, StartStep, CompleteStep, ScheduleWait, AnnounceWait, SubscribeWait, ScheduleTimeout, recovery
    <3>7. \A q \in Runs : ~Wiring(q)
      BY <3>4 DEF Wiring, Persist, OnFlowStart, OnFlowCancel, OnTerminal, UnscheduleStall, OnStarted, OnFinished,
                 OnAwaitRegistered, OnAwaitResolved, OnAwaitTimeout, Handle, recovery
    <3>8. \A q \in Runs : ~(WaitFires(q) \/ EventArrives(q) \/ ResolveEventAwait(q))
      BY <3>4 DEF WaitFires, EventArrives, ResolveEventAwait, recovery
    <3>9. \A j \in Jobs : ~(FinishJob(j) \/ Elapse(j))
      BY <3>4 DEF FinishJob, Elapse, recovery
    <3>10. ~(Boot \/ ReadRuns \/ ValidateStats)
      BY <3>4 DEF Boot, ReadRuns, ValidateStats, recovery
    <3> QED BY <3>1, <3>2, <3>3, <3>4, <3>5, <3>6, <3>7, <3>8, <3>9, <3>10 DEF Next, Timers, Startup
  <2>2. index[r].wait = "awaiting" => todo[r].wait = "awaiting"
    BY <2>0, <2>1 DEF RecoverRun, Rereads
  <2>3. PICK overdue \in Overdue(r) : ~(todo[r].wait = "awaiting" /\ ~overdue)
    BY <2>1 DEF RecoverRun
  <2>4. <<"wait", r>> \in armed \ due => overdue = FALSE
    BY <2>3 DEF Overdue
  <2> QED BY <2>2, <2>3, <2>4
<1> QED BY <1>1, Accounted, PTL DEF Spec, RecoverySparesWaits
-----------------------------------------------------------------------------
(* What makes up for a stall timeout that a stop has lost. *)

LEMMA AtFacts ==
  ASSUME TypeOK, NEW r \in Runs, NEW type
  PROVE  /\ At(r, type) \subseteq 1..Len(chain[r]) /\ Len(chain[r]) \in Nat
         /\ \A n \in At(r, type) : n \in Nat /\ n >= 1
<1>1. chain[r] \in Seq(Messages)
  BY DEF TypeOK
<1> QED BY <1>1 DEF At

\* Of these types a step leaves nothing new in the chain.
Shrinks(r, types) ==
  \E k \in {0, 1} : \A type \in types : \A n \in At(r, type)' : n \in Nat /\ n + k \in At(r, type)

EntryEvents == {"entry.started", "entry.completed"}
AwaitEvents == {"await.registered", "await.resolved", "step.started"}

\* What is published is not among them.
LEMMA PublishShrinks ==
  ASSUME TypeOK, NEW r \in Runs, NEW e \in Messages, UNCHANGED bus \/ Publish(r, e),
         NEW types, e.type \notin types
  PROVE  Shrinks(r, types)
<1>1. \A type \in types : At(r, type)' = At(r, type)
  <2>1. CASE UNCHANGED bus
    BY <2>1 DEF bus, At
  <2>2. CASE Publish(r, e)
    BY <2>2, PublishFacts
  <2> QED BY <2>1, <2>2
<1>2. \A type \in types : \A n \in At(r, type)' : n \in Nat /\ n + 0 \in At(r, type)
  BY <1>1, AtFacts
<1> QED BY <1>2 DEF Shrinks

LEMMA HandleShrinks ==
  ASSUME TypeOK, NEW r \in Runs, HeadKept(r), NEW types, NEW pub \in OneEvent, Handle(r, types, pub)
  PROVE  Shrinks(r, EntryEvents \cup AwaitEvents \cup {"await.timeout"})
<1>1. pub \in Seq(Messages) /\ Len(pub) <= 1
  BY OneEventFacts
<1>2. \A type \in EntryEvents \cup AwaitEvents \cup {"await.timeout"} : pub = <<>> \/ pub[1].type # type
  BY DEF OneEvent, Event, EntryEvents, AwaitEvents
<1>3. chain'[r] \in Seq(Messages)
  BY <1>1, HandleFacts
<1>4. \A type \in EntryEvents \cup AwaitEvents \cup {"await.timeout"} :
        \A n \in At(r, type)' : n + 1 \in At(r, type) /\ n >= 1
  BY <1>1, <1>2, HandleFacts
<1>5. \A n \in DOMAIN chain'[r] : n \in Nat
  BY <1>3
<1>6. \A type : \A n \in At(r, type)' : n \in Nat
  BY <1>5 DEF At
<1> QED BY <1>4, <1>6 DEF Shrinks

LEMMA ShrinksLess ==
  ASSUME NEW r, NEW types, NEW some \in SUBSET types, Shrinks(r, types)
  PROVE  Shrinks(r, some)
BY DEF Shrinks

LEMMA ShrinksFacts ==
  ASSUME TypeOK, NEW r \in Runs, NEW types, Shrinks(r, types)
  PROVE  /\ \A type \in types : At(r, type) = {} => At(r, type)' = {}
         /\ \A t1, t2 \in types :
              (\A m \in At(r, t1), n \in At(r, t2) : m < n) =>
                \A m \in At(r, t1)', n \in At(r, t2)' : m < n
<1>1. PICK k \in {0, 1} : \A type \in types : \A n \in At(r, type)' : n \in Nat /\ n + k \in At(r, type)
  BY DEF Shrinks
<1>2. \A type \in types : At(r, type) = {} => At(r, type)' = {}
  BY <1>1
<1>3. ASSUME NEW t1 \in types, NEW t2 \in types, \A m \in At(r, t1), n \in At(r, t2) : m < n,
             NEW m \in At(r, t1)', NEW n \in At(r, t2)'
      PROVE  m < n
  <2>1. m \in Nat /\ n \in Nat /\ m + k < n + k /\ k \in Nat
    BY <1>1, <1>3
  <2> QED BY <2>1
<1> QED BY <1>2, <1>3

\* The invariant of the two stages, of one run.
WInv == IInv /\ WatchedInv

LEMMA WatchFacts ==
  ASSUME WInv, NEW r \in Runs
  PROVE  /\ IInv /\ Stopped /\ TypeOK /\ Timed
         /\ Covered(r) /\ ExtendsHead(r) /\ EntryOrder(r) /\ RegisterFirst(r)
         /\ TimeWaits(r) /\ EventWaits(r)
         /\ StartsFirst(r) /\ EntryFirst(r) /\ HeadKept(r) /\ KeptActive(r) /\ FiredInVain(r)
         /\ Rereads(r) /\ VerdictEnds(r)
         /\ index[r] \in Entries \cup {Absent} /\ index \in [Runs -> Entries \cup {Absent}]
         /\ work[r] \in [WorkNames -> WorkStates] /\ chain[r] \in Seq(Messages)
         /\ {"entry", "register", "step"} \subseteq WorkNames
BY RunFacts DEF WInv, WatchedInv, WatchInv, IInv, RecoveryInv, TypeOK, WorkNames

\* Each part is kept by a step that adds nothing to what it speaks of.
LEMMA EntryOrderKept ==
  ASSUME TypeOK, NEW r \in Runs, EntryOrder(r), Shrinks(r, EntryEvents),
         "entry.completed" \in stream'[r] \/ AwaitBegun(r)' =>
           "entry.completed" \in stream[r] \/ AwaitBegun(r) \/ At(r, "entry.started")' = {}
  PROVE  EntryOrder(r)'
<1>1. {"entry.started", "entry.completed"} \subseteq EntryEvents
  BY DEF EntryEvents
<1>2. /\ At(r, "entry.started") = {} => At(r, "entry.started")' = {}
      /\ (\A m \in At(r, "entry.started"), n \in At(r, "entry.completed") : m < n) =>
           \A m \in At(r, "entry.started")', n \in At(r, "entry.completed")' : m < n
  BY <1>1, ShrinksFacts
<1> QED BY <1>2 DEF EntryOrder

\* A run that the recovery will mark stays so, or is no longer live.
MarkStays(r) == Live(r)' /\ ToBeMarked(r) => ToBeMarked(r)'

LEMMA SteadyMark ==
  ASSUME NEW r, config' = config, phase' = phase,
         index'[r].wait = "awaiting" => index[r].wait = "awaiting" \/ phase = "up",
         TimerRuns(r)' => TimerRuns(r) \/ phase = "up",
         marking'[r]["recovery"] = "no" => marking[r]["recovery"] = "no",
         r \in DOMAIN todo => r \in DOMAIN todo' /\ todo'[r] = todo[r]
  PROVE  MarkStays(r)
BY DEF MarkStays, ToBeMarked, Lapsed

LEMMA WatchKept ==
  ASSUME NEW r \in Runs, Covered(r), ExtendsHead(r), MarkStays(r), Live(r)' => Live(r),
         Live(r)' /\ <<"stall", r>> \in jobs => <<"stall", r>> \in jobs',
         r \in extending' <=> r \in extending, r \in persisted => r \in persisted',
         r \in persisted => Head(chain'[r]) = Head(chain[r])
  PROVE  Covered(r)' /\ ExtendsHead(r)'
BY DEF Covered, ExtendsHead, MarkStays

LEMMA AwaitKept ==
  ASSUME TypeOK, NEW r \in Runs, RegisterFirst(r), TimeWaits(r), EventWaits(r), MarkStays(r),
         Live(r)' => Live(r), config' = config, phase' = phase, Shrinks(r, AwaitEvents),
         index'[r].wait = index[r].wait \/ (index'[r].wait = "none" /\ ~Live(r)'),
         work'[r]["register"] = work[r]["register"],
         work'[r]["step"] # "none" => work[r]["step"] # "none",
         r \in subs' => r \in subs, resolving'[r] = resolving[r],
         <<"wait", r>> \in jobs' => <<"wait", r>> \in jobs,
         TimerRuns(r)' => TimerRuns(r)
  PROVE  RegisterFirst(r)' /\ TimeWaits(r)' /\ EventWaits(r)'
<1>1. /\ \A type \in AwaitEvents : At(r, type) = {} => At(r, type)' = {}
      /\ (\A m \in At(r, "await.registered"), n \in At(r, "await.resolved") : m < n) =>
           \A m \in At(r, "await.registered")', n \in At(r, "await.resolved")' : m < n
  BY ShrinksFacts DEF AwaitEvents
<1>2. {"await.registered", "await.resolved", "step.started"} \subseteq AwaitEvents
  BY DEF AwaitEvents
<1>3. Released(r)' => Released(r)
  BY <1>1, <1>2 DEF Released
<1>4. RegisterFirst(r)'
  BY <1>1, <1>2, <1>3 DEF RegisterFirst
<1>5. TimeWaits(r)'
  BY <1>1, <1>2, <1>3 DEF TimeWaits, MarkStays
<1>6. EventWaits(r)'
  BY <1>1, <1>2 DEF EventWaits, MarkStays
<1> QED BY <1>4, <1>5, <1>6

\* What orchestration does to the await and the timers of its run.
Effects(r) ==
  /\ UNCHANGED <<config, phase, subs, resolving, marking, todo>>
  /\ phase \notin {"down", "booting"}
  /\ index'[r].wait = "awaiting" => index[r].wait = "awaiting" \/ 1 \in At(r, "await.registered")
  /\ index'[r].wait = "resolved" => index[r].wait = "resolved" \/ 1 \in At(r, "await.resolved")
  /\ index[r].wait = "resolved" /\ Live(r) =>
       index'[r].wait = "resolved" \/ 1 \in At(r, "await.registered")
  /\ index'[r].bare = "timeout" => index[r].bare = "timeout" \/ At(r, "await.timeout") # {}
  /\ work'[r]["register"] = work[r]["register"] \/
       /\ work[r]["register"] = "none" /\ work'[r]["register"] = "waiting"
       /\ phase = "up" /\ "entry.completed" \in stream[r] /\ index'[r].wait = "none"
  /\ work'[r]["step"] # "none" => work[r]["step"] # "none" \/ index'[r].wait = "resolved"
  /\ Live(r)' => Live(r) \/ (1 \in At(r, "flow.start") /\ work' = work /\ <<"stall", r>> \in jobs')
  /\ <<"wait", r>> \in jobs' => <<"wait", r>> \in jobs
  /\ TimerRuns(r)' => TimerRuns(r)

LEMMA ScheduleStall ==
  ASSUME NEW r \in Runs, phase' = phase,
         \/ UNCHANGED scheduler \/ Schedule(<<"stall", r>>)
         \/ \E js \in SUBSET JobsOf(r) : Unschedule(js)
  PROVE  /\ <<"wait", r>> \in jobs' => <<"wait", r>> \in jobs
         /\ TimerRuns(r)' => TimerRuns(r)
         /\ Schedule(<<"stall", r>>) => <<"stall", r>> \in jobs'
<1>1. <<"wait", r>> # <<"stall", r>>
  BY JobFacts
<1> QED BY <1>1 DEF TimerRuns, scheduler, Schedule, Unschedule

\* A step of flow wiring that handles an event and does nothing to its jobs.
LEMMA HandledEffects ==
  ASSUME WInv, NEW r \in Runs, NEW types, NEW pub \in OneEvent, Handle(r, types, pub),
         \/ UNCHANGED scheduler \/ Schedule(<<"stall", r>>) \/ Unschedule(JobsOf(r))
  PROVE  /\ UNCHANGED <<config, phase, stream, subs, resolving, marking, todo>>
         /\ phase \notin {"down", "booting"} /\ r \in persisted /\ Head(chain[r]).type \in types
         /\ 1 \in At(r, Head(chain[r]).type) /\ \A type : 1 \in At(r, type) => type = Head(chain[r]).type
         /\ Head(chain[r]).type \in stream[r] \/ ~Unfinished(r)
         /\ Unfinished(r)' <=> Unfinished(r)
         /\ <<"wait", r>> \in jobs' => <<"wait", r>> \in jobs
         /\ TimerRuns(r)' => TimerRuns(r)
         /\ Schedule(<<"stall", r>>) => <<"stall", r>> \in jobs'
<1>1. TypeOK /\ HeadKept(r) /\ Rereads(r) /\ pub \in Seq(Messages) /\ Len(pub) <= 1
  BY WatchFacts, OneEventFacts
<1>2. /\ r \in persisted /\ chain[r] # <<>> /\ Head(chain[r]).type \in types
      /\ 1 \in At(r, Head(chain[r]).type)
      /\ \A type : 1 \in At(r, type) => type = Head(chain[r]).type
      /\ UNCHANGED <<config, phase, stream, stats, awaits, recovery, upsets>>
  BY <1>1, HandleFacts
<1>3. phase \notin {"down", "booting"}
  BY <1>1, <1>2 DEF Rereads
<1>4. \/ UNCHANGED scheduler \/ Schedule(<<"stall", r>>)
      \/ \E js \in SUBSET JobsOf(r) : Unschedule(js)
  OBVIOUS
<1>5. /\ <<"wait", r>> \in jobs' => <<"wait", r>> \in jobs
      /\ TimerRuns(r)' => TimerRuns(r)
      /\ Schedule(<<"stall", r>>) => <<"stall", r>> \in jobs'
  BY <1>2, <1>4, ScheduleStall
<1> QED BY <1>1, <1>2, <1>3, <1>5 DEF awaits, recovery, HeadKept, Unfinished

LEMMA WiringEffects ==
  ASSUME WInv, NEW r \in Runs, Wiring(r)
  PROVE  Effects(r) /\ Shrinks(r, EntryEvents \cup AwaitEvents \cup {"await.timeout"})
<1>0. /\ TypeOK /\ HeadKept(r) /\ Rereads(r) /\ index[r] \in Entries \cup {Absent} /\ chain[r] \in Seq(Messages)
      /\ index \in [Runs -> Entries \cup {Absent}] /\ StartsFirst(r)
      /\ {"entry", "register", "step"} \subseteq WorkNames
  BY WatchFacts
<1>1. CASE Persist(r)
  <2>1. /\ UNCHANGED <<config, phase, subs, resolving, marking, todo, index, work, jobs, armed, due, chain>>
        /\ chain[r] # <<>> /\ phase \notin {"down", "booting"}
        /\ stream'[r] = stream[r] \cup {Head(chain[r]).type}
    BY <1>0, <1>1 DEF Persist, Listening, scheduler, awaits, recovery, TypeOK
  <2>2. 1 \in At(r, Head(chain[r]).type)
    BY <1>0, <2>1 DEF At
  <2>3. Live(r)' => Live(r)
    <3>1. CASE Head(chain[r]).type = "flow.start"
      BY <1>0, <2>1, <2>2, <3>1 DEF StartsFirst, Live
    <3>2. CASE Head(chain[r]).type # "flow.start"
      BY <2>1, <3>2 DEF Live, Unfinished
    <3> QED BY <3>1, <3>2
  <2>4. Effects(r)
    BY <2>1, <2>3 DEF Effects, TimerRuns
  <2>5. \A type : At(r, type)' = At(r, type)
    BY <2>1 DEF At
  <2>6. \A type : \A n \in At(r, type)' : n \in Nat /\ n + 0 \in At(r, type)
    BY <1>0, <2>5, AtFacts
  <2> QED BY <2>4, <2>6 DEF Shrinks
<1>2. CASE UnscheduleStall(r)
  <2>1. /\ UNCHANGED <<config, phase, subs, resolving, marking, todo, index, stream, work, chain>>
        /\ r \in persisted /\ Unschedule({<<"stall", r>>}) /\ {<<"stall", r>>} \in SUBSET JobsOf(r)
    BY <1>2, JobFacts DEF UnscheduleStall, store, awaits, recovery
  <2>2. phase \notin {"down", "booting"}
    BY <1>0, <2>1 DEF Rereads, HeadKept
  <2>3. /\ <<"wait", r>> \in jobs' => <<"wait", r>> \in jobs
        /\ TimerRuns(r)' => TimerRuns(r)
    BY <2>1, ScheduleStall
  <2>4. Effects(r)
    BY <2>1, <2>2, <2>3 DEF Effects, Live, Unfinished
  <2>5. \A type : At(r, type)' = At(r, type)
    BY <2>1 DEF At
  <2>6. \A type : \A n \in At(r, type)' : n \in Nat /\ n + 0 \in At(r, type)
    BY <1>0, <2>5, AtFacts
  <2> QED BY <2>4, <2>6 DEF Shrinks
<1>3. <<>> \in OneEvent /\ <<Event("flow.completed")>> \in OneEvent /\ <<Event("flow.failed")>> \in OneEvent
      /\ <<Event("step.failed")>> \in OneEvent
  BY DEF OneEvent
<1>4. CASE OnFlowStart(r)
  <2>1. Handle(r, {"flow.start"}, <<>>) /\ Schedule(<<"stall", r>>) /\ work' = work
        /\ index'[r] = [status |-> "running", wait |-> "none", bare |-> "none"]
    BY <1>0, <1>4 DEF OnFlowStart
  <2>2. /\ UNCHANGED <<config, phase, stream, subs, resolving, marking, todo>>
        /\ phase \notin {"down", "booting"} /\ 1 \in At(r, "flow.start")
        /\ <<"wait", r>> \in jobs' => <<"wait", r>> \in jobs
        /\ TimerRuns(r)' => TimerRuns(r)
        /\ <<"stall", r>> \in jobs'
    BY <1>3, <2>1, HandledEffects
  <2>3. ~Live(r)
    BY <1>0, <2>2 DEF StartsFirst, Live
  <2>4. Effects(r)
    BY <2>1, <2>2, <2>3 DEF Effects
  <2> QED BY <1>0, <1>3, <2>1, <2>4, HandleShrinks
<1>5. CASE OnFlowCancel(r) \/ OnTerminal(r) \/ OnStarted(r)
  <2>1. \E types : Handle(r, types, <<>>)
    BY <1>5 DEF OnFlowCancel, OnTerminal, OnStarted
  <2>2. \/ UNCHANGED scheduler \/ Schedule(<<"stall", r>>) \/ Unschedule(JobsOf(r))
    BY <1>5 DEF OnFlowCancel, OnTerminal, OnStarted
  <2>3. /\ UNCHANGED <<config, phase, stream, subs, resolving, marking, todo>>
        /\ phase \notin {"down", "booting"}
        /\ <<"wait", r>> \in jobs' => <<"wait", r>> \in jobs
        /\ TimerRuns(r)' => TimerRuns(r)
    BY <1>3, <2>1, <2>2, HandledEffects
  <2>4. /\ work' = work /\ (index'[r] = Absent <=> index[r] = Absent)
        /\ index'[r].wait = index[r].wait /\ index'[r].bare = index[r].bare
    <3>1. index' = index \/ (index[r] # Absent /\ index'[r] = [index[r] EXCEPT !.status = "canceled"])
      BY <1>0, <1>5 DEF OnFlowCancel, OnTerminal, OnStarted
    <3>2. LET n == [index[r] EXCEPT !.status = "canceled"]
          IN  n # Absent /\ n.bare = index[r].bare /\ n.wait = index[r].wait
      <4>1. "canceled" \in Statuses
        BY DEF Statuses
      <4> QED BY <1>0, <4>1, StatusFacts
    <3> QED BY <1>5, <3>1, <3>2 DEF OnFlowCancel, OnTerminal, OnStarted
  <2>5. Effects(r)
    BY <2>3, <2>4 DEF Effects, Live, Unfinished
  <2> QED BY <1>0, <1>3, <2>1, <2>5, HandleShrinks
<1>6. CASE OnFinished(r)
  <2> DEFINE pub == IF Publishes(r) THEN <<Event(IF Verdict(r) = "completed" THEN "flow.completed"
                                           ELSE "flow.failed")>> ELSE <<>>
             ws == IF Head(chain[r]).type = "step.failed" THEN {} ELSE Pending(r, index[r].wait)
  <2>1. Handle(r, FinishTypes, pub) /\ Schedule(<<"stall", r>>) /\ Enqueue(r, ws) /\ pub \in OneEvent
        /\ index'[r] = IF Open(r) THEN [index[r] EXCEPT !.status = Verdict(r)] ELSE index[r]
    BY <1>0, <1>3, <1>6 DEF OnFinished
  <2>2. /\ ws \in SUBSET WorkNames /\ "entry" \notin ws
        /\ "register" \in ws => /\ "entry.completed" \in stream[r] /\ index[r].wait = "none"
                                /\ Head(chain[r]).type # "step.failed"
        /\ "step" \in ws => index[r].wait = "resolved"
    BY PendingFacts DEF Pending
  <2> HIDE DEF pub, ws
  <2>3. /\ UNCHANGED <<config, phase, stream, subs, resolving, marking, todo>>
        /\ phase \notin {"down", "booting"} /\ Head(chain[r]).type \in FinishTypes
        /\ 1 \in At(r, Head(chain[r]).type) /\ (Unfinished(r)' <=> Unfinished(r))
        /\ <<"wait", r>> \in jobs' => <<"wait", r>> \in jobs
        /\ TimerRuns(r)' => TimerRuns(r)
    BY <2>1, HandledEffects
  <2>4. /\ (index'[r] = Absent <=> index[r] = Absent) /\ index'[r].bare = index[r].bare
        /\ index'[r].wait = index[r].wait
    <3>1. Open(r) => index[r] # Absent
      BY <1>0, EntryFacts DEF Open
    <3>2. LET n == [index[r] EXCEPT !.status = Verdict(r)]
          IN  n # Absent /\ n.bare = index[r].bare /\ n.wait = index[r].wait
      <4>1. Verdict(r) \in Statuses
        BY VerdictFacts
      <4> QED BY <1>0, <4>1, StatusFacts
    <3> QED BY <2>1, <3>1, <3>2
  <2>5. \A w \in WorkNames : work'[r][w] = IF w \in ws /\ work[r][w] = "none" THEN "waiting" ELSE work[r][w]
    BY <1>0, <2>1, <2>2, EnqueueFacts
  <2>6. "register" \in ws => phase = "up"
    <3>1. Head(chain[r]).type # "step.failed" => Head(chain[r]).type \in WorkerTypes
      BY <2>3 DEF FinishTypes, WorkerTypes, Steps, CompletionOf
    <3>2. phase \in {"down", "booting", "recovering", "up"}
      BY <1>0 DEF TypeOK
    <3> QED BY <1>0, <2>2, <2>3, <3>1, <3>2 DEF Rereads
  <2>7. Effects(r)
    BY <1>0, <2>2, <2>3, <2>4, <2>5, <2>6 DEF Effects, Live
  <2> QED BY <1>0, <2>1, <2>7, HandleShrinks
<1>7. CASE OnAwaitRegistered(r)
  <2>1. Handle(r, {"await.registered"}, <<>>) /\ work' = work /\ UNCHANGED scheduler
        /\ index'[r] = IF Open(r) THEN [index[r] EXCEPT !.status = "awaiting", !.wait = "awaiting"] ELSE index[r]
    BY <1>0, <1>7 DEF OnAwaitRegistered
  <2>2. /\ UNCHANGED <<config, phase, stream, subs, resolving, marking, todo>>
        /\ phase \notin {"down", "booting"} /\ 1 \in At(r, "await.registered")
        /\ (Unfinished(r)' <=> Unfinished(r))
        /\ <<"wait", r>> \in jobs' => <<"wait", r>> \in jobs
        /\ TimerRuns(r)' => TimerRuns(r)
    <3>1. UNCHANGED scheduler \/ Schedule(<<"stall", r>>) \/ Unschedule(JobsOf(r))
      BY <2>1
    <3>2. Handle(r, {"await.registered"}, <<>>)
      BY <2>1
    <3> QED BY <1>3, <3>1, <3>2, HandledEffects
  <2>3. /\ (index'[r] = Absent <=> index[r] = Absent) /\ index'[r].bare = index[r].bare
        /\ index'[r].wait \in {"awaiting", index[r].wait}
    <3>1. Open(r) => index[r] # Absent
      BY <1>0, EntryFacts DEF Open
    <3>2. index[r] # Absent =>
            LET n == [index[r] EXCEPT !.status = "awaiting", !.wait = "awaiting"]
            IN  n # Absent /\ n.bare = index[r].bare /\ n.wait = "awaiting"
      BY <1>0, EntryFacts
    <3> QED BY <2>1, <3>1, <3>2
  <2>4. Effects(r)
    BY <2>1, <2>2, <2>3 DEF Effects, Live
  <2> QED BY <1>0, <1>3, <2>1, <2>4, HandleShrinks
<1>8. CASE OnAwaitResolved(r)
  <2> DEFINE ws == Pending(r, "resolved")
  <2>1. /\ Handle(r, {"await.resolved"}, <<>>) /\ UNCHANGED scheduler
        /\ index'[r] = IF Open(r) THEN [index[r] EXCEPT !.wait = "resolved"] ELSE index[r]
        /\ IF Open(r) THEN Enqueue(r, ws) ELSE work' = work
    BY <1>0, <1>8 DEF OnAwaitResolved
  <2>2. ws \in SUBSET WorkNames /\ "entry" \notin ws /\ "register" \notin ws
    BY PendingFacts
  <2> HIDE DEF ws
  <2>3. /\ UNCHANGED <<config, phase, stream, subs, resolving, marking, todo>>
        /\ phase \notin {"down", "booting"} /\ 1 \in At(r, "await.resolved")
        /\ (Unfinished(r)' <=> Unfinished(r))
        /\ <<"wait", r>> \in jobs' => <<"wait", r>> \in jobs
        /\ TimerRuns(r)' => TimerRuns(r)
    <3>1. UNCHANGED scheduler \/ Schedule(<<"stall", r>>) \/ Unschedule(JobsOf(r))
      BY <2>1
    <3>2. Handle(r, {"await.resolved"}, <<>>)
      BY <2>1
    <3> QED BY <1>3, <3>1, <3>2, HandledEffects
  <2>4. /\ (index'[r] = Absent <=> index[r] = Absent) /\ index'[r].bare = index[r].bare
        /\ index'[r].wait = IF Open(r) THEN "resolved" ELSE index[r].wait
    <3>1. Open(r) => index[r] # Absent
      BY <1>0, EntryFacts DEF Open
    <3>2. index[r] # Absent =>
            LET n == [index[r] EXCEPT !.wait = "resolved"]
            IN  n # Absent /\ n.bare = index[r].bare /\ n.wait = "resolved"
      BY <1>0, AwaitFacts
    <3> QED BY <2>1, <3>1, <3>2
  <2>5. /\ work'[r]["register"] = work[r]["register"]
        /\ work'[r]["step"] # "none" => work[r]["step"] # "none" \/ Open(r)
    <3>1. CASE Open(r)
      BY <1>0, <2>1, <2>2, <3>1, EnqueueFacts
    <3>2. CASE ~Open(r)
      BY <2>1, <3>2
    <3> QED BY <3>1, <3>2
  <2>6. Effects(r)
    BY <2>3, <2>4, <2>5 DEF Effects, Live
  <2> QED BY <1>0, <1>3, <2>1, <2>6, HandleShrinks
<1>9. CASE OnAwaitTimeout(r)
  <2>1. PICK pub \in OneEvent : Handle(r, {"await.timeout"}, pub)
    BY <1>3, <1>9 DEF OnAwaitTimeout
  <2>2. /\ work' = work /\ UNCHANGED scheduler
        /\ \/ index'[r] = [index[r] EXCEPT !.bare = index[r].bare]
           \/ index[r] # Absent /\ \E b \in {"resolved", "timeout"} : index'[r] = [index[r] EXCEPT !.bare = b]
    <3>1. index[r] = Absent => index[r].status = "absent"
      BY <1>0, EntryFacts
    <3> QED BY <1>0, <1>9, <3>1 DEF OnAwaitTimeout
  <2>3. /\ UNCHANGED <<config, phase, stream, subs, resolving, marking, todo>>
        /\ phase \notin {"down", "booting"} /\ 1 \in At(r, "await.timeout")
        /\ (Unfinished(r)' <=> Unfinished(r))
        /\ <<"wait", r>> \in jobs' => <<"wait", r>> \in jobs
        /\ TimerRuns(r)' => TimerRuns(r)
    <3>1. UNCHANGED scheduler \/ Schedule(<<"stall", r>>) \/ Unschedule(JobsOf(r))
      BY <2>2
    <3> QED BY <2>1, <3>1, HandledEffects
  <2>4. (index'[r] = Absent <=> index[r] = Absent) /\ index'[r].wait = index[r].wait
    <3>1. CASE index'[r] = [index[r] EXCEPT !.bare = index[r].bare]
      <4>1. [index[r] EXCEPT !.bare = index[r].bare] = index[r]
        BY <1>0, EntryFacts
      <4> QED BY <3>1, <4>1
    <3>2. ASSUME index[r] # Absent, NEW b \in {"resolved", "timeout"}, index'[r] = [index[r] EXCEPT !.bare = b]
          PROVE  (index'[r] = Absent <=> index[r] = Absent) /\ index'[r].wait = index[r].wait
      <4>1. b \in {"none", "resolved", "timeout"}
        OBVIOUS
      <4>2. LET n == [index[r] EXCEPT !.bare = b] IN n # Absent /\ n.wait = index[r].wait
        BY <1>0, <3>2, <4>1, AwaitFacts
      <4> QED BY <3>2, <4>2
    <3> QED BY <2>2, <3>1, <3>2
  <2>5. Effects(r)
    BY <2>2, <2>3, <2>4 DEF Effects, Live
  <2> QED BY <1>0, <2>1, <2>5, HandleShrinks
<1> QED BY <1>1, <1>2, <1>4, <1>5, <1>6, <1>7, <1>8, <1>9 DEF Wiring

\* The startup recovery marks what it is to mark.
LEMMA RecoverMarks ==
  ASSUME WInv, NEW r \in Runs, RecoverRun(r)
  PROVE  MarkStays(r)
<1>0. /\ TypeOK /\ KeptActive(r) /\ Rereads(r) /\ index[r] \in Entries \cup {Absent}
      /\ index \in [Runs -> Entries \cup {Absent}] /\ marking \in [Runs -> [Markers -> Statuses \cup {"no"}]]
  BY WatchFacts DEF TypeOK
<1>1. /\ phase = "recovering" /\ r \in DOMAIN todo /\ index[r] # Absent /\ marking[r]["recovery"] = "no"
      /\ UNCHANGED <<config, phase, stream, work, jobs, armed, due, chain>>
  BY <1>0 DEF RecoverRun, Recovering, Rereads, scheduler, bus
<1>2. index'[r] = index[r] \/ index'[r] = [index[r] EXCEPT !.status = "awaiting"]
  BY <1>0 DEF RecoverRun
<1>3. index'[r].wait = index[r].wait
  <2>1. LET n == [index[r] EXCEPT !.status = "awaiting"] IN n.wait = index[r].wait
    <3>1. "awaiting" \in Statuses
      BY DEF Statuses
    <3> QED BY <1>0, <3>1, StatusFacts
  <2> QED BY <1>2, <2>1
<1> SUFFICES ASSUME Live(r)', ToBeMarked(r) PROVE ToBeMarked(r)'
  BY DEF MarkStays
<1>4. Live(r) /\ IsRunning(r)
  BY <1>0, <1>1 DEF Live, Unfinished, KeptActive
<1>5. todo[r].status \in ActiveStatuses /\ (todo[r].wait # "awaiting" \/ Lapsed(r))
  BY <1>1 DEF ToBeMarked
<1>6. PICK overdue \in Overdue(r) :
        todo[r].status \in ActiveStatuses /\ ~(todo[r].wait = "awaiting" /\ ~overdue) =>
          ReadStatus(r, "recovery")
  BY DEF RecoverRun
<1>7. Lapsed(r) => overdue = TRUE
  BY <1>1, <1>6 DEF Lapsed, TimerRuns, Overdue
<1>8. ReadStatus(r, "recovery") /\ "recovery" \in Markers
  BY <1>5, <1>6, <1>7 DEF Markers
<1>9. marking'[r]["recovery"] # "no"
  BY <1>0, <1>4, <1>8, ReadStatusFacts
<1> QED BY <1>1, <1>3, <1>9 DEF ToBeMarked, Lapsed, TimerRuns

\* What is marked is no longer live.
LEMMA MarkedEnds ==
  ASSUME WInv, NEW r \in Runs, NEW m \in Markers, MarkAsStalled(r, m)
  PROVE  /\ ~Live(r)' /\ index'[r].wait = index[r].wait /\ index'[r].bare = index[r].bare
         /\ "entry.completed" \in stream'[r] => "entry.completed" \in stream[r]
<1>0. /\ TypeOK /\ index[r] \in Entries \cup {Absent}
  BY WatchFacts
<1>1. CASE index[r] = Absent
  BY <1>1 DEF MarkAsStalled, Live
<1>2. CASE index[r] # Absent
  <2>1. /\ index'[r] = [index[r] EXCEPT !.status = "stalled"]
        /\ stream'[r] = stream[r] \cup {"flow.stalled"} \cup {StallOf[x] : x \in StalledSteps(r)}
    BY <1>0, <1>2 DEF MarkAsStalled, TypeOK
  <2>2. LET n == [index[r] EXCEPT !.status = "stalled"]
        IN  n.bare = index[r].bare /\ n.wait = index[r].wait
    <3>1. "stalled" \in Statuses
      BY DEF Statuses
    <3> QED BY <1>0, <3>1, StatusFacts
  <2>3. \A x \in StalledSteps(r) : StallOf[x] \in {"entry.stalled", "step.stalled"}
    BY DEF StalledSteps, Steps, StallOf
  <2> QED BY <2>1, <2>2, <2>3 DEF Live, Unfinished
<1> QED BY <1>1, <1>2

LEMMA LocalMarks ==
  ASSUME WInv, NEW r \in Runs, Local(r)
  PROVE  MarkStays(r)
<1>0. /\ TypeOK /\ Stopped /\ Rereads(r) /\ HeadKept(r) /\ StartsFirst(r)
      /\ marking \in [Runs -> [Markers -> Statuses \cup {"no"}]]
      /\ "recovery" \in Markers /\ "timer" \in Markers
  BY WatchFacts DEF TypeOK, Markers
<1>1. CASE phase = "up"
  BY <1>1 DEF MarkStays, ToBeMarked
<1>2. CASE Wiring(r)
  <2>1. Effects(r)
    BY <1>2, WiringEffects
  <2>2. phase = "up" \/ At(r, "await.registered") = {}
    BY <1>0, <2>1 DEF Effects, Rereads, WorkerTypes, TypeOK
  <2> QED BY <2>1, <2>2, SteadyMark DEF Effects
<1>3. CASE RecoverRun(r)
  BY <1>3, RecoverMarks
<1>4. ASSUME NEW m \in Markers, MarkAsStalled(r, m) PROVE MarkStays(r)
  BY <1>4, MarkedEnds DEF MarkStays
<1>5. CASE StallFires(r)
  <2>1. marking'[r]["recovery"] = marking[r]["recovery"]
    BY <1>0, <1>5, ReadStatusFacts DEF StallFires
  <2>2. TimerRuns(r)' => TimerRuns(r)
    BY <1>5 DEF StallFires, Fire, TimerRuns
  <2> QED BY <1>5, <2>1, <2>2, SteadyMark DEF StallFires, store
<1>6. CASE WaitFires(r) \/ EventArrives(r) \/ ResolveEventAwait(r)
  <2>1. TimerRuns(r)' => TimerRuns(r)
    BY <1>0, <1>6 DEF WaitFires, EventArrives, ResolveEventAwait, Fire, Unschedule, TimerRuns, Stopped, scheduler
  <2> QED BY <1>6, <2>1, SteadyMark DEF WaitFires, EventArrives, ResolveEventAwait, store, recovery
<1>7. ASSUME NEW j \in JobsOf(r), FinishJob(j) \/ Elapse(j) PROVE MarkStays(r)
  <2>1. TimerRuns(r)' => TimerRuns(r)
    BY <1>7 DEF FinishJob, Elapse, TimerRuns
  <2> QED BY <1>7, <2>1, SteadyMark DEF FinishJob, Elapse, store, recovery
<1>8. StartFlow(r) \/ CancelFlow(r) \/ RestartFlow(r) \/ ClearHistory(r) \/ Worker(r) => phase = "up"
  BY DEF StartFlow, CancelFlow, RestartFlow, ClearHistory, Call, Worker, StartStep, CompleteStep,
         ScheduleWait, AnnounceWait, SubscribeWait, ScheduleTimeout, Take
<1> QED BY <1>1, <1>2, <1>3, <1>4, <1>5, <1>6, <1>7, <1>8 DEF Local, Timers

\* An event that extends the stall timeout of a live run finds it in no await that the
\* recovery would take as valid.
LEMMA ExtendsUnawaited ==
  ASSUME WInv, config.kind # "schedule", NEW r \in Runs, r \in persisted, Live(r),
         Head(chain[r]).type \in StartTypes \cup FinishTypes
  PROVE  index[r].wait # "awaiting" \/ Lapsed(r)
<1>0. /\ HeadKept(r) /\ EntryOrder(r) /\ EntryFirst(r) /\ RegisterFirst(r) /\ TimeWaits(r) /\ EventWaits(r)
      /\ chain[r] \in Seq(Messages) /\ config.kind \in {"time", "event"}
  BY WatchFacts, RecoveryAssumption DEF TypeOK, RecoveryAssumption
<1>1. 1 \in At(r, Head(chain[r]).type) /\ Head(chain[r]).type \in stream[r]
  BY <1>0 DEF HeadKept, At, Live, Unfinished
<1>2. Head(chain[r]).type \in {"entry.started", "entry.completed", "step.started"}
  BY <1>1 DEF Live, Unfinished, EndsOf, StartTypes, Steps, StartOf, FinishTypes
<1>3. CASE Head(chain[r]).type \in {"entry.started", "entry.completed"}
  <2>1. ~AwaitBegun(r)
    BY <1>0, <1>1, <1>3 DEF EntryOrder, EntryFirst
  <2> QED BY <1>0, <2>1 DEF AwaitBegun, RegisterFirst
<1>4. CASE Head(chain[r]).type = "step.started"
  <2>1. At(r, "step.started") # {} /\ Released(r)
    BY <1>1, <1>4 DEF Released
  <2> QED BY <1>0, <2>1 DEF TimeWaits, EventWaits, Lapsed
<1> QED BY <1>2, <1>3, <1>4

\* Flow wiring keeps it.
LEMMA WiringWatches ==
  ASSUME WInv, NEW r \in Runs, Wiring(r)
  PROVE  WatchInv(r)'
<1>0. /\ TypeOK /\ Covered(r) /\ ExtendsHead(r) /\ EntryOrder(r) /\ RegisterFirst(r)
      /\ TimeWaits(r) /\ EventWaits(r) /\ StartsFirst(r) /\ EntryFirst(r) /\ HeadKept(r) /\ VerdictEnds(r)
      /\ chain[r] \in Seq(Messages) /\ index[r] \in Entries \cup {Absent}
      /\ index \in [Runs -> Entries \cup {Absent}] /\ stream \in [Runs -> SUBSET EventTypes]
  BY WatchFacts DEF TypeOK
<1>1. Effects(r) /\ Shrinks(r, EntryEvents \cup AwaitEvents \cup {"await.timeout"}) /\ MarkStays(r)
  BY WiringEffects, LocalMarks DEF Local
<1>2. /\ EntryEvents = {"entry.started", "entry.completed"}
      /\ AwaitEvents = {"await.registered", "await.resolved", "step.started"}
  BY DEF EntryEvents, AwaitEvents
<1>3. /\ Shrinks(r, EntryEvents) /\ Shrinks(r, AwaitEvents)
      /\ \A type \in EntryEvents \cup AwaitEvents \cup {"await.timeout"} : At(r, type) = {} => At(r, type)' = {}
      /\ (\A m \in At(r, "await.registered"), n \in At(r, "await.resolved") : m < n) =>
           \A m \in At(r, "await.registered")', n \in At(r, "await.resolved")' : m < n
  <2>1. Shrinks(r, EntryEvents) /\ Shrinks(r, AwaitEvents)
    BY <1>1, ShrinksLess
  <2>2. \A type \in EntryEvents \cup AwaitEvents \cup {"await.timeout"} : At(r, type) = {} => At(r, type)' = {}
    BY <1>0, <1>1, ShrinksFacts
  <2>3. (\A m \in At(r, "await.registered"), n \in At(r, "await.resolved") : m < n) =>
           \A m \in At(r, "await.registered")', n \in At(r, "await.resolved")' : m < n
    BY <1>0, <1>2, <2>1, ShrinksFacts
  <2> QED BY <2>1, <2>2, <2>3
<1>4. \A type : \A n \in At(r, type) : n \in Nat /\ n >= 1
  BY <1>0, AtFacts
<1>5. /\ "entry.completed" \in stream'[r] =>
           "entry.completed" \in stream[r] \/ 1 \in At(r, "entry.completed")
  <2>1. CASE Persist(r)
    <3>1. stream'[r] = stream[r] \cup {Head(chain[r]).type} /\ chain[r] # <<>>
      BY <1>0, <2>1 DEF Persist
    <3>2. 1 \in At(r, Head(chain[r]).type)
      BY <1>0, <3>1 DEF At
    <3> QED BY <3>1, <3>2
  <2>2. CASE ~Persist(r)
    <3>1. stream' = stream
      BY <2>2 DEF Wiring, OnFlowStart, OnFlowCancel, OnTerminal, UnscheduleStall, OnStarted, OnFinished,
                 OnAwaitRegistered, OnAwaitResolved, OnAwaitTimeout, Handle, store
    <3> QED BY <3>1
  <2> QED BY <2>1, <2>2
<1>6. EntryOrder(r)'
  <2>1. 1 \in At(r, "entry.completed") => At(r, "entry.started")' = {}
    <3>1. 1 \in At(r, "entry.completed") => At(r, "entry.started") = {}
      BY <1>0, <1>4 DEF EntryOrder
    <3> QED BY <1>2, <1>3, <3>1
  <2>2. AwaitBegun(r)' => AwaitBegun(r) \/ "entry.completed" \in stream[r]
    BY <1>1, <1>3 DEF AwaitBegun, Effects
  <2> QED BY <1>0, <1>3, <1>5, <2>1, <2>2, EntryOrderKept
<1>7. Released(r)' => Released(r)
  BY <1>1, <1>2, <1>3 DEF Released, Effects
<1>8. RegisterFirst(r)'
  BY <1>0, <1>1, <1>2, <1>3, <1>7 DEF RegisterFirst, Effects
<1>9. Live(r)' => Live(r) \/ work[r]["register"] = "none"
  BY <1>0, <1>1 DEF StartsFirst, Effects
<1>10. TimeWaits(r)'
  <2> SUFFICES ASSUME config.kind = "time" PROVE TimeWaits(r)'
    BY <1>1 DEF TimeWaits, Effects
  <2>1. r \notin subs' /\ resolving'[r] = 0
    BY <1>0, <1>1 DEF TimeWaits, Effects
  <2>2. At(r, "await.registered")' # {} \/ index'[r].wait = "awaiting" => work'[r]["register"] = "done"
    BY <1>0, <1>1, <1>2, <1>3 DEF TimeWaits, Effects
  <2>3. Live(r)' /\ Released(r)' => ~TimerRuns(r)'
    BY <1>0, <1>1, <1>7, <1>9 DEF TimeWaits, RegisterFirst, Effects
  <2>4. ASSUME Live(r)', work'[r]["register"] = "waiting"
        PROVE  ToBeMarked(r)' \/ (phase' = "up" /\ ~Released(r)' /\ <<"wait", r>> \notin jobs')
    <3>1. CASE work[r]["register"] = "none"
      BY <1>0, <1>1, <1>7, <2>4, <3>1 DEF RegisterFirst, Effects
    <3>2. CASE work[r]["register"] = "waiting"
      BY <1>0, <1>1, <1>7, <1>9, <2>4, <3>2 DEF TimeWaits, MarkStays, Effects
    <3> QED BY <1>1, <2>4, <3>1, <3>2 DEF Effects
  <2> QED BY <1>1, <2>1, <2>2, <2>3, <2>4 DEF TimeWaits, Effects
<1>11. EventWaits(r)'
  <2> SUFFICES ASSUME config.kind = "event" PROVE EventWaits(r)'
    BY <1>1 DEF EventWaits, Effects
  <2>1. r \in subs' \/ resolving'[r] > 0 \/ At(r, "await.resolved")' # {} =>
          work'[r]["register"] \in {"active", "done"}
    BY <1>0, <1>1, <1>2, <1>3 DEF EventWaits, Effects
  <2>2. ASSUME Live(r)', index'[r].wait = "resolved"
        PROVE  At(r, "await.registered")' = {} /\ (work'[r]["register"] = "waiting" => ToBeMarked(r)')
    <3>1. CASE 1 \in At(r, "await.resolved")
      <4>1. At(r, "await.registered") = {} /\ work[r]["register"] \in {"active", "done"}
        BY <1>0, <1>4, <3>1 DEF EventWaits
      <4> QED BY <1>1, <1>2, <1>3, <4>1 DEF Effects
    <3>2. CASE index[r].wait = "resolved"
      <4>1. Live(r) /\ work[r]["register"] # "none"
        BY <1>0, <1>9, <2>2, <3>2 DEF RegisterFirst, Released
      <4>2. At(r, "await.registered") = {} /\ (work[r]["register"] = "waiting" => ToBeMarked(r))
        BY <1>0, <3>2, <4>1 DEF EventWaits
      <4>3. At(r, "await.registered")' = {}
        BY <1>2, <1>3, <4>2
      <4> QED BY <1>1, <2>2, <4>1, <4>2, <4>3 DEF MarkStays, Effects
    <3> QED BY <1>1, <2>2, <3>1, <3>2 DEF Effects
  <2>3. ASSUME Live(r)', work'[r]["step"] # "none" \/ At(r, "step.started")' # {}
        PROVE  index'[r].wait = "resolved"
    <3>1. CASE work[r]["step"] # "none" \/ At(r, "step.started") # {}
      <4>1. Live(r) /\ work[r]["register"] # "none"
        BY <1>0, <1>9, <2>3, <3>1 DEF RegisterFirst, Released
      <4>2. index[r].wait = "resolved" /\ At(r, "await.registered") = {}
        BY <1>0, <3>1, <4>1 DEF EventWaits
      <4> QED BY <1>1, <4>1, <4>2 DEF Effects
    <3>2. CASE ~(work[r]["step"] # "none" \/ At(r, "step.started") # {})
      BY <1>1, <1>2, <1>3, <2>3, <3>2 DEF Effects
    <3> QED BY <3>1, <3>2
  <2> QED BY <1>0, <1>1, <1>3, <2>1, <2>2, <2>3 DEF EventWaits, Effects
<1>12. Covered(r)' /\ ExtendsHead(r)'
  <2>1. CASE Persist(r)
    <3>1. /\ UNCHANGED <<extending, chain, jobs>> /\ r \notin persisted /\ persisted' = persisted \cup {r}
          /\ UNCHANGED index /\ chain[r] # <<>> /\ stream'[r] = stream[r] \cup {Head(chain[r]).type}
      BY <1>0, <2>1 DEF Persist, scheduler
    <3>2. 1 \in At(r, Head(chain[r]).type)
      BY <1>0, <3>1 DEF At
    <3>3. Live(r)' => Live(r)
      BY <1>0, <3>1, <3>2 DEF StartsFirst, Live, Unfinished
    <3> QED BY <1>0, <1>1, <3>1, <3>3, WatchKept
  <2>2. CASE UnscheduleStall(r)
    <3>1. /\ r \in extending' /\ UNCHANGED <<persisted, chain>> /\ r \in persisted
          /\ Head(chain[r]).type \in StartTypes \cup FinishTypes
      BY <2>2 DEF UnscheduleStall
    <3> QED BY <3>1 DEF Covered, ExtendsHead
  <2>3. ASSUME NEW types, NEW pub \in OneEvent, Handle(r, types, pub),
               \/ Schedule(<<"stall", r>>)
               \/ types \cap (StartTypes \cup FinishTypes) = {} /\ (Live(r)' => UNCHANGED scheduler)
        PROVE  Covered(r)' /\ ExtendsHead(r)'
    <3>1. extending' = extending \ {r} /\ Head(chain[r]).type \in types
      BY <2>3 DEF Handle
    <3>2. ExtendsHead(r)'
      BY <3>1 DEF ExtendsHead
    <3>3. CASE Schedule(<<"stall", r>>)
      BY <3>2, <3>3 DEF Schedule, Covered
    <3>4. CASE types \cap (StartTypes \cup FinishTypes) = {} /\ (Live(r)' => UNCHANGED scheduler)
      <4>1. r \notin extending
        BY <1>0, <3>1, <3>4 DEF ExtendsHead
      <4>2. Live(r)' => Live(r) \/ <<"stall", r>> \in jobs'
        BY <1>1 DEF Effects
      <4> QED BY <1>0, <1>1, <3>2, <3>4, <4>1, <4>2 DEF Covered, MarkStays, scheduler
    <3> QED BY <2>3, <3>3, <3>4
  <2>4. <<>> \in OneEvent /\ <<Event("flow.completed")>> \in OneEvent /\ <<Event("flow.failed")>> \in OneEvent
        /\ <<Event("step.failed")>> \in OneEvent
    BY DEF OneEvent
  <2>5. CASE OnFlowStart(r) \/ OnStarted(r) \/ OnFinished(r)
    <3>1. Schedule(<<"stall", r>>) /\ \E types : \E pub \in OneEvent : Handle(r, types, pub)
      BY <2>4, <2>5 DEF OnFlowStart, OnStarted, OnFinished
    <3> QED BY <2>3, <3>1
  <2>6. (TerminalTypes \cup {"flow.cancel", "await.registered", "await.resolved", "await.timeout"})
          \cap (StartTypes \cup FinishTypes) = {}
    BY DEF TerminalTypes, StartTypes, Steps, StartOf, FinishTypes
  <2>7. CASE OnAwaitRegistered(r) \/ OnAwaitResolved(r)
    <3>1. UNCHANGED scheduler
      BY <2>7 DEF OnAwaitRegistered, OnAwaitResolved
    <3>2. Handle(r, {"await.registered"}, <<>>) \/ Handle(r, {"await.resolved"}, <<>>)
      BY <2>7 DEF OnAwaitRegistered, OnAwaitResolved
    <3> QED BY <2>3, <2>4, <2>6, <3>1, <3>2
  <2>8. CASE OnAwaitTimeout(r)
    <3>1. UNCHANGED scheduler
      BY <2>8 DEF OnAwaitTimeout
    <3>2. \E pub \in OneEvent : Handle(r, {"await.timeout"}, pub)
      BY <2>4, <2>8 DEF OnAwaitTimeout
    <3> QED BY <2>3, <2>6, <3>1, <3>2
  <2>9. CASE OnFlowCancel(r) \/ OnTerminal(r)
    <3>1. PICK types \in {{"flow.cancel"}, TerminalTypes} : Handle(r, types, <<>>)
      BY <2>9 DEF OnFlowCancel, OnTerminal
    <3>2. /\ Head(chain[r]).type \in types /\ 1 \in At(r, Head(chain[r]).type) /\ (Unfinished(r)' <=> Unfinished(r))
          /\ Head(chain[r]).type \in stream[r] \/ ~Unfinished(r)
      <4>1. UNCHANGED scheduler \/ Schedule(<<"stall", r>>) \/ Unschedule(JobsOf(r))
        BY <2>9 DEF OnFlowCancel, OnTerminal
      <4> QED BY <2>4, <3>1, <4>1, HandledEffects
    <3>3. ~Unfinished(r)'
      <4>1. CASE types = {"flow.cancel"}
        BY <3>2, <4>1 DEF Unfinished
      <4>2. CASE types = TerminalTypes
        BY <1>0, <3>2, <4>2 DEF VerdictEnds
      <4> QED BY <3>1, <4>1, <4>2
    <3>4. types \cap (StartTypes \cup FinishTypes) = {}
      BY <2>6, <3>1
    <3>5. ~Live(r)'
      BY <3>3 DEF Live
    <3> QED BY <2>3, <2>4, <3>1, <3>4, <3>5
  <2> QED BY <2>1, <2>2, <2>5, <2>7, <2>8, <2>9 DEF Wiring
<1> QED BY <1>6, <1>8, <1>10, <1>11, <1>12 DEF WatchInv

\* A step that changes neither the await's work, timer and entry nor its events.
LEMMA QuietWatches ==
  ASSUME WInv, NEW r \in Runs, Local(r),
         Live(r)' => Live(r), config' = config, phase' = phase,
         Shrinks(r, AwaitEvents),
         index'[r].wait = index[r].wait \/ (index'[r].wait = "none" /\ ~Live(r)'),
         work'[r]["register"] = work[r]["register"],
         work'[r]["step"] # "none" => work[r]["step"] # "none",
         r \in subs' => r \in subs, resolving'[r] = resolving[r],
         <<"wait", r>> \in jobs' => <<"wait", r>> \in jobs,
         TimerRuns(r)' => TimerRuns(r),
         Live(r)' /\ <<"stall", r>> \in jobs => <<"stall", r>> \in jobs',
         extending' = extending, persisted' = persisted,
         r \in persisted => Head(chain'[r]) = Head(chain[r]),
         EntryOrder(r)'
  PROVE  WatchInv(r)'
<1>1. /\ TypeOK /\ Covered(r) /\ ExtendsHead(r) /\ RegisterFirst(r) /\ TimeWaits(r) /\ EventWaits(r)
      /\ MarkStays(r)
  BY WatchFacts, LocalMarks
<1>2. Covered(r)' /\ ExtendsHead(r)'
  BY <1>1, WatchKept
<1>3. RegisterFirst(r)' /\ TimeWaits(r)' /\ EventWaits(r)'
  BY <1>1, AwaitKept
<1> QED BY <1>2, <1>3 DEF WatchInv

LEMMA CallsWatch ==
  ASSUME WInv, NEW r \in Runs, StartFlow(r) \/ CancelFlow(r) \/ RestartFlow(r) \/ ClearHistory(r)
  PROVE  WatchInv(r)'
<1> USE DEF scheduler, awaits, recovery
<1>0. /\ TypeOK /\ Untouched(r) /\ HeadKept(r) /\ EntryOrder(r) /\ index[r] \in Entries \cup {Absent}
      /\ chain[r] \in Seq(Messages) /\ {"entry", "register", "step"} \subseteq WorkNames
      /\ index \in [Runs -> Entries \cup {Absent}] /\ stream \in [Runs -> SUBSET EventTypes]
  BY WatchFacts, RunFacts DEF TypeOK
<1>1. Local(r) /\ phase' = phase /\ config' = config
  BY DEF Local, StartFlow, CancelFlow, RestartFlow, ClearHistory
<1>2. /\ UNCHANGED <<jobs, armed, due, subs, resolving>>
      /\ (TimerRuns(r)' <=> TimerRuns(r))
  BY <1>1 DEF StartFlow, CancelFlow, RestartFlow, ClearHistory, TimerRuns
<1>3. PICK e \in Messages : /\ UNCHANGED bus \/ Publish(r, e)
                            /\ e.type \in {"flow.start", "flow.cancel"}
  <2>1. CASE StartFlow(r)
    BY <2>1, MessageFacts DEF StartFlow, EventTypes
  <2>2. CASE CancelFlow(r) \/ RestartFlow(r)
    <3>1. index[r].status \in Statuses \cup {"absent"}
      BY <1>0, EntryFacts
    <3> QED BY <2>2, <3>1, MessageFacts DEF CancelFlow, RestartFlow
  <2>3. CASE ClearHistory(r)
    BY <2>3, MessageFacts DEF ClearHistory, EventTypes
  <2> QED BY <2>1, <2>2, <2>3
<1>4. e.type \notin EntryEvents \cup AwaitEvents
  BY <1>3 DEF EntryEvents, AwaitEvents
<1>5. Shrinks(r, EntryEvents \cup AwaitEvents)
  BY <1>0, <1>3, <1>4, PublishShrinks
<1>6. Shrinks(r, EntryEvents) /\ Shrinks(r, AwaitEvents)
  BY <1>5, ShrinksLess
<1>7. /\ extending' = extending /\ persisted' = persisted
      /\ r \in persisted => Head(chain'[r]) = Head(chain[r])
      /\ At(r, "await.timeout")' = At(r, "await.timeout")
  <2>1. CASE UNCHANGED bus
    BY <2>1 DEF bus, At
  <2>2. CASE Publish(r, e)
    BY <1>0, <1>3, <2>2, PublishFacts DEF HeadKept
  <2> QED BY <1>3, <2>1, <2>2
<1>8. /\ work'[r]["register"] = work[r]["register"] /\ work'[r]["step"] = work[r]["step"]
  <2>1. CASE StartFlow(r)
    <3>1. Enqueue(r, {"entry"}) /\ {"entry"} \in SUBSET WorkNames
      BY <1>0, <2>1 DEF StartFlow
    <3> QED BY <1>0, <3>1, EnqueueFacts
  <2>2. CASE CancelFlow(r) \/ RestartFlow(r) \/ ClearHistory(r)
    BY <2>2 DEF CancelFlow, RestartFlow, ClearHistory
  <2> QED BY <2>1, <2>2
<1>9. \/ UNCHANGED <<index, stream>>
      \/ index'[r] = Absent /\ stream'[r] = {}
  BY <1>0 DEF StartFlow, CancelFlow, RestartFlow, ClearHistory, store
<1>10. /\ Live(r)' => Live(r)
       /\ index'[r].wait = index[r].wait \/ (index'[r].wait = "none" /\ ~Live(r)')
       /\ index'[r].bare = "timeout" => index[r].bare = "timeout"
       /\ "entry.completed" \in stream'[r] => "entry.completed" \in stream[r]
  BY <1>9 DEF Live, Unfinished, Absent
<1>11. AwaitBegun(r)' => AwaitBegun(r)
  BY <1>2, <1>7, <1>8, <1>10 DEF AwaitBegun
<1>12. EntryOrder(r)'
  BY <1>0, <1>6, <1>10, <1>11, EntryOrderKept
<1> QED BY <1>1, <1>2, <1>6, <1>7, <1>8, <1>10, <1>12, QuietWatches

LEMMA StallWatches ==
  ASSUME WInv, NEW r \in Runs,
         \/ StallFires(r) \/ (\E m \in Markers : MarkAsStalled(r, m)) \/ RecoverRun(r)
         \/ \E j \in JobsOf(r) : FinishJob(j) \/ Elapse(j)
  PROVE  WatchInv(r)'
<1> USE DEF scheduler, awaits, recovery, bus
<1>0. /\ TypeOK /\ HeadKept(r) /\ EntryOrder(r) /\ index[r] \in Entries \cup {Absent} /\ FiredInVain(r)
      /\ index \in [Runs -> Entries \cup {Absent}] /\ chain[r] \in Seq(Messages) /\ Rereads(r) /\ Timed
  BY WatchFacts
<1>1. Local(r)
  BY DEF Local, Timers
<1>2. /\ phase' = phase /\ config' = config
      /\ UNCHANGED <<work, chain, persisted, extending, subs, resolving>>
  BY DEF StallFires, MarkAsStalled, RecoverRun, FinishJob, Elapse
<1> DEFINE TimersStay ==
             /\ <<"wait", r>> \in jobs' => <<"wait", r>> \in jobs
             /\ TimerRuns(r)' => TimerRuns(r)
             /\ Live(r) /\ <<"stall", r>> \in jobs => <<"stall", r>> \in jobs'
           EntryStays ==
             /\ Live(r)' => Live(r)
             /\ index'[r].wait = index[r].wait /\ index'[r].bare = index[r].bare
             /\ "entry.completed" \in stream'[r] => "entry.completed" \in stream[r]
<1>3. TimersStay
  <2>1. CASE StallFires(r) \/ (\E m \in Markers : MarkAsStalled(r, m)) \/ RecoverRun(r)
    BY <2>1 DEF StallFires, MarkAsStalled, RecoverRun, Fire, TimerRuns
  <2>2. ASSUME NEW j \in JobsOf(r), FinishJob(j) PROVE TimersStay
    BY <1>0, <2>2 DEF FinishJob, TimerRuns, FiredInVain
  <2>3. ASSUME NEW j \in JobsOf(r), Elapse(j) PROVE TimersStay
    BY <2>3 DEF Elapse, TimerRuns
  <2> QED BY <2>1, <2>2, <2>3
<1>4. EntryStays
  <2>1. ASSUME NEW m \in Markers, MarkAsStalled(r, m) PROVE EntryStays
    BY <2>1, MarkedEnds
  <2>2. CASE RecoverRun(r)
    <3>1. index'[r] = index[r] \/ index'[r] = [index[r] EXCEPT !.status = "awaiting"]
      BY <1>0, <2>2 DEF RecoverRun
    <3>2. LET n == [index[r] EXCEPT !.status = "awaiting"]
          IN  n # Absent /\ n.bare = index[r].bare /\ n.wait = index[r].wait
      <4>1. "awaiting" \in Statuses
        BY DEF Statuses
      <4> QED BY <1>0, <4>1, StatusFacts
    <3>3. index[r] # Absent /\ stream' = stream
      BY <1>0, <2>2 DEF RecoverRun, Rereads
    <3> QED BY <3>1, <3>2, <3>3 DEF Live, Unfinished
  <2>3. CASE ~RecoverRun(r) /\ ~\E m \in Markers : MarkAsStalled(r, m)
    <3>1. UNCHANGED <<index, stream>>
      BY <2>3 DEF StallFires, FinishJob, Elapse, store
    <3> QED BY <3>1 DEF Live, Unfinished
  <2> QED BY <2>1, <2>2, <2>3
<1>5. \A type : At(r, type)' = At(r, type)
  BY <1>2 DEF At
<1>6. \A type : \A n \in At(r, type)' : n \in Nat /\ n + 0 \in At(r, type)
  BY <1>0, <1>5, AtFacts
<1>7. Shrinks(r, EntryEvents) /\ Shrinks(r, AwaitEvents)
  BY <1>6 DEF Shrinks
<1>8. AwaitBegun(r)' => AwaitBegun(r)
  BY <1>2, <1>3, <1>4, <1>5 DEF AwaitBegun
<1>9. EntryOrder(r)'
  BY <1>0, <1>4, <1>7, <1>8, EntryOrderKept
<1> QED BY <1>1, <1>2, <1>3, <1>4, <1>7, <1>9, QuietWatches

\* A step of a worker or of an await's end writes neither entry nor history.
LEMMA AwaitStepFacts ==
  ASSUME WInv, NEW r \in Runs,
         Worker(r) \/ WaitFires(r) \/ EventArrives(r) \/ ResolveEventAwait(r)
  PROVE  /\ Local(r) /\ MarkStays(r) /\ UNCHANGED <<config, phase, index, stream>>
         /\ (Live(r)' <=> Live(r)) /\ (Worker(r) => phase = "up")
         /\ Covered(r)' /\ ExtendsHead(r)'
<1>0. /\ TypeOK /\ HeadKept(r) /\ Covered(r) /\ ExtendsHead(r)
      /\ <<"wait", r>> # <<"stall", r>>
  BY WatchFacts, JobFacts
<1>1. Local(r)
  BY DEF Local, Timers
<1>2. MarkStays(r)
  BY <1>1, LocalMarks
<1>3. UNCHANGED <<config, phase, index, stream>>
  BY DEF Worker, StartStep, CompleteStep, ScheduleWait, AnnounceWait, SubscribeWait, ScheduleTimeout,
         WaitFires, EventArrives, ResolveEventAwait, store
<1>4. <<"stall", r>> \in jobs' <=> <<"stall", r>> \in jobs
  BY <1>0 DEF Worker, StartStep, CompleteStep, ScheduleWait, AnnounceWait, SubscribeWait, ScheduleTimeout,
         WaitFires, EventArrives, ResolveEventAwait, scheduler, Schedule, Unschedule, Fire
<1>5. UNCHANGED bus \/ \E e \in Messages : Publish(r, e)
  <2>1. \A type \in EventTypes : Event(type) \in Messages
    BY MessageFacts
  <2>2. /\ {"await.registered", "await.resolved", "await.timeout"} \subseteq EventTypes
        /\ \A w \in Steps : {StartOf[w], CompletionOf[w]} \subseteq EventTypes
    BY DEF EventTypes, Steps, StartOf, CompletionOf, FinishTypes
  <2>3. UNCHANGED bus \/ \E type \in EventTypes : Publish(r, Event(type))
    BY <2>2 DEF Worker, StartStep, CompleteStep, ScheduleWait, AnnounceWait, SubscribeWait, ScheduleTimeout,
           WaitFires, EventArrives, ResolveEventAwait
  <2> QED BY <2>1, <2>3
<1> DEFINE BusStays ==
             extending' = extending /\ persisted' = persisted /\ (r \in persisted => Head(chain'[r]) = Head(chain[r]))
<1>6. BusStays
  <2>1. CASE UNCHANGED bus
    BY <2>1 DEF bus
  <2>2. ASSUME NEW e \in Messages, Publish(r, e) PROVE BusStays
    BY <1>0, <2>2, PublishFacts DEF HeadKept
  <2> QED BY <1>5, <2>1, <2>2
<1>7. Live(r)' <=> Live(r)
  BY <1>3 DEF Live, Unfinished
<1>8. Covered(r)' /\ ExtendsHead(r)'
  BY <1>0, <1>2, <1>4, <1>6, <1>7, WatchKept
<1>9. Worker(r) => phase = "up"
  BY DEF Worker, StartStep, CompleteStep, ScheduleWait, AnnounceWait, SubscribeWait, ScheduleTimeout, Take
<1> QED BY <1>1, <1>2, <1>3, <1>7, <1>8, <1>9

\* .. and so leaves the order of the entry step's events, if it publishes none of them.
LEMMA EntryOrderStays ==
  ASSUME WInv, NEW r \in Runs, UNCHANGED <<index, stream>>,
         NEW e \in Messages, UNCHANGED bus \/ Publish(r, e), e.type \notin EntryEvents,
         e.type = "await.timeout" => <<"wait", r>> \in jobs,
         work'[r]["register"] # "none" => work[r]["register"] # "none",
         <<"wait", r>> \in jobs' => <<"wait", r>> \in jobs \/ work[r]["register"] # "none"
  PROVE  EntryOrder(r)'
<1>0. TypeOK /\ EntryOrder(r) /\ Shrinks(r, EntryEvents)
  BY WatchFacts, PublishShrinks
<1>1. At(r, "await.timeout")' # {} => At(r, "await.timeout") # {} \/ e.type = "await.timeout"
  <2>1. CASE UNCHANGED bus
    BY <2>1 DEF bus, At
  <2>2. CASE Publish(r, e)
    BY <1>0, <2>2, PublishFacts
  <2> QED BY <2>1, <2>2
<1>2. AwaitBegun(r)' => AwaitBegun(r)
  BY <1>1 DEF AwaitBegun
<1> QED BY <1>0, <1>2, EntryOrderKept

LEMMA StepsWatch ==
  ASSUME WInv, NEW r \in Runs, NEW w \in Steps, StartStep(r, w) \/ CompleteStep(r, w)
  PROVE  WatchInv(r)'
<1>0. /\ TypeOK /\ HeadKept(r) /\ EntryOrder(r) /\ EntryFirst(r) /\ RegisterFirst(r) /\ TimeWaits(r)
      /\ EventWaits(r) /\ chain[r] \in Seq(Messages)
      /\ Steps \subseteq WorkNames /\ {"entry", "register", "step"} \subseteq WorkNames
      /\ Steps = {"entry", "step"} /\ {"waiting", "active", "done"} \subseteq WorkStates
  BY WatchFacts DEF Steps, WorkNames, WorkStates
<1>1. /\ MarkStays(r) /\ UNCHANGED <<config, phase, index, stream>> /\ (Live(r)' <=> Live(r))
      /\ Covered(r)' /\ ExtendsHead(r)'
  BY AwaitStepFacts DEF Worker
<1>2. UNCHANGED <<jobs, armed, due, subs, resolving>>
  BY DEF StartStep, CompleteStep, scheduler, awaits
<1>3. TimerRuns(r)' <=> TimerRuns(r)
  BY <1>1, <1>2 DEF TimerRuns
<1>4. PICK e \in Messages :
        /\ Publish(r, e)
        /\ \/ StartStep(r, w) /\ e.type = StartOf[w]
           \/ CompleteStep(r, w) /\ e.type = CompletionOf[w]
  <2>1. \A x \in Steps : {StartOf[x], CompletionOf[x]} \subseteq EventTypes
    BY DEF EventTypes, Steps, StartOf, CompletionOf, FinishTypes
  <2> QED BY <2>1, MessageFacts DEF StartStep, CompleteStep
<1>5. \E from, to \in WorkStates \ {"none"} :
        /\ Take(r, w, from, to)
        /\ StartStep(r, w) => from = "waiting" /\ to = "active"
        /\ CompleteStep(r, w) => from = "active" /\ to = "done"
  <2>1. StartStep(r, w) => Take(r, w, "waiting", "active")
    BY DEF StartStep
  <2>2. CompleteStep(r, w) => Take(r, w, "active", "done")
    BY DEF CompleteStep
  <2>3. ~(StartStep(r, w) /\ CompleteStep(r, w))
    BY <2>1, <2>2 DEF Take
  <2> QED BY <1>0, <2>1, <2>2, <2>3
<1>6. /\ work[r][w] # "none" /\ work'[r][w] # "none"
      /\ \A v \in WorkNames : v # w => work'[r][v] = work[r][v]
      /\ StartStep(r, w) => work[r][w] = "waiting"
      /\ CompleteStep(r, w) => work[r][w] = "active"
  BY <1>0, <1>5, TakeFacts
<1>7. /\ work'[r]["register"] = work[r]["register"]
      /\ work'[r]["step"] # "none" <=> work[r]["step"] # "none"
  BY <1>0, <1>6
<1>8. /\ \A type : type # e.type => At(r, type)' = At(r, type)
      /\ \A type : \A n \in At(r, type)' : n \in At(r, type) \/ n = Len(chain[r]) + 1
      /\ \A type : At(r, type) \subseteq 1..Len(chain[r]) /\ Len(chain[r]) \in Nat
  BY <1>0, <1>4, PublishFacts, AtFacts
<1>9. CASE w = "step"
  <2>1. e.type \in {"step.started", "step.completed"}
    BY <1>4, <1>9 DEF StartOf, CompletionOf
  <2>2. EntryOrder(r)'
    BY <1>1, <1>2, <1>4, <1>7, <2>1, EntryOrderStays DEF EntryEvents
  <2>3. work[r]["step"] # "none" /\ Released(r) /\ Released(r)'
    BY <1>6, <1>9 DEF Released
  <2>4. RegisterFirst(r)'
    BY <1>0, <1>1, <1>2, <1>7, <1>8, <2>1, <2>3 DEF RegisterFirst
  <2>5. TimeWaits(r)'
    BY <1>0, <1>1, <1>2, <1>3, <1>7, <1>8, <2>1, <2>3 DEF TimeWaits, MarkStays
  <2>6. EventWaits(r)'
    BY <1>0, <1>1, <1>2, <1>7, <1>8, <2>1, <2>3 DEF EventWaits, MarkStays
  <2> QED BY <1>1, <2>2, <2>4, <2>5, <2>6 DEF WatchInv
<1>10. CASE w = "entry"
  <2>1. /\ StartStep(r, w) => e.type = "entry.started" /\ work[r]["entry"] = "waiting"
        /\ CompleteStep(r, w) => e.type = "entry.completed" /\ work[r]["entry"] = "active"
        /\ e.type \in {"entry.started", "entry.completed"}
    BY <1>4, <1>5, <1>6, <1>10 DEF StartOf, CompletionOf, Take
  <2>2. e.type \notin AwaitEvents
    BY <2>1 DEF AwaitEvents
  <2>3. Shrinks(r, AwaitEvents)
    BY <1>0, <1>4, <2>2, PublishShrinks
  <2>4. RegisterFirst(r)' /\ TimeWaits(r)' /\ EventWaits(r)'
    BY <1>0, <1>1, <1>2, <1>3, <1>7, <2>3, AwaitKept
  <2>5. /\ At(r, "entry.completed") = {} /\ "entry.completed" \notin stream[r] /\ ~AwaitBegun(r)
    BY <1>0, <2>1 DEF EntryFirst
  <2>6. ~AwaitBegun(r)'
    BY <1>1, <1>2, <1>7, <1>8, <2>1, <2>5 DEF AwaitBegun
  <2>7. EntryOrder(r)'
    BY <1>1, <1>8, <2>1, <2>5, <2>6 DEF EntryOrder
  <2> QED BY <1>1, <2>4, <2>7 DEF WatchInv
<1> QED BY <1>0, <1>9, <1>10

LEMMA RegistersWatch ==
  ASSUME WInv, NEW r \in Runs,
         ScheduleWait(r) \/ AnnounceWait(r) \/ SubscribeWait(r) \/ ScheduleTimeout(r)
  PROVE  WatchInv(r)'
<1>0. /\ TypeOK /\ HeadKept(r) /\ RegisterFirst(r) /\ TimeWaits(r)
      /\ EventWaits(r) /\ {"register", "step"} \subseteq WorkNames
      /\ {"waiting", "active", "done"} \subseteq WorkStates
  BY WatchFacts DEF WorkStates
<1>1. /\ MarkStays(r) /\ UNCHANGED <<config, phase, index, stream>> /\ (Live(r)' <=> Live(r))
      /\ Covered(r)' /\ ExtendsHead(r)' /\ phase = "up"
  BY AwaitStepFacts DEF Worker
<1>2. ~ToBeMarked(r)
  BY <1>1 DEF ToBeMarked
<1>3. PICK e \in Messages : (UNCHANGED bus \/ Publish(r, e)) /\ e.type = "await.registered"
  BY MessageFacts DEF ScheduleWait, AnnounceWait, SubscribeWait, ScheduleTimeout, EventTypes
<1>4. \E from, to \in WorkStates \ {"none"} :
        /\ Take(r, "register", from, to)
        /\ ScheduleWait(r) \/ SubscribeWait(r) => from = "waiting" /\ to = "active"
        /\ AnnounceWait(r) \/ ScheduleTimeout(r) => from = "active" /\ to = "done"
  <2>1. ScheduleWait(r) \/ SubscribeWait(r) => Take(r, "register", "waiting", "active")
    BY DEF ScheduleWait, SubscribeWait
  <2>2. AnnounceWait(r) \/ ScheduleTimeout(r) => Take(r, "register", "active", "done")
    BY DEF AnnounceWait, ScheduleTimeout
  <2>3. ~((ScheduleWait(r) \/ SubscribeWait(r)) /\ (AnnounceWait(r) \/ ScheduleTimeout(r)))
    BY <2>1, <2>2 DEF Take
  <2> QED BY <1>0, <2>1, <2>2, <2>3
<1>5. /\ work[r]["register"] # "none" /\ work'[r]["step"] = work[r]["step"]
      /\ ScheduleWait(r) \/ SubscribeWait(r) =>
           work[r]["register"] = "waiting" /\ work'[r]["register"] = "active"
      /\ AnnounceWait(r) \/ ScheduleTimeout(r) =>
           work[r]["register"] = "active" /\ work'[r]["register"] = "done"
  BY <1>0, <1>4, TakeFacts
<1>6. EntryOrder(r)'
  <2>1. <<"wait", r>> \in jobs' => <<"wait", r>> \in jobs \/ work[r]["register"] # "none"
    BY <1>5
  <2> QED BY <1>1, <1>3, <1>5, <2>1, EntryOrderStays DEF EntryEvents
<1>7. RegisterFirst(r)'
  BY <1>5 DEF RegisterFirst
<1>8. /\ \A type : type # "await.registered" => At(r, type)' = At(r, type)
      /\ \A type : \A n \in At(r, type)' : n \in At(r, type) \/ n = Len(chain[r]) + 1
      /\ UNCHANGED bus => At(r, "await.registered")' = At(r, "await.registered")
  <2>1. CASE UNCHANGED bus
    BY <2>1 DEF bus, At
  <2>2. CASE Publish(r, e)
    <3>1. \A type : type # "await.registered" => At(r, type)' = At(r, type)
      BY <1>0, <1>3, <2>2, PublishFacts
    <3>2. \A type : \A n \in At(r, type)' : n \in At(r, type) \/ n = Len(chain[r]) + 1
      BY <1>0, <2>2, PublishFacts
    <3>3. UNCHANGED bus => At(r, "await.registered")' = At(r, "await.registered")
      BY DEF bus, At
    <3> QED BY <3>1, <3>2, <3>3
  <2> QED BY <1>3, <2>1, <2>2
<1>9. Released(r)' <=> Released(r)
  BY <1>1, <1>5, <1>8 DEF Released
<1>10. TimeWaits(r)'
  <2> SUFFICES ASSUME config.kind = "time" PROVE TimeWaits(r)'
    BY <1>1 DEF TimeWaits
  <2>1. /\ r \notin subs' /\ resolving'[r] = 0
    BY <1>0 DEF TimeWaits, ScheduleWait, AnnounceWait, SubscribeWait, ScheduleTimeout, awaits
  <2>2. CASE ScheduleWait(r)
    <3>1. ~(Live(r) /\ Released(r))
      BY <1>0, <1>2, <1>5, <2>2 DEF TimeWaits
    <3>2. UNCHANGED bus
      BY <2>2 DEF ScheduleWait
    <3>3. At(r, "await.registered")' = {} /\ index'[r].wait # "awaiting"
      BY <1>0, <1>1, <1>5, <1>8, <2>2, <3>2 DEF TimeWaits
    <3> QED BY <1>1, <1>5, <1>9, <2>1, <2>2, <3>1, <3>3 DEF TimeWaits
  <2>3. CASE AnnounceWait(r)
    <3>1. TimerRuns(r)' <=> TimerRuns(r)
      BY <1>1, <2>3 DEF AnnounceWait, TimerRuns, scheduler
    <3> QED BY <1>0, <1>1, <1>5, <1>9, <2>1, <2>3, <3>1 DEF TimeWaits
  <2> QED BY <2>2, <2>3 DEF SubscribeWait, ScheduleTimeout
<1>11. EventWaits(r)'
  <2> SUFFICES ASSUME config.kind = "event" PROVE EventWaits(r)'
    BY <1>1 DEF EventWaits
  <2>1. CASE SubscribeWait(r)
    <3>1. /\ resolving' = resolving /\ At(r, "await.resolved") = {} /\ At(r, "await.resolved")' = {}
      BY <1>0, <1>5, <1>8, <2>1 DEF SubscribeWait, EventWaits
    <3>2. ~(Live(r) /\ index[r].wait = "resolved")
      BY <1>0, <1>2, <1>5, <2>1 DEF EventWaits
    <3>3. At(r, "step.started")' = At(r, "step.started")
      BY <1>8
    <3> QED BY <1>0, <1>1, <1>5, <2>1, <3>1, <3>2, <3>3 DEF EventWaits
  <2>2. CASE ScheduleTimeout(r)
    <3>1. UNCHANGED bus /\ UNCHANGED awaits
      BY <2>2 DEF ScheduleTimeout
    <3>2. \A type : At(r, type)' = At(r, type)
      BY <3>1 DEF bus, At
    <3> QED BY <1>0, <1>1, <1>5, <2>2, <3>1, <3>2 DEF EventWaits, awaits
  <2> QED BY <2>1, <2>2 DEF ScheduleWait, AnnounceWait
<1> QED BY <1>1, <1>6, <1>7, <1>10, <1>11 DEF WatchInv

LEMMA AwaitsWatch ==
  ASSUME WInv, NEW r \in Runs, WaitFires(r) \/ EventArrives(r) \/ ResolveEventAwait(r)
  PROVE  WatchInv(r)'
<1>0. /\ TypeOK /\ HeadKept(r) /\ RegisterFirst(r) /\ TimeWaits(r) /\ EventWaits(r) /\ Stopped /\ Timed
      /\ chain[r] \in Seq(Messages) /\ resolving \in [Runs -> Nat]
  BY WatchFacts DEF TypeOK
<1>1. /\ MarkStays(r) /\ UNCHANGED <<config, phase, index, stream>> /\ (Live(r)' <=> Live(r))
      /\ Covered(r)' /\ ExtendsHead(r)'
  BY AwaitStepFacts
<1>2. work' = work /\ (r \in subs' => r \in subs)
  BY DEF WaitFires, EventArrives, ResolveEventAwait
<1>3. PICK e \in Messages :
        /\ UNCHANGED bus \/ Publish(r, e)
        /\ e.type \in {"await.resolved", "await.timeout"}
        /\ WaitFires(r) =>
             e.type = IF config.kind = "event" THEN "await.timeout" ELSE "await.resolved"
        /\ ~WaitFires(r) => e.type = "await.resolved"
        /\ EventArrives(r) => UNCHANGED bus
  <2>1. {"await.resolved", "await.timeout"} \subseteq EventTypes
    BY DEF EventTypes
  <2>2. CASE WaitFires(r)
    <3> DEFINE type == IF config.kind = "event" THEN "await.timeout" ELSE "await.resolved"
    <3>1. Publish(r, Event(type)) /\ type \in {"await.resolved", "await.timeout"}
      BY <2>2 DEF WaitFires
    <3>2. Event(type) \in Messages /\ Event(type).type = type
      BY <2>1, <3>1, MessageFacts
    <3>3. ~EventArrives(r) \/ UNCHANGED bus
      BY DEF EventArrives
    <3> QED BY <2>2, <3>1, <3>2, <3>3
  <2>3. CASE ~WaitFires(r)
    <3>1. Event("await.resolved") \in Messages /\ Event("await.resolved").type = "await.resolved"
      BY <2>1, MessageFacts
    <3>2. /\ UNCHANGED bus \/ Publish(r, Event("await.resolved"))
          /\ EventArrives(r) => UNCHANGED bus
      BY <2>3 DEF EventArrives, ResolveEventAwait
    <3> QED BY <2>3, <3>1, <3>2
  <2> QED BY <2>2, <2>3
<1>4. /\ \A type : type # e.type => At(r, type)' = At(r, type)
      /\ \A type : \A n \in At(r, type)' : n \in At(r, type) \/ n = Len(chain[r]) + 1
      /\ \A type : At(r, type) \subseteq 1..Len(chain[r]) /\ Len(chain[r]) \in Nat
      /\ UNCHANGED bus => At(r, "await.resolved")' = At(r, "await.resolved")
  <2>1. CASE UNCHANGED bus
    BY <1>0, <2>1, AtFacts DEF bus, At
  <2>2. CASE Publish(r, e)
    <3>1. UNCHANGED bus => At(r, "await.resolved")' = At(r, "await.resolved")
      BY DEF bus, At
    <3> QED BY <1>0, <1>3, <2>2, <3>1, PublishFacts, AtFacts
  <2> QED BY <1>3, <2>1, <2>2
<1>5. WaitFires(r) => <<"wait", r>> \in jobs /\ phase # "down" /\ ~TimerRuns(r)'
  BY <1>0, <1>1 DEF WaitFires, Fire, Timed, Stopped, TimerRuns
<1>6. /\ <<"wait", r>> \in jobs' => <<"wait", r>> \in jobs
      /\ TimerRuns(r)' => TimerRuns(r)
  <2>1. CASE WaitFires(r)
    BY <1>5, <2>1 DEF WaitFires, Fire
  <2>2. CASE EventArrives(r)
    BY <1>1, <2>2 DEF EventArrives, scheduler, TimerRuns
  <2>3. CASE ResolveEventAwait(r)
    BY <1>1, <2>3 DEF ResolveEventAwait, Unschedule, TimerRuns
  <2> QED BY <2>1, <2>2, <2>3
<1>7. work[r]["register"] # "none"
  <2>1. ~WaitFires(r) => r \in subs \/ resolving[r] > 0
    BY DEF EventArrives, ResolveEventAwait
  <2> QED BY <1>0, <1>5, <2>1 DEF RegisterFirst
<1>8. EntryOrder(r)'
  <2>1. e.type \notin EntryEvents /\ (e.type = "await.timeout" => <<"wait", r>> \in jobs)
    BY <1>3, <1>5 DEF EntryEvents
  <2>2. \/ UNCHANGED bus \/ Publish(r, e)
    BY <1>3
  <2>3. UNCHANGED <<index, stream>>
    BY <1>1
  <2> QED BY <1>2, <1>6, <2>1, <2>2, <2>3, EntryOrderStays
<1>9. RegisterFirst(r)'
  BY <1>2, <1>7 DEF RegisterFirst
<1>10. TimeWaits(r)'
  <2> SUFFICES ASSUME config.kind = "time" PROVE TimeWaits(r)'
    BY <1>1 DEF TimeWaits
  <2>1. r \notin subs /\ resolving[r] = 0
    BY <1>0 DEF TimeWaits
  <2>2. WaitFires(r) /\ resolving' = resolving
    BY <2>1 DEF EventArrives, ResolveEventAwait, WaitFires
  <2>3. At(r, "await.registered")' = At(r, "await.registered")
    BY <1>3, <1>4
  <2>4. Live(r)' /\ work'[r]["register"] = "waiting" => ToBeMarked(r)'
    BY <1>0, <1>1, <1>2, <1>5, <2>2 DEF TimeWaits, MarkStays
  <2> QED BY <1>0, <1>1, <1>2, <1>5, <2>1, <2>2, <2>3, <2>4 DEF TimeWaits
<1>11. EventWaits(r)'
  <2> SUFFICES ASSUME config.kind = "event" PROVE EventWaits(r)'
    BY <1>1 DEF EventWaits
  <2>1. At(r, "await.registered")' = At(r, "await.registered") /\ At(r, "step.started")' = At(r, "step.started")
    BY <1>3, <1>4
  <2>2. ASSUME r \in subs' \/ resolving'[r] > 0 \/ At(r, "await.resolved")' # {}
        PROVE  work'[r]["register"] \in {"active", "done"}
    <3>1. CASE WaitFires(r)
      <4>1. At(r, "await.resolved")' = At(r, "await.resolved") /\ resolving' = resolving
        BY <1>3, <1>4, <3>1 DEF WaitFires
      <4> QED BY <1>0, <1>2, <2>2, <4>1 DEF EventWaits
    <3>2. CASE ~WaitFires(r)
      <4>1. r \in subs \/ resolving[r] > 0
        BY <3>2 DEF EventArrives, ResolveEventAwait
      <4> QED BY <1>0, <1>2, <4>1 DEF EventWaits
    <3> QED BY <3>1, <3>2
  <2>3. \A m \in At(r, "await.registered")', n \in At(r, "await.resolved")' : m < n
    BY <1>0, <1>4, <2>1 DEF EventWaits
  <2>4. Live(r)' /\ index'[r].wait = "resolved" =>
          /\ At(r, "await.registered")' = {}
          /\ work'[r]["register"] = "waiting" => ToBeMarked(r)'
    BY <1>0, <1>1, <1>2, <2>1 DEF EventWaits, MarkStays
  <2>5. Live(r)' /\ (work'[r]["step"] # "none" \/ At(r, "step.started")' # {}) =>
          index'[r].wait = "resolved"
    BY <1>0, <1>1, <1>2, <2>1 DEF EventWaits
  <2> QED BY <2>2, <2>3, <2>4, <2>5 DEF EventWaits
<1> QED BY <1>1, <1>8, <1>9, <1>10, <1>11 DEF WatchInv

\* A step of another run.
LEMMA SameWatches ==
  ASSUME NEW q \in Runs, WatchInv(q), Same(q)
  PROVE  WatchInv(q)'
<1>1. <<"stall", q>> \in JobsOf(q) /\ <<"wait", q>> \in JobsOf(q)
  BY JobFacts
<1>2. \A type : At(q, type)' = At(q, type)
  BY DEF Same, At
<1>3. (Live(q)' <=> Live(q)) /\ (AwaitBegun(q)' <=> AwaitBegun(q)) /\ (Released(q)' <=> Released(q))
      /\ (TimerRuns(q)' <=> TimerRuns(q))
  BY <1>1, <1>2 DEF Same, Live, Unfinished, AwaitBegun, Released, TimerRuns
<1>4. ToBeMarked(q)' <=> ToBeMarked(q)
  BY <1>3 DEF Same, ToBeMarked, Lapsed
<1>5. Covered(q)' /\ ExtendsHead(q)'
  BY <1>1, <1>3, <1>4 DEF Same, WatchInv, Covered, ExtendsHead
<1>6. EntryOrder(q)' /\ RegisterFirst(q)'
  BY <1>1, <1>2, <1>3 DEF Same, WatchInv, EntryOrder, RegisterFirst
<1>7. TimeWaits(q)'
  BY <1>1, <1>2, <1>3, <1>4 DEF Same, WatchInv, TimeWaits
<1>8. EventWaits(q)'
  BY <1>1, <1>2, <1>3, <1>4 DEF Same, WatchInv, EventWaits
<1> QED BY <1>5, <1>6, <1>7, <1>8 DEF WatchInv

LEMMA StoppedKept ==
  ASSUME WInv, NEW r \in Runs, Local(r)
  PROVE  Stopped'
<1>0. Stopped /\ TypeOK
  BY WatchFacts
<1> SUFFICES ASSUME phase' = "down" PROVE armed' = {}
  BY DEF Stopped
<1>1. StartFlow(r) \/ CancelFlow(r) \/ RestartFlow(r) \/ ClearHistory(r) \/ Worker(r) => FALSE
  BY DEF StartFlow, CancelFlow, RestartFlow, ClearHistory, Call, Worker, StartStep, CompleteStep,
         ScheduleWait, AnnounceWait, SubscribeWait, ScheduleTimeout, Take
<1>2. ~Wiring(r)
  BY WiringEffects DEF Effects
<1>3. CASE Timers(r) \/ EventArrives(r) \/ ResolveEventAwait(r)
  BY <1>0, <1>3 DEF Stopped, Timers, WaitFires, StallFires, MarkAsStalled, EventArrives, ResolveEventAwait,
         Fire, Unschedule, scheduler
<1>4. ASSUME NEW j \in JobsOf(r), FinishJob(j) \/ Elapse(j) PROVE armed' = {}
  BY <1>0, <1>4 DEF Stopped, FinishJob, Elapse
<1>5. CASE RecoverRun(r)
  BY <1>0, <1>5 DEF Stopped, RecoverRun, scheduler
<1> QED BY <1>1, <1>2, <1>3, <1>4, <1>5 DEF Local

LEMMA LocalWatches ==
  ASSUME WInv, NEW r \in Runs, Local(r)
  PROVE  WatchedInv'
<1>1. \A q \in Runs : WatchInv(q)
  BY DEF WInv, WatchedInv
<1>2. Base(r)
  <2>1. TypeOK /\ Timed /\ HeadKept(r) /\ Rereads(r)
    BY WatchFacts
  <2> QED BY <2>1, CallsBase, WorkerBase, WiringBase, TimersBase, RecoverBase DEF Local
<1>3. WatchInv(r)'
  BY CallsWatch, StepsWatch, RegistersWatch, WiringWatches, AwaitsWatch, StallWatches
     DEF Local, Worker, Timers
<1>4. ASSUME NEW q \in Runs PROVE WatchInv(q)'
  <2>1. CASE q = r
    BY <1>3, <2>1
  <2>2. CASE q # r
    BY <1>1, <1>2, <2>2, SameWatches DEF Base
  <2> QED BY <2>1, <2>2
<1> QED BY <1>4, StoppedKept DEF WatchedInv

\* A stop: the timeouts in between are lost, and the recovery will mark their runs.
LEMMA CrashWatches ==
  ASSUME WInv, config.kind # "schedule", Crash
  PROVE  WatchedInv'
<1>1. /\ phase # "down" /\ phase' = "down" /\ armed' = {} /\ chain' = [r \in Runs |-> <<>>]
      /\ persisted' = {} /\ extending' = {} /\ subs' = {} /\ resolving' = [r \in Runs |-> 0]
      /\ due' = due \cup ((jobs \cap firing) \ armed)
      /\ UNCHANGED <<config, index, stream, jobs>>
      /\ work' = [r \in Runs |-> [w \in WorkNames |->
             IF work[r][w] = "active" THEN "waiting" ELSE work[r][w]]]
  BY DEF Crash, store
<1>2. ASSUME NEW r \in Runs PROVE WatchInv(r)'
  <2>0. /\ TypeOK /\ Timed /\ HeadKept(r) /\ Covered(r) /\ ExtendsHead(r) /\ RegisterFirst(r)
        /\ TimeWaits(r) /\ EventWaits(r) /\ work[r] \in [WorkNames -> WorkStates]
    BY WatchFacts
  <2>1. (\A type : At(r, type)' = {}) /\ resolving'[r] = 0 /\ (Live(r)' <=> Live(r))
    BY <1>1 DEF At, Live, Unfinished
  <2>2. /\ work'[r]["register"] = IF work[r]["register"] = "active" THEN "waiting" ELSE work[r]["register"]
        /\ work'[r]["step"] = IF work[r]["step"] = "active" THEN "waiting" ELSE work[r]["step"]
    BY <1>1 DEF WorkNames
  <2>3. TimerRuns(r)' => TimerRuns(r) /\ <<"wait", r>> \in jobs
    BY <1>1, <2>0 DEF TimerRuns, Timed
  <2>4. index[r].wait # "awaiting" \/ Lapsed(r) \/ (config.kind = "time" /\ <<"wait", r>> \notin jobs)
          => ToBeMarked(r)'
    BY <1>1, <2>3 DEF ToBeMarked, Lapsed
  <2>5. ToBeMarked(r) => ToBeMarked(r)'
    BY <2>4 DEF ToBeMarked
  <2>6. Covered(r)' /\ ExtendsHead(r)'
    <3>1. Live(r) /\ r \in extending => index[r].wait # "awaiting" \/ Lapsed(r)
      BY <2>0, ExtendsUnawaited DEF ExtendsHead
    <3> QED BY <1>1, <2>0, <2>1, <2>4, <2>5, <3>1 DEF Covered, ExtendsHead
  <2>7. EntryOrder(r)'
    BY <2>1 DEF EntryOrder
  <2>8. Released(r)' => Released(r)
    BY <1>1, <2>1, <2>2 DEF Released
  <2>9. RegisterFirst(r)'
    BY <1>1, <2>0, <2>1, <2>2, <2>8 DEF RegisterFirst
  <2>10. TimeWaits(r)'
    <3> SUFFICES ASSUME config.kind = "time" PROVE TimeWaits(r)'
      BY <1>1 DEF TimeWaits
    <3>1. Live(r) /\ work'[r]["register"] = "waiting" => ToBeMarked(r)'
      BY <2>0, <2>2, <2>4, <2>5 DEF TimeWaits
    <3> QED BY <1>1, <2>0, <2>1, <2>2, <2>3, <2>8, <3>1 DEF TimeWaits
  <2>11. EventWaits(r)'
    BY <1>1, <2>0, <2>1, <2>2, <2>4 DEF EventWaits
  <2> QED BY <2>6, <2>7, <2>9, <2>10, <2>11 DEF WatchInv
<1>3. Stopped'
  BY <1>1 DEF Stopped
<1> QED BY <1>2, <1>3 DEF WatchedInv

\* The steps of the startup: a run to be marked is read as one.
LEMMA StartupWatches ==
  ASSUME WInv, Boot \/ ReadRuns \/ ValidateStats
  PROVE  WatchedInv'
<1>1. /\ UNCHANGED <<config, index, stream, work, chain, persisted, extending, subs, resolving, marking>>
      /\ phase # "up" /\ phase' \in {"booting", "recovering", "up"}
      /\ jobs' \subseteq jobs /\ \A r \in Runs : <<"stall", r>> \in jobs => <<"stall", r>> \in jobs'
  <2>1. CASE Boot
    BY <2>1 DEF Boot, store, bus, awaits, recovery
  <2>2. CASE ReadRuns \/ ValidateStats
    BY <2>2 DEF ReadRuns, ValidateStats, store, scheduler, bus, awaits
  <2> QED BY <2>1, <2>2
<1>2. ASSUME NEW r \in Runs PROVE WatchInv(r)'
  <2>0. /\ TypeOK /\ Covered(r) /\ ExtendsHead(r) /\ EntryOrder(r) /\ RegisterFirst(r)
        /\ TimeWaits(r) /\ EventWaits(r) /\ KeptActive(r) /\ Rereads(r)
    BY WatchFacts
  <2>1. (\A type : At(r, type)' = At(r, type)) /\ (Live(r)' <=> Live(r))
    BY <1>1 DEF At, Live, Unfinished
  <2>2. TimerRuns(r)' => TimerRuns(r)
    <3>1. CASE Boot
      BY <3>1 DEF Boot, TimerRuns
    <3>2. CASE ReadRuns \/ ValidateStats
      BY <3>2 DEF ReadRuns, ValidateStats, TimerRuns, scheduler
    <3> QED BY <3>1, <3>2
  <2>3. MarkStays(r)
    <3> SUFFICES ASSUME Live(r), ToBeMarked(r) PROVE ToBeMarked(r)'
      BY <2>1 DEF MarkStays
    <3>1. index'[r].wait # "awaiting" \/ Lapsed(r)'
      BY <1>1, <2>2 DEF ToBeMarked, Lapsed
    <3>2. CASE Boot
      BY <3>1, <3>2 DEF Boot, ToBeMarked
    <3>3. CASE ReadRuns
      <4>1. phase = "booting" /\ phase' = "recovering" /\ index[r] # Absent /\ index[r].status \in ActiveStatuses
        BY <2>0, <3>3 DEF ReadRuns, KeptActive, Live, IsRunning
      <4>2. r \in DOMAIN todo' /\ todo'[r] = index[r]
        BY <3>3, <4>1 DEF ReadRuns
      <4> QED BY <1>1, <3>1, <4>1, <4>2 DEF ToBeMarked
    <3>4. CASE ValidateStats
      BY <3>4 DEF ValidateStats, ToBeMarked, Recovering
    <3> QED BY <3>2, <3>3, <3>4
  <2>4. Covered(r)' /\ ExtendsHead(r)'
    BY <1>1, <2>0, <2>1, <2>3, WatchKept
  <2>5. /\ AwaitBegun(r)' => AwaitBegun(r)
        /\ Released(r)' => Released(r)
        /\ <<"wait", r>> \in jobs' => <<"wait", r>> \in jobs
    BY <1>1, <2>1 DEF AwaitBegun, Released
  <2>6. EntryOrder(r)' /\ RegisterFirst(r)'
    BY <1>1, <2>0, <2>1, <2>5 DEF EntryOrder, RegisterFirst
  <2>7. TimeWaits(r)'
    BY <1>1, <2>0, <2>1, <2>2, <2>3, <2>5 DEF TimeWaits, MarkStays
  <2>8. EventWaits(r)'
    BY <1>1, <2>0, <2>1, <2>3 DEF EventWaits, MarkStays
  <2> QED BY <2>4, <2>6, <2>7, <2>8 DEF WatchInv
<1>3. Stopped'
  BY <1>1 DEF Stopped
<1> QED BY <1>2, <1>3 DEF WatchedInv

LEMMA InitWInv == Init => WInv
<1> SUFFICES ASSUME Init PROVE WInv
  OBVIOUS
<1>1. ASSUME NEW r \in Runs PROVE WatchInv(r)
  <2>1. /\ index[r] = Absent /\ stream[r] = {} /\ chain[r] = <<>> /\ phase = "up" /\ jobs = {} /\ armed = {}
        /\ extending = {} /\ subs = {} /\ resolving[r] = 0 /\ \A w \in WorkNames : work[r][w] = "none"
    BY DEF Init, NoWork
  <2>2. (\A type : At(r, type) = {}) /\ {"entry", "register", "step"} \subseteq WorkNames
        /\ index[r].wait = "none" /\ ~Live(r)
    BY <2>1 DEF At, WorkNames, Absent, Live
  <2>3. ~Released(r)
    BY <2>1, <2>2 DEF Released
  <2> QED BY <2>1, <2>2, <2>3 DEF WatchInv, Covered, ExtendsHead, EntryOrder, RegisterFirst, TimeWaits, EventWaits
<1>2. Stopped
  BY DEF Init, Stopped
<1> QED BY <1>1, <1>2, InitIInv DEF WInv, WatchedInv

LEMMA NextWInv ==
  ASSUME "schedule" \notin Kinds
  PROVE  WInv /\ [Next]_vars => WInv'
<1> SUFFICES ASSUME WInv, [Next]_vars PROVE WInv'
  OBVIOUS
<1>1. IInv' /\ config.kind # "schedule"
  BY NextIInv, WatchFacts DEF WInv, IInv, TypeOK
<1>2. CASE UNCHANGED vars
  <2>1. ASSUME NEW r \in Runs PROVE WatchInv(r)'
    <3>1. WatchInv(r) /\ Same(r)
      BY <1>2 DEF WInv, WatchedInv, vars, Same
    <3> QED BY <3>1, SameWatches
  <2>2. Stopped'
    BY <1>2 DEF vars, WInv, WatchedInv, Stopped
  <2> QED BY <1>1, <2>1, <2>2 DEF WInv, WatchedInv
<1>3. CASE Next
  <2>1. Crash \/ Boot \/ ReadRuns \/ ValidateStats \/ \E r \in Runs : Local(r)
    BY <1>3, NextIsLocal
  <2>2. WatchedInv'
    BY <1>1, <2>1, CrashWatches, StartupWatches, LocalWatches
  <2> QED BY <1>1, <2>2 DEF WInv
<1> QED BY <1>2, <1>3

\* While the server is up no run is active, unfinished and forgotten: a timer is
\* armed for it, or something of it is under way (scheduler, stall detector, await
\* handlers and flow wiring together, over every stop and restart).  Not so with a
\* schedule await, whose deadline in the index comes from other settings than its
\* job's, so that the recovery may take it for one that still waits.
THEOREM NoRunForgotten ==
  ASSUME "schedule" \notin Kinds
  PROVE  Spec => []Watched
<1>1. WInv => Watched
  <2> SUFFICES ASSUME WInv, phase = "up", NEW r \in Runs, IsRunning(r), Unfinished(r)
               PROVE  armed \cap JobsOf(r) # {} \/ Busy(r)
    BY DEF Watched
  <2>1. /\ Timed /\ Covered(r) /\ ExtendsHead(r) /\ HeadKept(r) /\ <<"stall", r>> \in JobsOf(r) /\ Live(r)
    BY WatchFacts, JobFacts DEF IsRunning, ActiveStatuses, Absent, Live
  <2>2. ~ToBeMarked(r)
    BY DEF ToBeMarked
  <2>3. CASE <<"stall", r>> \in jobs
    <3>1. <<"stall", r>> \in armed \cup firing
      BY <2>1, <2>3 DEF Timed
    <3> QED BY <2>1, <3>1 DEF Busy
  <2>4. CASE r \in extending
    BY <2>1, <2>4 DEF ExtendsHead, HeadKept, Busy
  <2> QED BY <2>1, <2>2, <2>3, <2>4 DEF Covered
<1>2. Spec => []WInv
  BY InitWInv, NextWInv, PTL DEF Spec
<1> QED BY <1>1, <1>2, PTL
===============================================================================
