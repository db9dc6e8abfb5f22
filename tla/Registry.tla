------------------------------- MODULE Registry -------------------------------
(***************************************************************************)
(* The build: the function files of all layers are scanned                  *)
(* (registry/scan.ts), their flow metadata is put together to flows          *)
(* (flowBuilder.ts) and analysed (flowAnalyzer.ts, triggerAnalyzer.ts,       *)
(* utils/templates.ts); in development a watcher does it again on every      *)
(* change (utils/dev.ts).                                                   *)
(*                                                                         *)
(* A file is a record of what the loaders take from it.  A token is a        *)
(* subscription or an emitted name: [kind, value], kind "implicit" for a     *)
(* plain name, or the prefix of "step:name" and the like.  Orders are kept:  *)
(* of layers, files, names and steps.  Times are multiples of five minutes,  *)
(* and the tenth of a time is rounded down.                                 *)
(***************************************************************************)
EXTENDS Integers, Sequences, FiniteSets, SequencesExt

CONSTANTS
  Layers,     \* the layers in the order of nuxt.options._layers
  Paths,      \* the files' paths below the functions directory, in glob order
  Contents,   \* [path -> what the file may be changed to]
  Builds,     \* the disks that are built
  DevDisks,   \* the disks the development server starts with
  MaxEdits,   \* bound: changes of files
  FlowStepTimeout, QueueTimeout,   \* the configured timeouts of steps, or None
  NoFile, None

ASSUME RegistryAssumption ==
  /\ Layers \in Seq(STRING) /\ Layers # <<>> /\ Paths \in Seq(STRING)
  /\ MaxEdits \in Nat

Places == Range(Layers) \X Range(Paths)
Implicit(value) == [kind |-> "implicit", value |-> value]

-----------------------------------------------------------------------------
(* flowBuilder.ts: the flow metadata of the files becomes flows. *)

EmptyFlow == [entry |-> None, entries |-> {}, steps |-> <<>>]

StepOf(name, source) ==
  [name |-> name, worker |-> source.id, queue |-> source.file.queue,
   subs |-> source.file.subs, emits |-> source.file.emits, timeout |-> source.file.timeout,
   before |-> source.file.before, after |-> source.file.after]

NamesOf(steps) == {steps[n].name : n \in DOMAIN steps}

\* The first source of a step is taken.
AddStep(steps, step) == IF step.name \in NamesOf(steps) THEN steps ELSE Append(steps, step)

\* An entry with a step not met as one before replaces the one there is; its
\* further steps are plain steps.
AddToFlow(flow, source) ==
  LET made == [n \in DOMAIN source.file.steps |-> StepOf(source.file.steps[n], source)]
  IN  IF source.file.role = "entry"
      THEN [entry |-> IF made[1].name \in flow.entries THEN flow.entry ELSE made[1],
            entries |-> flow.entries \cup {made[1].name},
            steps |-> FoldLeft(AddStep, flow.steps, Tail(made))]
      ELSE [flow EXCEPT !.steps = FoldLeft(AddStep, @, made)]

\* The flows there are so far, and what one more source makes of them.
AddSource(flows, source) ==
  LET ids == IF source.file.steps = <<>> THEN {} ELSE Range(source.file.names)
  IN  [f \in DOMAIN flows \cup ids |->
         LET flow == IF f \in DOMAIN flows THEN flows[f] ELSE EmptyFlow
         IN  IF f \in ids THEN AddToFlow(flow, source) ELSE flow]

BuildFlows(sources) == FoldLeft(AddSource, [f \in {} |-> EmptyFlow], sources)

-----------------------------------------------------------------------------
(* flowAnalyzer.ts: who waits for whom. *)

\* generateAnalyzedFlowsTemplate: what a step emits is taken from the worker with
\* the id of its file.
Emits(workers, step) ==
  IF step.worker \in DOMAIN workers THEN workers[step.worker].emits ELSE {}

WithEmits(workers, flow) ==
  [flow EXCEPT !.entry = IF @ = None THEN None ELSE [@ EXCEPT !.emits = Emits(workers, flow.entry)],
               !.steps = [n \in DOMAIN @ |-> [@[n] EXCEPT !.emits = Emits(workers, flow.steps[n])]]]

\* A subscription by step, queue or worker, or one that may be any of them.
Names(token, step) ==
  CASE token.kind = "step" -> step.name = token.value
    [] token.kind = "queue" -> step.queue = token.value
    [] token.kind = "worker" -> step.worker = token.value
    [] OTHER -> step.name = token.value \/ step.queue = token.value

\* findEmitter: the entry if it emits the token or its value, or else the first
\* step that emits or is what the token says.
FindEmitter(flow, token) ==
  LET found == {n \in DOMAIN flow.steps :
                  token \in flow.steps[n].emits \/ Names(token, flow.steps[n])}
  IN  CASE flow.entry # None /\ {token, Implicit(token.value)} \cap flow.entry.emits # {} ->
             {flow.entry.name}
        [] found # {} -> {flow.steps[Min(found)].name}
        [] OTHER -> {}

DependsOn(flow, step) == (UNION {FindEmitter(flow, t) : t \in step.subs}) \ {step.name}

\* findTriggeredSteps: the other steps that subscribe to what this one is or emits.
Triggers(flow, step) ==
  {target.name : target \in {t \in Range(flow.steps) :
     t.name # step.name /\ \E token \in t.subs : Names(token, step) \/ token \in step.emits}}

-----------------------------------------------------------------------------
(* calculateLevels: one more than the highest level of what a step depends on.  *)
(* The visits go depth first in the order of the steps and mark in levels what  *)
(* is done; a step met again on the way down counts as level 0.                 *)

Unvisited == -1

Visited(flow) ==
  LET names == NamesOf(flow.steps) \cup (IF flow.entry = None THEN {} ELSE {flow.entry.name})
      entry == IF flow.entry = None THEN {} ELSE {flow.entry.name}
      deps == [s \in names |->
                 IF s \in entry \/ s \notin NamesOf(flow.steps) THEN {}
                 ELSE DependsOn(flow, CHOOSE step \in Range(flow.steps) : step.name = s)]
      visit[v \in [step : names, levels : [names -> Int], visiting : SUBSET names]] ==
        CASE v.levels[v.step] # Unvisited -> [levels |-> v.levels, level |-> v.levels[v.step]]
          [] v.levels[v.step] = Unvisited /\ v.step \in v.visiting ->
               [levels |-> v.levels, level |-> 0]
          [] OTHER ->
               LET next(done, d) ==
                     LET r == visit[[step |-> d, levels |-> done.levels,
                                     visiting |-> v.visiting \cup {v.step}]]
                     IN  [levels |-> r.levels, level |-> IF r.level > done.level
                                                         THEN r.level ELSE done.level]
                   base == IF v.step \notin entry /\ deps[v.step] = {} /\ entry # {} THEN 0 ELSE -1
                   all == FoldLeft(next, [levels |-> v.levels, level |-> base],
                                   SetToSeq(deps[v.step]))
               IN  [levels |-> [all.levels EXCEPT ![v.step] = all.level + 1],
                    level |-> all.level + 1]
      one(levels, step) ==
        visit[[step |-> step.name, levels |-> levels, visiting |-> {}]].levels
  IN  FoldLeft(one, [s \in names |-> Unvisited], flow.steps)

\* The entry is on level 0 whether it was visited or not.
LevelOf(flow) ==
  LET levels == Visited(flow)
  IN  [s \in DOMAIN levels |-> IF levels[s] = Unvisited THEN 0 ELSE levels[s]]

-----------------------------------------------------------------------------
(* Times.  A day is 288 times five minutes. *)

Day == 288
DefaultStepTimeout == 1
DefaultStallTimeout == 6
MinBuffer == 1

\* getAwaitDefaultTimeout: an explicit timeout, or a day for webhooks and events; a
\* time or schedule await without one counts nothing, whatever its delay.
AwaitTimeout(await) ==
  CASE await = None -> 0
    [] await # None /\ await.timeout > 0 -> await.timeout
    [] OTHER -> IF await.type \in {"webhook", "event"} THEN Day ELSE 0

\* getStepExecutionTimeout: the function's own, flow.stepTimeout, the queue's.
StepTimeout(step) ==
  CASE step.timeout # None -> step.timeout
    [] step.timeout = None /\ FlowStepTimeout # None -> FlowStepTimeout
    [] OTHER -> QueueTimeout

StepTime(step) ==
  (IF StepTimeout(step) = None THEN DefaultStepTimeout ELSE StepTimeout(step))
    + AwaitTimeout(step.before) + AwaitTimeout(step.after)

AllOf(flow) == Range(flow.steps) \cup (IF flow.entry = None THEN {} ELSE {flow.entry})

\* Faulty: the shorter steps of a level count.
StallTimeoutShort(flow) ==
  LET level == LevelOf(flow)
      on(l) == {StepTime(s) : s \in {s \in AllOf(flow) : level[s.name] = l}}
      shortest(l) == IF on(l) = {} THEN 0 ELSE Min(on(l))
      total == FoldLeft(LAMBDA sum, l : sum + shortest(l - 1), 0,
                        [l \in 1..Cardinality(DOMAIN level) + 1 |-> l])
  IN  IF total = 0 THEN DefaultStallTimeout ELSE total + Max({total \div 10, MinBuffer})

\* calculateFlowStallTimeout: the longest step of every level, and a buffer.
StallTimeout(flow) ==
  LET level == LevelOf(flow)
      on(l) == {StepTime(s) : s \in {s \in AllOf(flow) : level[s.name] = l}}
      longest(l) == IF on(l) = {} THEN 0 ELSE Max(on(l))
      total == FoldLeft(LAMBDA sum, l : sum + longest(l - 1), 0,
                        [l \in 1..Cardinality(DOMAIN level) + 1 |-> l])
  IN  IF total = 0 THEN DefaultStallTimeout ELSE total + Max({total \div 10, MinBuffer})
-----------------------------------------------------------------------------
(* triggerAnalyzer.ts: what the workers say of triggers. *)

\* The first definition of a trigger is taken.
TriggerDefinitions(workers, order) ==
  LET defining == SelectSeq(order, LAMBDA id : workers[id].define # None)
  IN  {defining[n] : n \in {n \in DOMAIN defining : \A m \in 1..(n - 1) :
         workers[defining[m]].define # workers[defining[n]].define}}

\* One subscription for each flow of a worker and each trigger it subscribes to.
TriggerSubscriptions(workers) ==
  UNION {{<<t, f>> : t \in workers[id].triggers, f \in Range(workers[id].names)} :
           id \in DOMAIN workers}

TriggerToFlows(subscriptions) ==
  [t \in {s[1] : s \in subscriptions} |-> {s[2] : s \in {s \in subscriptions : s[1] = t}}]

FlowToTriggers(subscriptions) ==
  [f \in {s[2] : s \in subscriptions} |-> {s[1] : s \in {s \in subscriptions : s[2] = f}}]

-----------------------------------------------------------------------------
(* The scan. *)

NothingScanned == [workers |-> [p \in {} |-> NoFile], order |-> <<>>, sources |-> <<>>]

\* One file more: a worker under its path if it has a default export, in the place
\* of one that another layer had there; and a source of flows if it names one.
ScanOne(read, path, file) ==
  [workers |-> IF file.default THEN (path :> file) @@ read.workers ELSE read.workers,
   order |-> IF file.default /\ path \notin DOMAIN read.workers
             THEN Append(read.order, path) ELSE read.order,
   sources |-> IF file.names = <<>> THEN read.sources
               ELSE Append(read.sources, [id |-> path, file |-> file])]

\* compileRegistryFromServerWorkers, and the templates made of its result.
Compiled(read) ==
  LET subscriptions == TriggerSubscriptions(read.workers)
      flows == BuildFlows(read.sources)
  IN  [workers |-> read.workers,
       flows |-> [f \in DOMAIN flows |-> WithEmits(read.workers, flows[f])],
       definitions |-> TriggerDefinitions(read.workers, read.order),
       triggerToFlows |-> TriggerToFlows(subscriptions),
       flowToTriggers |-> FlowToTriggers(subscriptions)]

\* All places in the order of the scan.
Scan(disk) ==
  LET place(n) == <<Layers[((n - 1) \div Len(Paths)) + 1], Paths[((n - 1) % Len(Paths)) + 1]>>
      one(read, n) == IF disk[place(n)] = NoFile THEN read
                      ELSE ScanOne(read, place(n)[2], disk[place(n)])
  IN  FoldLeft(one, NothingScanned, [n \in 1..(Len(Layers) * Len(Paths)) |-> n])

-----------------------------------------------------------------------------
VARIABLES
  dev,        \* whether this is the development server
  disk,       \* [Places -> file]
  unseen,     \* a change the watcher has not reported yet
  debounce,   \* the debounced refresh: idle, armed (its timer runs) or running
  again,      \* a change was reported while it was running
  layer,      \* the layer the refresh scans
  listed,     \* the paths it found there and has not read yet
  read,       \* what it has read
  compiled,   \* lastCompiledRegistry, as the templates present it
  edits

vars == <<dev, disk, unseen, debounce, again, layer, listed, read, compiled, edits>>
scan == <<layer, listed, read>>

Listing(l) == SelectSeq(Paths, LAMBDA path : disk[<<Layers[l], path>>] # NoFile)

\* The module compiles the registry at startup.
Init ==
  /\ \/ dev = FALSE /\ disk \in Builds
     \/ dev = TRUE /\ disk \in DevDisks
  /\ unseen = FALSE /\ debounce = "idle" /\ again = FALSE
  /\ layer = 1 /\ listed = <<>> /\ read = NothingScanned
  /\ compiled = Compiled(Scan(disk))
  /\ edits = 0

\* A file of the development server's disk is added, changed or removed.
Edit(place) ==
  /\ dev /\ edits < MaxEdits
  /\ \E file \in Contents[place[2]] \cup {NoFile} :
       file # disk[place] /\ disk' = [disk EXCEPT ![place] = file]
  /\ unseen' = TRUE
  /\ edits' = edits + 1
  /\ UNCHANGED <<dev, debounce, again, scan, compiled>>

\* The watcher reports it to the debounced refresh, which starts its timer, or is
\* to run again.
Report ==
  /\ unseen /\ unseen' = FALSE
  /\ debounce' = IF debounce = "idle" THEN "armed" ELSE debounce
  /\ again' = (debounce = "running")
  /\ UNCHANGED <<dev, disk, scan, compiled, edits>>

Begin == layer' = 1 /\ listed' = Listing(1) /\ read' = NothingScanned

\* refreshRegistry begins.
Refresh ==
  /\ debounce = "armed" /\ debounce' = "running"
  /\ Begin
  /\ UNCHANGED <<dev, disk, unseen, again, compiled, edits>>

\* A file that is gone by now is skipped.
ReadFile ==
  /\ debounce = "running" /\ listed # <<>>
  /\ listed' = Tail(listed)
  /\ LET place == <<Layers[layer], Head(listed)>>
     IN  read' = IF disk[place] = NoFile THEN read ELSE ScanOne(read, place[2], disk[place])
  /\ UNCHANGED <<dev, disk, unseen, debounce, again, layer, compiled, edits>>

NextLayer ==
  /\ debounce = "running" /\ listed = <<>> /\ layer < Len(Layers)
  /\ layer' = layer + 1 /\ listed' = Listing(layer + 1)
  /\ UNCHANGED <<dev, disk, unseen, debounce, again, read, compiled, edits>>

\* Faulty: a change reported while the files are read is taken to be in them.
FinishForgets ==
  /\ debounce = "running" /\ listed = <<>> /\ layer = Len(Layers)
  /\ compiled' = Compiled(read)
  /\ again' = FALSE
  /\ debounce' = "idle"
  /\ layer' = 1 /\ listed' = <<>> /\ read' = NothingScanned
  /\ UNCHANGED <<dev, disk, unseen, edits>>

\* The registry is replaced; a change reported meanwhile starts the refresh over.
Finish ==
  /\ debounce = "running" /\ listed = <<>> /\ layer = Len(Layers)
  /\ compiled' = Compiled(read)
  /\ again' = FALSE
  /\ IF again THEN Begin /\ UNCHANGED debounce
     ELSE /\ debounce' = "idle"
          /\ layer' = 1 /\ listed' = <<>> /\ read' = NothingScanned
  /\ UNCHANGED <<dev, disk, unseen, edits>>

Next ==
  \/ \E place \in Places : Edit(place)
  \/ Report \/ Refresh \/ ReadFile \/ NextLayer \/ Finish

Spec == Init /\ [][Next]_vars

-----------------------------------------------------------------------------
\* When the watcher and the refresh have come to rest the registry is that of the
\* files as they are.
SettledIsCurrent ==
  debounce = "idle" /\ ~unseen => compiled = Compiled(Scan(disk))

\* What a flow's steps wait for, and the chains of that of any length.
Waits(flow) ==
  {w \in NamesOf(flow.steps) \X {s.name : s \in AllOf(flow)} :
     \E step \in Range(flow.steps) : step.name = w[1] /\ w[2] \in DependsOn(flow, step)}

Reachable(relation) ==
  FoldLeft(LAMBDA r, n : r \cup {<<x[1], y[2]>> : <<x, y>> \in {p \in r \X relation : p[1][2] = p[2][1]}},
           relation, [n \in 1..Cardinality(relation) |-> n])

Acyclic(flow) == \A w \in Reachable(Waits(flow)) : w[1] # w[2]

\* How long an await may last: its timeout, or the delay of its own that a time or
\* schedule await has (time.ts, schedule.ts), and what of this the code leaves out.
AwaitLasts(await) == IF await = None THEN 0 ELSE Max({AwaitTimeout(await), await.delay})

Uncounted(step) ==
  AwaitLasts(step.before) + AwaitLasts(step.after)
    - AwaitTimeout(step.before) - AwaitTimeout(step.after)

Total(time(_), steps) ==
  MapThenFoldSet(+, 0, time, LAMBDA S : CHOOSE s \in S : TRUE, steps)

\* Steps that one after the other wait for each other.
Chains(flow) ==
  {c \in SUBSET AllOf(flow) : \A s, t \in c :
     s = t \/ <<s.name, t.name>> \in Reachable(Waits(flow))
           \/ <<t.name, s.name>> \in Reachable(Waits(flow))}

\* They fit into the stall timeout, the delays of their time awaits included as long
\* as these are within the buffer: there is nothing else for them.  Retries are not
\* counted on either side; a step event moves the stall job (flowWiring.ts).
StallCoversChains ==
  \A f \in DOMAIN compiled.flows :
    LET flow == compiled.flows[f]
    IN  Acyclic(flow) => \A c \in Chains(flow) :
          Total(Uncounted, c) <= MinBuffer =>
            Total(StepTime, c) + Total(Uncounted, c) <= StallTimeout(flow)

==============================================================================
