------------------------------- MODULE Startup -------------------------------
(***************************************************************************)
(* The start of the servers of what was built: the options are completed with  *)
(* connections (config/index.ts), the adapter modules register their adapters  *)
(* in the hook nvent:register-adapters (the end of every adapter.ts), the       *)
(* Postgres store brings its schema up to date (migrations.ts), the factory     *)
(* takes the adapters and enters the flows into their index (factory.ts), and   *)
(* the plugin starts scheduler and wiring (plugins/00.adapters.ts).             *)
(*                                                                         *)
(* Several servers start on a networked store at once, and stop, fail to reach  *)
(* theirs and are started again at any time.  Connections are told apart by     *)
(* where they come from: "own" is the adapter module's option, "shared" the      *)
(* one the options give for all, "default" the one the build fills in, "local"   *)
(* that of the Postgres store's module.                                        *)
(***************************************************************************)
EXTENDS Registry

CONSTANTS
  Servers,
  Deployed,   \* the builds that are deployed
  Configs,    \* the options they are deployed with
  PageSize,   \* limit of the read of the flow index (100 in the code)
  MaxFaults, MaxRuns   \* bounds: crashes and lost connections; runs of a flow

Parts == {"queue", "stream", "store"}
Networked == {"redis", "postgres"}
Versions == 2

\* config: the adapter of every part, the parts with a connection of their own, the
\* kinds with a connection in the options, the adapter modules loaded before nvent.
ASSUME StartupAssumption ==
  /\ PageSize \in Nat \ {0}
  /\ \A c \in Configs : DOMAIN c.adapter = Parts /\ c.own \subseteq Parts

-----------------------------------------------------------------------------
(* config/index.ts *)

\* The kinds a default connection is filled in for: Postgres not for the stream.
Needed(config) ==
  {k \in Networked \cup {"file"} : \E part \in Parts :
     config.adapter[part] = k /\ (part = "stream" => k = "redis")}

\* normalizeModuleOptions
Connections(config) ==
  [k \in config.shared \cup Needed(config) |-> IF k \in config.shared THEN "shared" ELSE "default"]

-----------------------------------------------------------------------------
(* The adapter modules: what each of them registers in the hook. *)

Given(config, part, kind) ==
  CASE part \in config.own -> "own"
    [] part \notin config.own /\ kind \in DOMAIN Connections(config) -> Connections(config)[kind]
    [] OTHER -> None

Registers(connection) == [throws |-> FALSE, connection |-> connection]
QueueRedis(config) == Registers(Given(config, "queue", "redis"))
QueuePostgres(config) == Registers(Given(config, "queue", "postgres"))
StoreRedis(config) == Registers(Given(config, "store", "redis"))
StreamPostgres(config) == Registers(Given(config, "stream", "postgres"))

\* It insists on a connection, used or not.
StreamRedis(config) ==
  [throws |-> Given(config, "stream", "redis") = None,
   connection |-> Given(config, "stream", "redis")]

\* Faulty: its module does not look at the options of nvent.
StorePostgresModuleAlone(config) == "local"

\* Its module looks at the options of nvent as they were written.
StorePostgresModule(config) ==
  IF "postgres" \in config.shared THEN "shared" ELSE "local"

StorePostgres(config) ==
  Registers(IF "store" \in config.own THEN "own" ELSE StorePostgresModule(config))

Registration(config, module) ==
  CASE module = <<"queue", "redis">> -> QueueRedis(config)
    [] module = <<"queue", "postgres">> -> QueuePostgres(config)
    [] module = <<"store", "redis">> -> StoreRedis(config)
    [] module = <<"store", "postgres">> -> StorePostgres(config)
    [] module = <<"stream", "redis">> -> StreamRedis(config)
    [] module = <<"stream", "postgres">> -> StreamPostgres(config)

-----------------------------------------------------------------------------
VARIABLES
  options,    \* those of the servers, or None for what is not deployed
  pc,         \* how far each server is
  todo,       \* the modules whose hooks are still to run
  registered, \* the adapters that have registered, with their connections
  adapters,   \* the connection of each part of a server, or None
  schema,     \* the version of the Postgres schema
  goal,       \* the version of the migration a server is in, or None
  beaten,     \* another server has committed since the migration began
  index,      \* the flow index: its flows, last registered first, and their totals
  missing,    \* the flows a server found missing in it
  runs,       \* the runs that were started
  overlap,    \* two servers were about to enter flows at the same time
  faults

server == <<pc, todo, registered, adapters, goal, beaten, missing>>
started == <<options, server, schema, index, runs, overlap, faults>>

Flows == DOMAIN compiled.flows
Entered == Range(index.order)
Active == IF options.adapter["store"] \in Networked THEN Servers ELSE {CHOOSE s \in Servers : TRUE}

StartInit ==
  /\ Init
  /\ options \in IF ~dev /\ disk \in Deployed THEN Configs ELSE {None}
  /\ pc = [s \in Servers |-> "down"]
  /\ todo = [s \in Servers |-> <<>>]
  /\ registered = [s \in Servers |-> {}]
  /\ adapters = [s \in Servers |-> [part \in Parts |-> None]]
  /\ schema = 0
  /\ goal = [s \in Servers |-> None]
  /\ beaten = [s \in Servers |-> FALSE]
  /\ index = [order |-> <<>>, total |-> [f \in Flows |-> 0]]
  /\ missing = [s \in Servers |-> <<>>]
  /\ runs = [f \in Flows |-> 0]
  /\ overlap = FALSE
  /\ faults = 0

\* A server goes on to a step of its start, and remembers nothing of the ones before.
Goes(s, step) == pc' = [pc EXCEPT ![s] = step]

\* A server that is down or did not come up is started.
Start(s) ==
  /\ options # None /\ s \in Active /\ pc[s] \in {"down", "failed"}
  /\ Goes(s, "hook")
  /\ todo' = [todo EXCEPT ![s] = options.modules]
  /\ registered' = [registered EXCEPT ![s] = {}]
  /\ adapters' = [adapters EXCEPT ![s] = [part \in Parts |-> None]]
  /\ goal' = [goal EXCEPT ![s] = None]
  /\ missing' = [missing EXCEPT ![s] = <<>>]
  /\ UNCHANGED <<options, beaten, schema, index, runs, overlap, faults>>

\* It crashes, or is stopped: nothing is closed either way.
Stop(s) ==
  /\ pc[s] # "down" /\ faults < MaxFaults /\ faults' = faults + 1
  /\ Goes(s, "down")
  /\ goal' = [goal EXCEPT ![s] = None]
  /\ missing' = [missing EXCEPT ![s] = <<>>]
  /\ UNCHANGED <<options, todo, registered, adapters, beaten, schema, index, runs, overlap>>

\* A database cannot be reached: the plugin throws.
Unreachable(s) ==
  /\ \/ pc[s] \in {"stream", "queue"} /\ options.adapter[pc[s]] \in Networked
     \/ pc[s] = "wiring" /\ options.adapter["store"] \in Networked
     \/ goal[s] # None
  /\ faults < MaxFaults /\ faults' = faults + 1
  /\ Goes(s, "failed")
  /\ goal' = [goal EXCEPT ![s] = None]
  /\ UNCHANGED <<options, todo, registered, adapters, beaten, schema, index, missing, runs, overlap>>

\* Faulty: the version there is is not read.
RegisterFromZero(s) ==
  /\ pc[s] = "hook" /\ goal[s] = None /\ todo[s] # <<>>
  /\ LET module == Head(todo[s])
         made == Registration(options, module)
     IN  IF made.throws THEN Goes(s, "failed") /\ UNCHANGED <<todo, registered, goal>>
         ELSE /\ registered' = [registered EXCEPT ![s] = @ \cup {<<module, made.connection>>}]
              /\ todo' = [todo EXCEPT ![s] = Tail(@)]
              /\ goal' = [goal EXCEPT ![s] = IF module = <<"store", "postgres">> THEN 0 ELSE @]
              /\ UNCHANGED pc
  /\ UNCHANGED <<options, adapters, beaten, schema, index, missing, runs, overlap, faults>>

\* The next adapter module's hook.
Register(s) ==
  /\ pc[s] = "hook" /\ goal[s] = None /\ todo[s] # <<>>
  /\ LET module == Head(todo[s])
         made == Registration(options, module)
     IN  IF made.throws THEN Goes(s, "failed") /\ UNCHANGED <<todo, registered, goal>>
         ELSE /\ registered' = [registered EXCEPT ![s] = @ \cup {<<module, made.connection>>}]
              /\ todo' = [todo EXCEPT ![s] = Tail(@)]
              /\ goal' = [goal EXCEPT ![s] = IF module = <<"store", "postgres">> THEN schema ELSE @]
              /\ UNCHANGED pc
  /\ UNCHANGED <<options, adapters, beaten, schema, index, missing, runs, overlap, faults>>

-----------------------------------------------------------------------------
(* migrations.ts.  goal is the version that a server has read or made; it goes   *)
(* through the migrations after that one, each a transaction.                  *)

\* The transaction of the next migration begins.
MigrationBegins(s) ==
  /\ goal[s] # None /\ goal[s] < Versions /\ pc[s] = "hook"
  /\ Goes(s, "migrating")
  /\ beaten' = [beaten EXCEPT ![s] = FALSE]
  /\ UNCHANGED <<options, todo, registered, adapters, schema, goal, index, missing, runs, overlap, faults>>

\* The first migration tolerates what is there already and records itself only once;
\* the second records its version and fails if that is recorded.
Conflicts(s) == goal[s] + 1 = 2 /\ schema >= 2

\* It commits, or is rolled back and the hook throws; so it may be if another server
\* has changed the same definitions meanwhile.
MigrationEnds(s) ==
  /\ pc[s] = "migrating"
  /\ \/ /\ ~Conflicts(s)
        /\ schema' = IF goal[s] + 1 > schema THEN goal[s] + 1 ELSE schema
        /\ goal' = [goal EXCEPT ![s] = @ + 1]
        /\ beaten' = [t \in Servers |-> beaten[t] \/ (t # s /\ pc[t] = "migrating")]
        /\ Goes(s, "hook")
     \/ /\ Conflicts(s) \/ beaten[s]
        /\ Goes(s, "failed") /\ goal' = [goal EXCEPT ![s] = None]
        /\ UNCHANGED <<schema, beaten>>
  /\ UNCHANGED <<options, todo, registered, adapters, index, missing, runs, overlap, faults>>

Migrated(s) ==
  /\ goal[s] = Versions /\ pc[s] = "hook"
  /\ goal' = [goal EXCEPT ![s] = None]
  /\ UNCHANGED <<options, pc, todo, registered, adapters, beaten, schema, index, missing, runs, overlap, faults>>

-----------------------------------------------------------------------------
(* factory.ts *)

Builtin == [queue |-> {"memory", "file"}, stream |-> {"memory"}, store |-> {"memory", "file"}]

\* The connection of the adapter the options name for a part, if there is that adapter;
\* the last one registered under a name is taken.
Found(s, part) == {r \in registered[s] : r[1] = <<part, options.adapter[part]>>}

\* An adapter is created and connected; only the queue on Postgres insists on a connection.
Create(s, part) ==
  LET connection == (CHOOSE r \in Found(s, part) : TRUE)[2]
      fails == IF Found(s, part) = {} THEN options.adapter[part] \notin Builtin[part]
               ELSE <<part, options.adapter[part]>> = <<"queue", "postgres">> /\ connection = None
  IN  IF fails THEN Goes(s, "failed") /\ UNCHANGED adapters
      ELSE /\ Goes(s, CASE part = "stream" -> "store" [] part = "store" -> "flows" [] OTHER -> "wiring")
           /\ adapters' = [adapters EXCEPT ![s][part] =
                             IF Found(s, part) = {} THEN "builtin" ELSE connection]

CreateStream(s) ==
  /\ pc[s] = "hook" /\ goal[s] = None /\ todo[s] = <<>>
  /\ Goes(s, "stream")
  /\ UNCHANGED <<options, todo, registered, adapters, goal, beaten, missing, schema, index, runs, overlap, faults>>

CreatePart(s) ==
  /\ pc[s] \in Parts /\ Create(s, pc[s])
  /\ UNCHANGED <<options, todo, registered, goal, beaten, missing, schema, index, runs, overlap, faults>>

\* Faulty: all flows of the build are taken to be missing.
MissingFlowsAll == SetToSeq(Flows)

\* The flows of the build that the read of the index does not return.
MissingFlows ==
  LET page == {index.order[n] : n \in {n \in DOMAIN index.order : n <= PageSize}}
  IN  SetToSeq(Flows \ page)

ReadFlows(s) ==
  /\ pc[s] = "flows"
  /\ missing' = [missing EXCEPT ![s] = MissingFlows]
  /\ overlap' = (overlap \/ \E t \in Servers \ {s} : missing[t] # <<>>)
  /\ Goes(s, "enter")
  /\ UNCHANGED <<options, todo, registered, adapters, goal, beaten, schema, index, runs, faults>>

\* index.add enters a flow anew, with all totals 0.
EnterFlow(s) ==
  /\ pc[s] = "enter" /\ missing[s] # <<>>
  /\ LET f == Head(missing[s])
     IN  index' = [order |-> <<f>> \o SelectSeq(index.order, LAMBDA g : g # f),
                   total |-> [index.total EXCEPT ![f] = 0]]
  /\ missing' = [missing EXCEPT ![s] = Tail(@)]
  /\ UNCHANGED <<options, pc, todo, registered, adapters, goal, beaten, schema, runs, overlap, faults>>

\* All are entered, or the store failed at one of them: that is only logged.
FlowsEntered(s) ==
  /\ pc[s] \in {"flows", "enter"} /\ Goes(s, "queue")
  /\ missing' = [missing EXCEPT ![s] = <<>>]
  /\ \/ pc[s] = "enter" /\ missing[s] = <<>> /\ UNCHANGED faults
     \/ faults < MaxFaults /\ faults' = faults + 1
  /\ UNCHANGED <<options, todo, registered, adapters, goal, beaten, schema, index, runs, overlap>>

\* setAdapters, the scheduler, the wiring, and the hook nvent:adapters:ready.
StartWiring(s) ==
  /\ pc[s] = "wiring" /\ Goes(s, "ready")
  /\ UNCHANGED <<options, todo, registered, adapters, goal, beaten, schema, index, missing, runs, overlap, faults>>

\* A run is started at a server that is up and is counted if the flow is entered.
RunStarts(f) ==
  /\ \E s \in Servers : pc[s] = "ready"
  /\ f \in Entered /\ runs[f] < MaxRuns
  /\ runs' = [runs EXCEPT ![f] = @ + 1]
  /\ index' = [index EXCEPT !.total[f] = @ + 1]
  /\ UNCHANGED <<options, server, schema, overlap, faults>>

Starting(s) ==
  \/ Start(s) \/ Register(s) \/ MigrationBegins(s) \/ MigrationEnds(s) \/ Migrated(s)
  \/ CreateStream(s) \/ CreatePart(s) \/ ReadFlows(s) \/ EnterFlow(s) \/ FlowsEntered(s)
  \/ StartWiring(s)

Building == Next /\ UNCHANGED started

StartNext ==
  \/ Building
  \/ (\E s \in Servers : Starting(s) \/ Stop(s) \/ Unreachable(s)) /\ UNCHANGED vars
  \/ (\E f \in Flows : RunStarts(f)) /\ UNCHANGED vars

StartSpec == StartInit /\ [][StartNext]_<<vars, started>>

FairStarts ==
  StartSpec /\ \A s \in Servers : WF_<<vars, started>>(Starting(s) /\ UNCHANGED vars)

-----------------------------------------------------------------------------
\* A server that is up uses the connection given for all, except for the parts that
\* have one of their own, and if its store is on Postgres the migrations are made.
UpAsConfigured ==
  \A s \in Servers : pc[s] = "ready" =>
    /\ options.adapter["store"] = "postgres" => schema = Versions
    /\ \A part \in Parts : options.adapter[part] \in options.shared \ {"file"} =>
         adapters[s][part] = IF part \in options.own THEN "own" ELSE "shared"

\* As long as no two servers enter flows at the same time, no start of a server loses
\* the count of the runs of a flow.
StartsKeepCounts ==
  ~overlap /\ Cardinality(Flows) <= PageSize =>
    \A f \in Entered : index.total[f] = runs[f]

\* Options that name adapters whose modules are loaded, and no module that insists on
\* a connection there is not.
Sound ==
  /\ options # None
  /\ \A part \in Parts :
       options.adapter[part] \in Builtin[part] \/
         <<part, options.adapter[part]>> \in Range(options.modules)
  /\ \A module \in Range(options.modules) : ~Registration(options, module).throws

\* A server that is started again when it has failed to start comes up in the end,
\* whatever the others do.
EveryServerStarts ==
  \A s \in Servers : <>[](Sound /\ s \in Active => pc[s] = "ready")
==============================================================================
