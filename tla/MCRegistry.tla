---------------------------- MODULE MCRegistry ----------------------------
(* Instances of Registry.  What is built for production: a flow of an entry     *)
(* and three steps that subscribe to any of what the others emit, by the name    *)
(* of the step, its queue or the emitted name, circles included; two of them may  *)
(* end in an await, with a day's default timeout or a delay of its own.  What is *)
(* developed: two layers with two files that are changed while the registry is   *)
(* refreshed.  One build of two flows is started, by two servers if they share   *)
(* a store, with adapters of one kind, of several, and with modules loaded whose  *)
(* adapters are not used.                                                      *)
EXTENDS Startup

TheLayers == <<"base", "project">>
ThePaths == <<"start", "s1", "s2", "s3">>

Plain == [default |-> TRUE, names |-> <<"flow">>, role |-> "step", steps |-> <<>>, subs |-> {},
          emits |-> {}, queue |-> "q", timeout |-> None, before |-> None, after |-> None,
          define |-> None, triggers |-> {}]

Entry == [Plain EXCEPT !.role = "entry", !.steps = <<"start">>, !.emits = {Implicit("e0")},
                       !.define = "daily", !.triggers = {"daily"}]

Token == [s1 |-> Implicit("e1"), s2 |-> [kind |-> "step", value |-> "s2"], s3 |-> Implicit("s3")]

Step(name, subs) ==
  [Plain EXCEPT !.steps = <<name>>, !.emits = {Implicit("e1")} \cap {Token[name]}, !.subs = subs]

Awaits ==
  {None, [type |-> "event", timeout |-> 0, delay |-> 0], [type |-> "time", timeout |-> 0, delay |-> 1]}

Steps(name) ==
  {[Step(name, subs) EXCEPT !.after = after, !.timeout = timeout] :
     subs \in SUBSET ({Implicit("e0")} \cup {Token[s] : s \in DOMAIN Token \ {name}}),
     after \in Awaits, timeout \in {None, 0}}

Disk(files) ==
  [place \in Places |-> IF place[2] \in DOMAIN files /\ place[1] = "project"
                        THEN files[place[2]] ELSE NoFile]

AllBuilds ==
  {Disk([start |-> e, s1 |-> a, s2 |-> b, s3 |-> c]) :
     e \in {Entry, NoFile}, a \in Steps("s1"), b \in {s \in Steps("s2") : s.timeout = None},
     c \in {s \in Steps("s3") : s.timeout = None /\ s.after = None}}

Changed ==
  [start |-> {Entry}, s2 |-> {}, s3 |-> {},
   s1 |-> {Step("s1", {Implicit("e0")}),
           [Step("s1", {}) EXCEPT !.names = <<"flow", "other">>, !.default = FALSE]}]

Developed ==
  {Disk([start |-> Entry, s1 |-> Step("s1", {Implicit("e0")})]),
   [Disk([start |-> Entry]) EXCEPT ![<<"base", "s1">>] = Step("s1", {})]}
TwoFlows ==
  Disk([start |-> [Entry EXCEPT !.names = <<"flow", "other">>], s1 |-> Step("s1", {Implicit("e0")})])

TheDeployed == {TwoFlows}
TheBuilds == AllBuilds \cup {TwoFlows}

All(kind) == [part \in Parts |-> kind]
ModulesOf(kind) == <<<<"queue", kind>>, <<"stream", kind>>, <<"store", kind>>>>
Default == [queue |-> "file", stream |-> "memory", store |-> "file"]

TheConfigs ==
  {[adapter |-> All("postgres"), own |-> {}, shared |-> {"postgres"}, modules |-> ModulesOf("postgres")],
   [adapter |-> All("postgres"), own |-> {}, shared |-> {}, modules |-> ModulesOf("postgres")],
   [adapter |-> All("redis"), own |-> {"store"}, shared |-> {"redis"}, modules |-> ModulesOf("redis")],
   [adapter |-> [All("redis") EXCEPT !["store"] = "postgres"], own |-> {"queue"},
    shared |-> {"redis", "postgres"}, modules |-> ModulesOf("redis") \o ModulesOf("postgres")],
   [adapter |-> Default, own |-> {}, shared |-> {}, modules |-> ModulesOf("postgres")],
   [adapter |-> Default, own |-> {}, shared |-> {}, modules |-> ModulesOf("redis")],
   [adapter |-> All("redis"), own |-> {}, shared |-> {"redis"}, modules |-> <<>>]}
=============================================================================
