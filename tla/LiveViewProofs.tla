---------------------------- MODULE LiveViewProofs ----------------------------
(* What a page of the live view shows, for every set of runs and triggers,    *)
(* every script of events and every number of subscriptions and faults, as    *)
(* long as no call met a SUBSCRIBE of its topic under way (raced).            *)
(*                                                                            *)
(* The argument is about the view a page will have when it has received all   *)
(* that is on its way to it (AfterAll): sending and receiving are then one    *)
(* thing. That the events of a history are put into a view one by one is a    *)
(* recursion over their number; induction over it is a least counterexample.  *)
EXTENDS LiveView, WellFoundedInduction, TLAPS

-----------------------------------------------------------------------------
(* Induction and recursion over the numbers up to n                           *)

\* A set of naturals that is not empty has a least element.
LEMMA LeastElement ==
  ASSUME NEW T, T \subseteq Nat, T # {}
  PROVE  \E n \in T : \A m \in T : n <= m
<1> DEFINE R == {ss \in Nat \X Nat : ss[1] < ss[2]}
<1>1. IsWellFoundedOn(R, Nat)
  BY NatLessThanWellFounded DEF OpToRel
<1>2. PICK n \in T : \A m \in T : <<m, n>> \notin R
  <2> HIDE DEF R
  <2> QED BY <1>1, WFMin
<1>3. \A m \in T : ~(m < n)
  BY <1>2
<1> QED BY <1>3

\* What holds of 0, and of a successor if it holds of the number before, holds up to n.
LEMMA Induction ==
  ASSUME NEW n \in Nat, NEW H, 0 \in H, \A m \in 0 .. n : m \in H /\ m < n => m + 1 \in H
  PROVE  \A m \in 0 .. n : m \in H
<1> SUFFICES ASSUME NEW x \in 0 .. n, x \notin H PROVE FALSE
  OBVIOUS
<1> DEFINE T == {m \in 0 .. n : m \notin H}
<1>1. T # {} /\ T \subseteq Nat
  OBVIOUS
<1>2. PICK m \in T : \A k \in T : m <= k
  <2> HIDE DEF T
  <2> QED BY <1>1, LeastElement
<1>3. m # 0 /\ m - 1 \in 0 .. n /\ m - 1 \notin T
  BY <1>2
<1> QED BY <1>3, <1>2

\* f goes from b through the functions F[1], F[2] and so on up to F[n].
Runs(f, n, b, F) == f[0] = b /\ \A m \in 0 .. n - 1 : f[m + 1] = F[m + 1][f[m]]

LEMMA RunExists ==
  ASSUME NEW n \in Nat, NEW S, NEW b \in S, NEW F, \A m \in 1 .. n : \A x \in S : F[m][x] \in S
  PROVE  \E f \in [0 .. n -> S] : Runs(f, n, b, F)
<1> DEFINE H == {k \in 0 .. n : \E f \in [0 .. k -> S] : Runs(f, k, b, F)}
<1>1. 0 \in H
  <2>1. [m \in 0 .. 0 |-> b] \in [0 .. 0 -> S] /\ Runs([m \in 0 .. 0 |-> b], 0, b, F)
    BY DEF Runs
  <2>2. 0 \in 0 .. n
    OBVIOUS
  <2> QED BY <2>1, <2>2
<1>2. ASSUME NEW k \in 0 .. n, k \in H, k < n PROVE k + 1 \in H
  <2>1. PICK f \in [0 .. k -> S] : Runs(f, k, b, F)
    BY <1>2
  <2> DEFINE g == [m \in 0 .. k + 1 |-> IF m = k + 1 THEN F[k + 1][f[k]] ELSE f[m]]
  <2>2. g \in [0 .. k + 1 -> S]
    <3>1. k + 1 \in 1 .. n /\ f[k] \in S
      BY <1>2
    <3> QED BY <3>1
  <2>3. g[0] = b
    BY <2>1 DEF Runs
  <2>4. ASSUME NEW m \in 0 .. k PROVE g[m + 1] = F[m + 1][g[m]]
    <3>1. g[m] = f[m] /\ m \in 0 .. k + 1 /\ m + 1 \in 0 .. k + 1
      OBVIOUS
    <3>2. CASE m = k
      BY <3>1, <3>2
    <3>3. CASE m # k
      <4>1. m \in 0 .. k - 1 /\ g[m + 1] = f[m + 1]
        BY <3>3, <3>1
      <4> HIDE DEF g
      <4> QED BY <4>1, <3>1, <2>1 DEF Runs
    <3> QED BY <3>2, <3>3
  <2>5. Runs(g, k + 1, b, F)
    <3> HIDE DEF g
    <3> QED BY <2>3, <2>4 DEF Runs
  <2>6. k + 1 \in 0 .. n
    BY <1>2
  <2> HIDE DEF g
  <2> QED BY <2>2, <2>5, <2>6
<1>3. \A m \in 0 .. n : m \in H
  <2> HIDE DEF H
  <2> QED BY <1>1, <1>2, Induction
<1> QED BY <1>3

LEMMA RunUnique ==
  ASSUME NEW n \in Nat, NEW b, NEW F, NEW f, NEW g, Runs(f, n, b, F), Runs(g, n, b, F)
  PROVE  \A m \in 0 .. n : f[m] = g[m]
<1> DEFINE H == {m \in 0 .. n : f[m] = g[m]}
<1>1. 0 \in H
  BY DEF Runs
<1>2. ASSUME NEW m \in 0 .. n, m \in H, m < n PROVE m + 1 \in H
  <2>1. m \in 0 .. n - 1 /\ f[m] = g[m] /\ m + 1 \in 0 .. n
    BY <1>2
  <2> QED BY <2>1 DEF Runs
<1>3. \A m \in 0 .. n : m \in H
  <2> HIDE DEF H
  <2> QED BY <1>1, <1>2, Induction
<1> QED BY <1>3

-----------------------------------------------------------------------------
(* What the events of a run make of its state                                 *)
States == [flow : {"running", "completed", "failed", "canceled", "stalled"}, started : BOOLEAN,
           step : {None, "running", "completed", "failed", "retrying"},
           await : {None, "waiting", "completed", "timeout"}]

EventTypes == FlowTypes \union StepTypes \union AwaitTypes

LEMMA ReduceTyped ==
  ASSUME NEW s \in States, NEW e \in EventTypes
  PROVE  Reduce(s, e) \in States
<1>1. CASE e \in FlowTypes
  <2>1. Reduce(s, e) = ReduceFlow(s, e)
    BY <1>1 DEF Reduce, FlowTypes, StepTypes, AwaitTypes
  <2>2. ReduceFlow(s, e) \in States
    BY <1>1 DEF ReduceFlow, FlowTypes, States
  <2> QED BY <2>1, <2>2
<1>2. CASE e \in StepTypes
  <2>1. Reduce(s, e) = ReduceStep(s, e)
    BY <1>2 DEF Reduce, FlowTypes, StepTypes, AwaitTypes
  <2>2. ReduceStep(s, e) \in States
    BY <1>2 DEF ReduceStep, StepTypes, States
  <2> QED BY <2>1, <2>2
<1>3. CASE e \in AwaitTypes
  <2>1. Reduce(s, e) = ReduceAwait(s, e)
    BY <1>3 DEF Reduce, FlowTypes, StepTypes, AwaitTypes
  <2>2. ReduceAwait(s, e) \in States
    BY <1>3 DEF ReduceAwait, AwaitTypes, States
  <2> QED BY <2>1, <2>2
<1> QED BY <1>1, <1>2, <1>3 DEF EventTypes

LEMMA ScriptTyped ==
  ASSUME NEW t \in Topics, NEW i \in 1 .. Len(Script[t])
  PROVE  Script[t][i] \in EventTypes
BY ScriptAssumption DEF EventTypes

LEMMA ScriptLength ==
  ASSUME NEW t \in Topics
  PROVE  Len(Script[t]) \in Nat
BY ScriptAssumption

\* The functions that the events of a topic are.
Steps(t) == [m \in 1 .. Len(Script[t]) |-> [x \in States |-> Reduce(x, Script[t][m])]]

LEMMA ReduceFirstRuns ==
  ASSUME NEW s \in States, NEW t \in Topics, NEW n \in 0 .. Len(Script[t])
  PROVE  \E f \in [0 .. n -> States] : Runs(f, n, s, Steps(t)) /\ ReduceFirst(s, t, n) = f[n]
<1> DEFINE Body(f) == [m \in 0 .. n |-> IF m = 0 THEN s ELSE Reduce(f[m - 1], Script[t][m])]
<1>0. n \in Nat /\ Len(Script[t]) \in Nat /\ n <= Len(Script[t])
  BY ScriptLength
<1>1. \A m \in 1 .. n : \A x \in States : Steps(t)[m][x] = Reduce(x, Script[t][m])
                                           /\ Steps(t)[m][x] \in States
  BY <1>0, ReduceTyped, ScriptTyped DEF Steps
<1>2. PICK f \in [0 .. n -> States] : Runs(f, n, s, Steps(t))
  BY <1>0, <1>1, RunExists
<1>3. f[0] = s /\ \A m \in 0 .. n - 1 : f[m + 1] = Reduce(f[m], Script[t][m + 1])
  <2>1. ASSUME NEW m \in 0 .. n - 1 PROVE f[m + 1] = Reduce(f[m], Script[t][m + 1])
    <3>1. m + 1 \in 1 .. n /\ f[m] \in States
      BY <1>0
    <3> QED BY <1>2, <1>1, <3>1 DEF Runs
  <2> QED BY <1>2, <2>1 DEF Runs
<1>4. f = Body(f)
  <2>1. ASSUME NEW m \in 0 .. n PROVE f[m] = Body(f)[m]
    <3>1. CASE m = 0
      BY <1>3, <3>1
    <3>2. CASE m # 0
      <4>1. m - 1 \in 0 .. n - 1 /\ m - 1 + 1 = m
        BY <1>0, <3>2
      <4> QED BY <3>2, <4>1, <1>3
    <3> QED BY <3>1, <3>2
  <2> QED BY <2>1
<1> DEFINE c == CHOOSE f1 : f1 = Body(f1)
<1>5. c = Body(c)
  BY <1>4
<1>6. ReduceFirst(s, t, n) = c[n]
  BY DEF ReduceFirst
<1> HIDE DEF c
<1>7. Runs(c, n, s, Steps(t))
  <2>1. c[0] = s
    BY <1>0, <1>5
  <2> DEFINE H == {m \in 0 .. n : c[m] = f[m]}
  <2>2. 0 \in H
    BY <1>0, <2>1, <1>3
  <2>3. ASSUME NEW m \in 0 .. n, m \in H, m < n PROVE m + 1 \in H
    <3>1. m \in 0 .. n - 1 /\ m + 1 \in 0 .. n /\ m + 1 # 0 /\ m + 1 - 1 = m /\ c[m] = f[m]
      BY <1>0, <2>3
    <3>2. Body(c)[m + 1] = Reduce(c[m], Script[t][m + 1])
      BY <3>1
    <3>3. c[m + 1] = Body(c)[m + 1]
      BY <1>5
    <3> HIDE DEF Body
    <3> QED BY <3>1, <3>2, <3>3, <1>3
  <2>4. \A m \in 0 .. n : m \in H
    <3> HIDE DEF H
    <3> QED BY <1>0, <2>2, <2>3, Induction
  <2>5. \A m \in 0 .. n : c[m] = f[m]
    BY <2>4
  <2>6. \A m \in 0 .. n - 1 : m \in 0 .. n /\ m + 1 \in 0 .. n
    BY <1>0
  <2> HIDE DEF H, Body
  <2> QED BY <2>1, <2>5, <2>6, <1>2 DEF Runs
<1>8. c[n] = f[n]
  BY <1>0, <1>2, <1>7, RunUnique
<1> QED BY <1>2, <1>6, <1>8

LEMMA ReduceFirstTyped ==
  ASSUME NEW s \in States, NEW t \in Topics, NEW n \in 0 .. Len(Script[t])
  PROVE  ReduceFirst(s, t, n) \in States
BY ReduceFirstRuns, ScriptLength

LEMMA ReduceFirstNone ==
  ASSUME NEW s \in States, NEW t \in Topics
  PROVE  ReduceFirst(s, t, 0) = s
<1>1. 0 \in 0 .. Len(Script[t])
  BY ScriptLength
<1> QED BY <1>1, ReduceFirstRuns DEF Runs

LEMMA ReduceFirstNext ==
  ASSUME NEW s \in States, NEW t \in Topics, NEW n \in 0 .. Len(Script[t]), n < Len(Script[t])
  PROVE  ReduceFirst(s, t, n + 1) = Reduce(ReduceFirst(s, t, n), Script[t][n + 1])
<1>0. n \in Nat /\ n + 1 \in 0 .. Len(Script[t]) /\ n + 1 \in 1 .. Len(Script[t])
      /\ n \in 0 .. n + 1 - 1
  BY ScriptLength
<1>1. PICK f \in [0 .. n -> States] : Runs(f, n, s, Steps(t)) /\ ReduceFirst(s, t, n) = f[n]
  BY ReduceFirstRuns
<1>2. PICK g \in [0 .. n + 1 -> States] :
        Runs(g, n + 1, s, Steps(t)) /\ ReduceFirst(s, t, n + 1) = g[n + 1]
  BY <1>0, ReduceFirstRuns
<1>3. Runs(g, n, s, Steps(t))
  <2>1. \A m \in 0 .. n - 1 : m \in 0 .. n + 1 - 1
    BY <1>0
  <2> QED BY <1>2, <2>1 DEF Runs
<1>4. f[n] = g[n] /\ f[n] \in States
  BY <1>0, <1>1, <1>3, RunUnique
<1>5. g[n + 1] = Steps(t)[n + 1][g[n]]
  <2>1. \A m \in 0 .. n + 1 - 1 : g[m + 1] = Steps(t)[m + 1][g[m]]
    BY <1>2 DEF Runs
  <2> QED BY <1>0, <2>1
<1> QED BY <1>0, <1>1, <1>2, <1>4, <1>5 DEF Steps

(* The events part by part: the flow, the step and the await each have their  *)
(* own, and but for step.started what they set does not depend on the state.  *)
FlowAfter(e) ==
  IF e = "start" THEN "running" ELSE
  IF e = "cancel" THEN "canceled" ELSE e
StepAfter(e) ==
  IF e = "step.completed" THEN "completed" ELSE
  IF e = "step.failed" THEN "failed" ELSE "retrying"
AwaitAfter(e) ==
  IF e = "await.registered" THEN "waiting" ELSE
  IF e = "await.resolved" THEN "completed" ELSE "timeout"
Ended == {"completed", "failed"}
EndTypes == StepTypes \ {"step.started"}

LEMMA ReduceParts ==
  ASSUME NEW s \in States, NEW e \in EventTypes
  PROVE  /\ Reduce(s, e).flow = IF e \in FlowTypes THEN FlowAfter(e) ELSE s.flow
         /\ Reduce(s, e).started = (s.started \/ e = "start")
         /\ Reduce(s, e).await = IF e \in AwaitTypes THEN AwaitAfter(e) ELSE s.await
         /\ e \in EndTypes => Reduce(s, e).step = StepAfter(e)
         /\ e = "step.started" => Reduce(s, e).step = IF s.step \in Ended THEN s.step ELSE "running"
         /\ e \notin StepTypes => Reduce(s, e).step = s.step
<1>1. CASE e \in FlowTypes
  <2>1. Reduce(s, e) = ReduceFlow(s, e) /\ e \notin StepTypes /\ e \notin AwaitTypes
        /\ e \notin EndTypes /\ e # "step.started"
    BY <1>1 DEF Reduce, FlowTypes, StepTypes, AwaitTypes, EndTypes
  <2>2. ReduceFlow(s, e).flow = FlowAfter(e) /\ ReduceFlow(s, e).step = s.step
        /\ ReduceFlow(s, e).await = s.await /\ ReduceFlow(s, e).started = (s.started \/ e = "start")
    BY <1>1 DEF ReduceFlow, FlowTypes, States, FlowAfter
  <2> QED BY <1>1, <2>1, <2>2
<1>2. CASE e \in StepTypes
  <2>1. Reduce(s, e) = ReduceStep(s, e) /\ e \notin FlowTypes /\ e \notin AwaitTypes /\ e # "start"
    BY <1>2 DEF Reduce, FlowTypes, StepTypes, AwaitTypes
  <2>2. ReduceStep(s, e).flow = s.flow /\ ReduceStep(s, e).started = s.started
        /\ ReduceStep(s, e).await = s.await
        /\ (e = "step.started" => ReduceStep(s, e).step = IF s.step \in Ended THEN s.step ELSE "running")
        /\ (e # "step.started" => ReduceStep(s, e).step = StepAfter(e))
    <3>1. CASE e = "step.started"
      BY <3>1 DEF ReduceStep, States, Ended, None
    <3>2. CASE e # "step.started"
      BY <1>2, <3>2 DEF ReduceStep, StepTypes, States, StepAfter
    <3> QED BY <3>1, <3>2
  <2>3. e \in EndTypes <=> e # "step.started"
    BY <1>2 DEF EndTypes
  <2>4. Reduce(s, e).started = (s.started \/ e = "start")
    BY <2>1, <2>2 DEF States
  <2>5. Reduce(s, e).flow = s.flow /\ Reduce(s, e).await = s.await
    BY <2>1, <2>2
  <2>6. /\ e # "step.started" => Reduce(s, e).step = StepAfter(e)
        /\ e = "step.started" => Reduce(s, e).step = IF s.step \in Ended THEN s.step ELSE "running"
    BY <2>1, <2>2
  <2> QED BY <1>2, <2>1, <2>3, <2>4, <2>5, <2>6
<1>3. CASE e \in AwaitTypes
  <2>1. Reduce(s, e) = ReduceAwait(s, e) /\ e \notin FlowTypes /\ e \notin StepTypes
        /\ e \notin EndTypes /\ e # "step.started" /\ e # "start"
    BY <1>3 DEF Reduce, FlowTypes, StepTypes, AwaitTypes, EndTypes
  <2>2. ReduceAwait(s, e).flow = s.flow /\ ReduceAwait(s, e).step = s.step
        /\ ReduceAwait(s, e).await = AwaitAfter(e) /\ ReduceAwait(s, e).started = s.started
    BY <1>3 DEF ReduceAwait, AwaitTypes, States, AwaitAfter
  <2>3. Reduce(s, e).started = (s.started \/ e = "start")
    BY <2>1, <2>2 DEF States
  <2>4. Reduce(s, e).flow = s.flow /\ Reduce(s, e).step = s.step
        /\ Reduce(s, e).await = AwaitAfter(e)
    BY <2>1, <2>2
  <2> QED BY <1>3, <2>1, <2>3, <2>4
<1> QED BY <1>1, <1>2, <1>3 DEF EventTypes

LEMMA StatesEqual ==
  ASSUME NEW a \in States, NEW b \in States,
         a.flow = b.flow, a.started = b.started, a.step = b.step, a.await = b.await
  PROVE  a = b
BY DEF States

\* An event taken a second time at once changes nothing.
LEMMA ReduceTwice ==
  ASSUME NEW s \in States, NEW e \in EventTypes
  PROVE  Reduce(Reduce(s, e), e) = Reduce(s, e)
<1> DEFINE r == Reduce(s, e)
<1>1. r \in States /\ Reduce(r, e) \in States
  BY ReduceTyped
<1>2. r.started \in BOOLEAN /\ s.started \in BOOLEAN
  BY <1>1 DEF States
<1>3. Reduce(r, e).flow = r.flow /\ Reduce(r, e).started = r.started /\ Reduce(r, e).await = r.await
  BY <1>1, <1>2, ReduceParts
<1>4. Reduce(r, e).step = r.step
  <2>1. CASE e = "step.started"
    BY <1>1, <2>1, ReduceParts
  <2>2. CASE e \in EndTypes
    BY <1>1, <2>2, ReduceParts
  <2>3. CASE e \notin StepTypes
    BY <1>1, <2>3, ReduceParts
  <2> QED BY <2>1, <2>2, <2>3 DEF EndTypes
<1> QED BY <1>1, <1>3, <1>4, StatesEqual

\* A state shows nothing that no event seen has brought about.
Fits(s, seen, t) ==
  /\ s.flow = "running" \/ \E i \in seen : Script[t][i] \in FlowTypes
  /\ s.started => \E i \in seen : Script[t][i] = "start"
  /\ s.await = None \/ \E i \in seen : Script[t][i] \in AwaitTypes
  /\ \/ s.step = None
     \/ s.step = "running" /\ \E i \in seen : Script[t][i] = "step.started"
     \/ \E i \in seen : Script[t][i] \in EndTypes

LEMMA FitsMore ==
  ASSUME NEW s, NEW t, NEW A, NEW B, A \subseteq B, Fits(s, A, t)
  PROVE  Fits(s, B, t)
BY DEF Fits

LEMMA FitsNext ==
  ASSUME NEW t \in Topics, NEW i \in 1 .. Len(Script[t]), NEW s \in States, NEW A, i \in A,
         Fits(s, A, t)
  PROVE  Fits(Reduce(s, Script[t][i]), A, t)
<1> DEFINE e == Script[t][i]
           r == Reduce(s, e)
<1>1. e \in EventTypes
  BY ScriptTyped
<1>2. r.flow = "running" \/ \E j \in A : Script[t][j] \in FlowTypes
  BY <1>1, ReduceParts DEF Fits
<1>3. r.started => \E j \in A : Script[t][j] = "start"
  BY <1>1, ReduceParts DEF Fits
<1>4. r.await = None \/ \E j \in A : Script[t][j] \in AwaitTypes
  BY <1>1, ReduceParts DEF Fits
<1>5. \/ r.step = None
      \/ r.step = "running" /\ \E j \in A : Script[t][j] = "step.started"
      \/ \E j \in A : Script[t][j] \in EndTypes
  <2>1. CASE e = "step.started"
    <3>1. r.step = IF s.step \in Ended THEN s.step ELSE "running"
      BY <1>1, <2>1, ReduceParts
    <3>2. CASE s.step \in Ended
      BY <3>2 DEF Fits, Ended, None
    <3> QED BY <2>1, <3>1, <3>2
  <2>2. CASE e \in EndTypes
    BY <2>2
  <2>3. CASE e \notin StepTypes
    <3>1. r.step = s.step
      BY <1>1, <2>3, ReduceParts
    <3> QED BY <3>1 DEF Fits
  <2> QED BY <2>1, <2>2, <2>3 DEF EndTypes
<1> QED BY <1>2, <1>3, <1>4, <1>5 DEF Fits

\* Two states differ only in what an event of A after the first m will settle.
Alike(a, b, A, t, m) ==
  LET Later(types) == \E i \in A : i > m /\ Script[t][i] \in types IN
  /\ a.flow = b.flow \/ Later(FlowTypes)
  /\ a.started = b.started \/ Later({"start"})
  /\ a.await = b.await \/ Later(AwaitTypes)
  /\ a.step = b.step \/ Later(EndTypes)
     \/ (a.step = "running" /\ b.step = None /\ Later({"step.started"}))

LEMMA AlikeNext ==
  ASSUME NEW t \in Topics, NEW m \in 0 .. Len(Script[t]), m < Len(Script[t]),
         NEW A, A \subseteq Nat, NEW a \in States, NEW b \in States, Alike(a, b, A, t, m)
  PROVE  Alike(Reduce(a, Script[t][m + 1]), Reduce(b, Script[t][m + 1]), A, t, m + 1)
<1> DEFINE e == Script[t][m + 1]
           c == Reduce(a, e)
           d == Reduce(b, e)
           Later(types, k) == \E i \in A : i > k /\ Script[t][i] \in types
<1>1. e \in EventTypes /\ m \in Nat
  BY ScriptTyped, ScriptLength
<1>2. ASSUME NEW types, e \notin types, Later(types, m) PROVE Later(types, m + 1)
  <2>1. PICK i \in A : i > m /\ Script[t][i] \in types
    BY <1>2
  <2>2. i # m + 1 /\ i \in Nat
    BY <2>1, <1>2
  <2> QED BY <1>1, <2>1, <2>2
<1>3. c.flow = d.flow \/ Later(FlowTypes, m + 1)
  BY <1>1, <1>2, ReduceParts DEF Alike
<1>4. c.started = d.started \/ Later({"start"}, m + 1)
  <2>1. CASE e = "start"
    BY <1>1, <2>1, ReduceParts
  <2>2. CASE e # "start"
    <3>1. c.started = (a.started \/ FALSE) /\ d.started = (b.started \/ FALSE)
      BY <1>1, <2>2, ReduceParts
    <3> QED BY <1>2, <2>2, <3>1 DEF Alike
  <2> QED BY <2>1, <2>2
<1>5. c.await = d.await \/ Later(AwaitTypes, m + 1)
  <2>1. CASE e \in AwaitTypes
    BY <1>1, <2>1, ReduceParts
  <2>2. CASE e \notin AwaitTypes
    <3>1. c.await = a.await /\ d.await = b.await
      BY <1>1, <2>2, ReduceParts
    <3> QED BY <1>2, <2>2, <3>1 DEF Alike
  <2> QED BY <2>1, <2>2
<1>6. c.step = d.step \/ Later(EndTypes, m + 1)
      \/ (c.step = "running" /\ d.step = None /\ Later({"step.started"}, m + 1))
  <2>1. CASE e = "step.started"
    <3>1. c.step = (IF a.step \in Ended THEN a.step ELSE "running")
          /\ d.step = (IF b.step \in Ended THEN b.step ELSE "running")
      BY <1>1, <2>1, ReduceParts
    <3>2. e \notin EndTypes /\ None \notin Ended /\ "running" \notin Ended
      BY <2>1 DEF EndTypes, Ended, None
    <3>3. CASE Later(EndTypes, m)
      BY <1>2, <3>2, <3>3
    <3>4. CASE a.step = b.step
      BY <3>1, <3>4
    <3>5. CASE a.step = "running" /\ b.step = None
      BY <3>1, <3>2, <3>5
    <3> QED BY <3>3, <3>4, <3>5 DEF Alike
  <2>2. CASE e \in EndTypes
    BY <1>1, <2>2, ReduceParts
  <2>3. CASE e \notin StepTypes
    <3>1. c.step = a.step /\ d.step = b.step
      BY <1>1, <2>3, ReduceParts
    <3>2. e \notin EndTypes /\ e \notin {"step.started"}
      BY <2>3 DEF EndTypes, StepTypes
    <3> QED BY <1>2, <3>1, <3>2 DEF Alike
  <2> QED BY <2>1, <2>2, <2>3 DEF EndTypes
<1> HIDE DEF c, d, e
<1> QED BY <1>3, <1>4, <1>5, <1>6 DEF Alike, c, d, e

\* A history that goes as far as what was seen makes of a state that fits what it makes of none.
LEMMA ReducedFromAnywhere ==
  ASSUME NEW t \in Topics, NEW n \in 0 .. Len(Script[t]), NEW s \in States,
         NEW A, A \subseteq 1 .. n, Fits(s, A, t)
  PROVE  ReduceFirst(s, t, n) = ReduceFirst(Unseen, t, n)
<1>0. n \in Nat /\ Len(Script[t]) \in Nat /\ A \subseteq Nat /\ Unseen \in States
  BY ScriptLength DEF Unseen, States
<1> DEFINE H == {m \in 0 .. n : Alike(ReduceFirst(s, t, m), ReduceFirst(Unseen, t, m), A, t, m)}
<1>1. 0 \in H
  <2>1. \A i \in A : i > 0
    OBVIOUS
  <2>2. Alike(s, Unseen, A, t, 0)
    BY <2>1 DEF Alike, Fits, Unseen, States
  <2> QED BY <1>0, <2>2, ReduceFirstNone
<1>2. ASSUME NEW m \in 0 .. n, m \in H, m < n PROVE m + 1 \in H
  <2>1. m \in 0 .. Len(Script[t]) /\ m < Len(Script[t]) /\ m + 1 \in 0 .. n
    BY <1>0, <1>2
  <2>2. ReduceFirst(s, t, m) \in States /\ ReduceFirst(Unseen, t, m) \in States
    BY <1>0, <2>1, ReduceFirstTyped
  <2>3. Alike(ReduceFirst(s, t, m), ReduceFirst(Unseen, t, m), A, t, m)
    BY <1>2
  <2> QED BY <1>0, <2>1, <2>2, <2>3, AlikeNext, ReduceFirstNext
<1>3. \A m \in 0 .. n : m \in H
  <2> HIDE DEF H
  <2> QED BY <1>0, <1>1, <1>2, Induction
<1>4. Alike(ReduceFirst(s, t, n), ReduceFirst(Unseen, t, n), A, t, n)
  BY <1>0, <1>3
<1>5. ~ \E i \in A : i > n
  BY <1>0
<1>6. ReduceFirst(s, t, n) \in States /\ ReduceFirst(Unseen, t, n) \in States
  BY <1>0, ReduceFirstTyped
<1> QED BY <1>4, <1>5, <1>6, StatesEqual DEF Alike

LEMMA FitsFirst ==
  ASSUME NEW t \in Topics, NEW n \in 0 .. Len(Script[t]), NEW s \in States, NEW A,
         1 .. n \subseteq A, Fits(s, A, t)
  PROVE  Fits(ReduceFirst(s, t, n), A, t)
<1>0. n \in Nat /\ Len(Script[t]) \in Nat
  BY ScriptLength
<1> DEFINE H == {m \in 0 .. n : Fits(ReduceFirst(s, t, m), A, t)}
<1>1. 0 \in H
  BY <1>0, ReduceFirstNone
<1>2. ASSUME NEW m \in 0 .. n, m \in H, m < n PROVE m + 1 \in H
  <2>1. m \in 0 .. Len(Script[t]) /\ m < Len(Script[t]) /\ m + 1 \in 0 .. n
        /\ m + 1 \in 1 .. Len(Script[t]) /\ m + 1 \in A
    BY <1>0, <1>2
  <2>2. ReduceFirst(s, t, m) \in States /\ Fits(ReduceFirst(s, t, m), A, t)
    BY <1>2, <2>1, ReduceFirstTyped
  <2> QED BY <2>1, <2>2, FitsNext, ReduceFirstNext
<1>3. \A m \in 0 .. n : m \in H
  <2> HIDE DEF H
  <2> QED BY <1>0, <1>1, <1>2, Induction
<1> QED BY <1>0, <1>3

-----------------------------------------------------------------------------
(* The view after messages of the server                                      *)
Views == [seen : SUBSET (Nat \ {0}), foreign : BOOLEAN, late : BOOLEAN, state : States]

PageMessages == [kind : {"event", "history"}, topic : Topics, n : Nat]
StatsMessages == [kind : {"initial", "update", "stats.subscribed", "stats.unsubscribed"},
                  topic : {Stats}, n : Nat]
Messages ==
  {m \in PageMessages : m.n <= Len(Script[m.topic]) /\ (m.kind = "event" => m.n # 0)}
    \union StatsMessages

\* What the page of service s that watches w makes of a message: see Receive.
EventShown(s, w, v, t, i) ==
  [seen |-> IF t = w THEN v.seen \union {i} ELSE v.seen,
   foreign |-> v.foreign \/ t # w,
   late |-> v.late,
   state |-> IF s = "flows" THEN Reduce(v.state, Script[t][i]) ELSE v.state]

HistoryShown(s, w, v, t, n) ==
  LET before == IF s = "flows" THEN v ELSE NothingShown IN
  [seen |-> IF t = w THEN before.seen \union 1 .. n ELSE before.seen,
   foreign |-> before.foreign \/ (t # w /\ n > 0),
   late |-> \E i \in before.seen : i > n,
   state |-> IF s = "flows" THEN ReduceFirst(before.state, t, n) ELSE before.state]

MessageShown(s, w, v, m) ==
  IF w = None THEN v
  ELSE IF m.kind = "event" THEN EventShown(s, w, v, m.topic, m.n)
  ELSE IF m.kind = "history" THEN HistoryShown(s, w, v, m.topic, m.n)
  ELSE v

\* The view after all of ms, one message after another.
AfterAll(s, w, v, ms) ==
  LET after[m \in 0 .. Len(ms)] == IF m = 0 THEN v ELSE MessageShown(s, w, after[m - 1], ms[m])
  IN  after[Len(ms)]

\* Nothing of another run, and not of a history that came late: what is shown fits.
ViewFits(s, w, v) ==
  /\ v.late => v.seen # {}
  /\ s = "flows" /\ ~v.foreign => Fits(v.state, v.seen, w)

LEMMA UnseenTyped == Unseen \in States /\ NothingShown \in Views
BY DEF Unseen, States, NothingShown, Views

LEMMA MessageKinds ==
  ASSUME NEW m \in Messages
  PROVE  \/ m.kind = "event" /\ m.topic \in Topics /\ m.n \in 1 .. Len(Script[m.topic])
         \/ m.kind = "history" /\ m.topic \in Topics /\ m.n \in 0 .. Len(Script[m.topic])
         \/ m.kind \notin {"event", "history"} /\ m \in StatsMessages
BY ScriptLength DEF Messages, PageMessages, StatsMessages

LEMMA MessageTyped ==
  ASSUME NEW s, NEW w, NEW v \in Views, NEW m \in Messages
  PROVE  MessageShown(s, w, v, m) \in Views
<1>1. CASE w # None /\ m.kind = "event"
  <2>1. m.topic \in Topics /\ m.n \in 1 .. Len(Script[m.topic]) /\ m.n \in Nat
    BY <1>1, MessageKinds
  <2>2. v.state \in States => Reduce(v.state, Script[m.topic][m.n]) \in States
    BY <2>1, ReduceTyped, ScriptTyped
  <2>3. EventShown(s, w, v, m.topic, m.n) \in Views
    BY <2>1, <2>2 DEF EventShown, Views
  <2> QED BY <1>1, <2>3 DEF MessageShown
<1>2. CASE w # None /\ m.kind = "history"
  <2> DEFINE before == IF s = "flows" THEN v ELSE NothingShown
  <2>1. m.topic \in Topics /\ m.n \in 0 .. Len(Script[m.topic]) /\ m.n \in Nat
    BY <1>2, MessageKinds
  <2>2. before \in Views
    BY UnseenTyped
  <2>3. before.state \in States => ReduceFirst(before.state, m.topic, m.n) \in States
    BY <2>1, ReduceFirstTyped
  <2>4. HistoryShown(s, w, v, m.topic, m.n) =
          [seen |-> IF m.topic = w THEN before.seen \union 1 .. m.n ELSE before.seen,
           foreign |-> before.foreign \/ (m.topic # w /\ m.n > 0),
           late |-> \E i \in before.seen : i > m.n,
           state |-> IF s = "flows" THEN ReduceFirst(before.state, m.topic, m.n) ELSE before.state]
    BY DEF HistoryShown
  <2> HIDE DEF before
  <2>5. HistoryShown(s, w, v, m.topic, m.n) \in Views
    BY <2>1, <2>2, <2>3, <2>4 DEF Views
  <2> QED BY <1>2, <2>5 DEF MessageShown
<1> QED BY <1>1, <1>2 DEF MessageShown

LEMMA MessageFits ==
  ASSUME NEW s, NEW w \in Topics, NEW v \in Views, NEW m \in Messages, ViewFits(s, w, v)
  PROVE  ViewFits(s, w, MessageShown(s, w, v, m))
<1>0. w # None
  BY LiveViewAssumption
<1>1. CASE m.kind = "event"
  <2>1. m.topic \in Topics /\ m.n \in 1 .. Len(Script[m.topic]) /\ m.n \in Nat
    BY <1>1, MessageKinds
  <2> DEFINE x == EventShown(s, w, v, m.topic, m.n)
  <2>2. MessageShown(s, w, v, m) = x
    BY <1>0, <1>1 DEF MessageShown
  <2>3. x.late => x.seen # {}
    BY DEF ViewFits, EventShown
  <2>4. ASSUME s = "flows", ~x.foreign PROVE Fits(x.state, x.seen, w)
    <3>1. ~v.foreign /\ m.topic = w /\ x.seen = v.seen \union {m.n}
          /\ x.state = Reduce(v.state, Script[w][m.n])
      BY <2>4 DEF EventShown
    <3>2. Fits(v.state, v.seen \union {m.n}, w)
      BY <2>4, <3>1, FitsMore DEF ViewFits
    <3>3. v.state \in States
      BY DEF Views
    <3> QED BY <2>1, <3>1, <3>2, <3>3, FitsNext
  <2> HIDE DEF x
  <2> QED BY <2>2, <2>3, <2>4 DEF ViewFits
<1>2. CASE m.kind = "history"
  <2>1. m.topic \in Topics /\ m.n \in 0 .. Len(Script[m.topic]) /\ m.n \in Nat
    BY <1>2, MessageKinds
  <2> DEFINE x == HistoryShown(s, w, v, m.topic, m.n)
  <2>2. MessageShown(s, w, v, m) = x
    BY <1>0, <1>2 DEF MessageShown
  <2>3. x.late => x.seen # {}
    BY DEF HistoryShown, NothingShown
  <2>4. ASSUME s = "flows", ~x.foreign PROVE Fits(x.state, x.seen, w)
    <3>1. ~v.foreign /\ (m.topic = w \/ m.n = 0) /\ x.state = ReduceFirst(v.state, m.topic, m.n)
          /\ x.seen = IF m.topic = w THEN v.seen \union 1 .. m.n ELSE v.seen
      <4>1. x = [seen |-> IF m.topic = w THEN v.seen \union 1 .. m.n ELSE v.seen,
                 foreign |-> v.foreign \/ (m.topic # w /\ m.n > 0),
                 late |-> \E i \in v.seen : i > m.n,
                 state |-> ReduceFirst(v.state, m.topic, m.n)]
        BY <2>4 DEF HistoryShown
      <4>2. x.foreign = (v.foreign \/ (m.topic # w /\ m.n > 0))
            /\ x.state = ReduceFirst(v.state, m.topic, m.n)
            /\ x.seen = IF m.topic = w THEN v.seen \union 1 .. m.n ELSE v.seen
        <5> HIDE DEF x
        <5> QED BY <4>1
      <4>3. ~(m.n > 0) => m.n = 0
        BY <2>1, ScriptLength
      <4> HIDE DEF x
      <4> QED BY <2>4, <4>2, <4>3, Zenon
    <3>2. v.state \in States /\ Fits(v.state, v.seen, w)
      BY <2>4, <3>1 DEF Views, ViewFits
    <3>3. CASE m.topic = w
      <4>1. Fits(v.state, x.seen, w)
        BY <3>1, <3>2, <3>3, FitsMore
      <4> QED BY <2>1, <3>1, <3>2, <3>3, <4>1, FitsFirst
    <3>4. CASE m.topic # w
      BY <2>1, <3>1, <3>2, <3>4, ReduceFirstNone
    <3> QED BY <3>3, <3>4
  <2> HIDE DEF x
  <2> QED BY <2>2, <2>3, <2>4 DEF ViewFits
<1>3. CASE m.kind \notin {"event", "history"}
  BY <1>3 DEF MessageShown
<1> QED BY <1>1, <1>2, <1>3

\* The functions that messages are.
Shows(s, w, ms) == [m \in 1 .. Len(ms) |-> [x \in Views |-> MessageShown(s, w, x, ms[m])]]

LEMMA AfterAllRuns ==
  ASSUME NEW s, NEW w, NEW v \in Views, NEW ms \in Seq(Messages)
  PROVE  \E f \in [0 .. Len(ms) -> Views] :
           Runs(f, Len(ms), v, Shows(s, w, ms)) /\ AfterAll(s, w, v, ms) = f[Len(ms)]
<1> DEFINE n == Len(ms)
           Body(f) == [m \in 0 .. n |-> IF m = 0 THEN v ELSE MessageShown(s, w, f[m - 1], ms[m])]
<1>0. n \in Nat /\ \A m \in 1 .. n : ms[m] \in Messages
  OBVIOUS
<1> HIDE DEF n
<1>1. \A m \in 1 .. n : \A x \in Views :
        Shows(s, w, ms)[m][x] = MessageShown(s, w, x, ms[m]) /\ Shows(s, w, ms)[m][x] \in Views
  BY <1>0, MessageTyped DEF Shows, n
<1>2. PICK f \in [0 .. n -> Views] : Runs(f, n, v, Shows(s, w, ms))
  BY <1>0, <1>1, RunExists
<1>3. f[0] = v /\ \A m \in 0 .. n - 1 : f[m + 1] = MessageShown(s, w, f[m], ms[m + 1])
  <2>1. ASSUME NEW m \in 0 .. n - 1 PROVE f[m + 1] = MessageShown(s, w, f[m], ms[m + 1])
    <3>1. m + 1 \in 1 .. n /\ f[m] \in Views
      BY <1>0
    <3> QED BY <1>2, <1>1, <3>1 DEF Runs
  <2> QED BY <1>2, <2>1 DEF Runs
<1>4. f = Body(f)
  <2>1. ASSUME NEW m \in 0 .. n PROVE f[m] = Body(f)[m]
    <3>1. CASE m = 0
      BY <1>3, <3>1
    <3>2. CASE m # 0
      <4>1. m - 1 \in 0 .. n - 1 /\ m - 1 + 1 = m
        BY <1>0, <3>2
      <4> QED BY <3>2, <4>1, <1>3
    <3> QED BY <3>1, <3>2
  <2> QED BY <2>1
<1> DEFINE c == CHOOSE f1 : f1 = Body(f1)
<1>5. c = Body(c)
  BY <1>4
<1>6. AfterAll(s, w, v, ms) = c[n]
  BY DEF AfterAll, n
<1> HIDE DEF c
<1>7. Runs(c, n, v, Shows(s, w, ms))
  <2>1. c[0] = v
    BY <1>0, <1>5
  <2> DEFINE H == {m \in 0 .. n : c[m] = f[m]}
  <2>2. 0 \in H
    BY <1>0, <2>1, <1>3
  <2>3. ASSUME NEW m \in 0 .. n, m \in H, m < n PROVE m + 1 \in H
    <3>1. m \in 0 .. n - 1 /\ m + 1 \in 0 .. n /\ m + 1 # 0 /\ m + 1 - 1 = m /\ c[m] = f[m]
      BY <1>0, <2>3
    <3>2. Body(c)[m + 1] = MessageShown(s, w, c[m], ms[m + 1])
      BY <3>1
    <3>3. c[m + 1] = Body(c)[m + 1]
      BY <1>5
    <3> HIDE DEF Body
    <3> QED BY <3>1, <3>2, <3>3, <1>3
  <2>4. \A m \in 0 .. n : m \in H
    <3> HIDE DEF H
    <3> QED BY <1>0, <2>2, <2>3, Induction
  <2>5. \A m \in 0 .. n : c[m] = f[m]
    BY <2>4
  <2>6. \A m \in 0 .. n - 1 : m \in 0 .. n /\ m + 1 \in 0 .. n
    BY <1>0
  <2> HIDE DEF H, Body
  <2> QED BY <2>1, <2>5, <2>6, <1>2 DEF Runs
<1>8. c[n] = f[n]
  BY <1>0, <1>2, <1>7, RunUnique
<1> QED BY <1>2, <1>6, <1>8 DEF n

LEMMA AfterAllTyped ==
  ASSUME NEW s, NEW w, NEW v \in Views, NEW ms \in Seq(Messages)
  PROVE  AfterAll(s, w, v, ms) \in Views
<1>1. Len(ms) \in 0 .. Len(ms)
  OBVIOUS
<1> QED BY <1>1, AfterAllRuns

LEMMA AfterAllNone ==
  ASSUME NEW s, NEW w, NEW v \in Views
  PROVE  AfterAll(s, w, v, <<>>) = v
<1>1. <<>> \in Seq(Messages) /\ Len(<<>>) = 0
  OBVIOUS
<1>2. PICK f \in [0 .. Len(<<>>) -> Views] :
        Runs(f, Len(<<>>), v, Shows(s, w, <<>>)) /\ AfterAll(s, w, v, <<>>) = f[Len(<<>>)]
  BY <1>1, AfterAllRuns
<1> QED BY <1>1, <1>2 DEF Runs

\* Sending a message and receiving it are one thing.
LEMMA AfterAllAppend ==
  ASSUME NEW s, NEW w, NEW v \in Views, NEW ms \in Seq(Messages), NEW m \in Messages
  PROVE  AfterAll(s, w, v, Append(ms, m)) = MessageShown(s, w, AfterAll(s, w, v, ms), m)
<1> DEFINE n == Len(ms)
           more == Append(ms, m)
<1>0. n \in Nat /\ more \in Seq(Messages) /\ Len(more) = n + 1 /\ more[n + 1] = m
      /\ \A k \in 1 .. n : more[k] = ms[k]
  OBVIOUS
<1> HIDE DEF n, more
<1>1. PICK f \in [0 .. n -> Views] : Runs(f, n, v, Shows(s, w, ms)) /\ AfterAll(s, w, v, ms) = f[n]
  BY <1>0, AfterAllRuns DEF n
<1>2. PICK g \in [0 .. n + 1 -> Views] :
        Runs(g, n + 1, v, Shows(s, w, more)) /\ AfterAll(s, w, v, more) = g[n + 1]
  BY <1>0, AfterAllRuns
<1>3. g[0] = v /\ \A k \in 0 .. n : g[k + 1] = Shows(s, w, more)[k + 1][g[k]]
  <2> DEFINE j == n + 1
  <2>1. j - 1 = n
    BY <1>0
  <2>2. Runs(g, j, v, Shows(s, w, more))
    BY <1>2
  <2> HIDE DEF j
  <2> QED BY <2>1, <2>2 DEF Runs
<1>4. \A k \in 1 .. n : Shows(s, w, more)[k] = Shows(s, w, ms)[k]
  BY <1>0 DEF Shows, n
<1>5. Runs(g, n, v, Shows(s, w, ms))
  <2>1. \A k \in 0 .. n - 1 : k \in 0 .. n /\ k + 1 \in 1 .. n
    BY <1>0
  <2> QED BY <1>3, <1>4, <2>1 DEF Runs
<1>6. f[n] = g[n] /\ g[n] \in Views
  BY <1>0, <1>1, <1>5, RunUnique
<1>7. g[n + 1] = Shows(s, w, more)[n + 1][g[n]]
  BY <1>0, <1>3
<1>8. Shows(s, w, more)[n + 1][g[n]] = MessageShown(s, w, g[n], m)
  BY <1>0, <1>6 DEF Shows
<1> QED BY <1>1, <1>2, <1>6, <1>7, <1>8 DEF more

LEMMA AfterAllReceive ==
  ASSUME NEW s, NEW w, NEW v \in Views, NEW ms \in Seq(Messages), ms # <<>>
  PROVE  AfterAll(s, w, v, ms) = AfterAll(s, w, MessageShown(s, w, v, Head(ms)), Tail(ms))
<1> DEFINE n == Len(ms) - 1
           rest == Tail(ms)
           first == MessageShown(s, w, v, Head(ms))
<1>0. /\ n \in Nat /\ n + 1 = Len(ms) /\ rest \in Seq(Messages) /\ Len(rest) = n
      /\ Head(ms) \in Messages /\ Head(ms) = ms[1] /\ first \in Views
      /\ \A k \in 1 .. n : rest[k] = ms[k + 1]
  BY MessageTyped
<1> HIDE DEF n, rest, first
<1>1. PICK f \in [0 .. n -> Views] :
        Runs(f, n, first, Shows(s, w, rest)) /\ AfterAll(s, w, first, rest) = f[n]
  <2>1. \E f \in [0 .. Len(rest) -> Views] :
          Runs(f, Len(rest), first, Shows(s, w, rest)) /\ AfterAll(s, w, first, rest) = f[Len(rest)]
    BY <1>0, AfterAllRuns
  <2>2. Len(rest) = n
    BY <1>0
  <2> QED BY <2>1, <2>2, Zenon
<1>2. PICK g \in [0 .. n + 1 -> Views] :
        Runs(g, n + 1, v, Shows(s, w, ms)) /\ AfterAll(s, w, v, ms) = g[n + 1]
  <2>1. \E g \in [0 .. Len(ms) -> Views] :
          Runs(g, Len(ms), v, Shows(s, w, ms)) /\ AfterAll(s, w, v, ms) = g[Len(ms)]
    BY AfterAllRuns
  <2>2. Len(ms) = n + 1
    BY <1>0
  <2> QED BY <2>1, <2>2, Zenon
<1>3. g[0] = v /\ \A k \in 0 .. n : g[k + 1] = Shows(s, w, ms)[k + 1][g[k]]
  <2> DEFINE j == n + 1
  <2>1. j - 1 = n
    BY <1>0
  <2>2. Runs(g, j, v, Shows(s, w, ms))
    BY <1>2
  <2> HIDE DEF j
  <2> QED BY <2>1, <2>2 DEF Runs
<1>4. \A k \in 1 .. n : Shows(s, w, rest)[k] = Shows(s, w, ms)[k + 1]
  <2>1. \A k \in 1 .. n : k + 1 \in 1 .. Len(ms)
    BY <1>0
  <2> QED BY <1>0, <2>1 DEF Shows
<1> DEFINE h == [k \in 0 .. n |-> g[k + 1]]
<1>5. h[0] = first
  <2>1. g[0 + 1] = Shows(s, w, ms)[0 + 1][v]
    BY <1>0, <1>3
  <2>2. Shows(s, w, ms)[1][v] = first
    BY <1>0 DEF Shows, first
  <2>3. h[0] = g[0 + 1] /\ 0 + 1 = 1
    BY <1>0
  <2> QED BY <2>1, <2>2, <2>3
<1>6. ASSUME NEW k \in 0 .. n - 1 PROVE h[k + 1] = Shows(s, w, rest)[k + 1][h[k]]
  <2>1. k \in 0 .. n /\ k + 1 \in 0 .. n /\ k + 1 \in 1 .. n
    BY <1>0
  <2>2. g[k + 1 + 1] = Shows(s, w, ms)[k + 1 + 1][g[k + 1]]
    BY <1>3, <2>1
  <2>3. h[k] = g[k + 1] /\ h[k + 1] = g[k + 1 + 1]
    BY <2>1
  <2> HIDE DEF h
  <2> QED BY <1>4, <2>1, <2>2, <2>3
<1>7. Runs(h, n, first, Shows(s, w, rest))
  <2> HIDE DEF h
  <2> QED BY <1>5, <1>6 DEF Runs
<1>8. h[n] = f[n]
  <2> HIDE DEF h
  <2> QED BY <1>0, <1>1, <1>7, RunUnique
<1>9. h[n] = g[n + 1]
  BY <1>0
<1> QED BY <1>1, <1>2, <1>8, <1>9 DEF rest, first

LEMMA AfterAllFits ==
  ASSUME NEW s, NEW w \in Topics, NEW v \in Views, NEW ms \in Seq(Messages), ViewFits(s, w, v)
  PROVE  ViewFits(s, w, AfterAll(s, w, v, ms))
<1> DEFINE n == Len(ms)
<1>0. n \in Nat /\ \A m \in 1 .. n : ms[m] \in Messages
  OBVIOUS
<1> HIDE DEF n
<1>1. PICK f \in [0 .. n -> Views] : Runs(f, n, v, Shows(s, w, ms)) /\ AfterAll(s, w, v, ms) = f[n]
  BY AfterAllRuns DEF n
<1> DEFINE H == {m \in 0 .. n : ViewFits(s, w, f[m])}
<1>2. 0 \in H
  BY <1>0, <1>1 DEF Runs
<1>3. ASSUME NEW m \in 0 .. n, m \in H, m < n PROVE m + 1 \in H
  <2>1. m \in 0 .. n - 1 /\ m + 1 \in 0 .. n /\ m + 1 \in 1 .. n /\ f[m] \in Views
        /\ ViewFits(s, w, f[m])
    BY <1>0, <1>3
  <2>2. f[m + 1] = Shows(s, w, ms)[m + 1][f[m]]
    BY <1>1, <2>1 DEF Runs
  <2>3. Shows(s, w, ms)[m + 1][f[m]] = MessageShown(s, w, f[m], ms[m + 1])
    BY <2>1 DEF Shows, n
  <2> QED BY <1>0, <2>1, <2>2, <2>3, MessageFits
<1>4. \A m \in 0 .. n : m \in H
  <2> HIDE DEF H
  <2> QED BY <1>0, <1>2, <1>3, Induction
<1> QED BY <1>0, <1>1, <1>4

-----------------------------------------------------------------------------
(* The invariant                                                              *)
Requests == [kind : {"subscribe", "unsubscribe"}, topic : Topics, n : Nat]
              \union [kind : {"subscribe.stats", "unsubscribe.stats"}, topic : {Stats}, n : Nat]
Sets == [known : BOOLEAN, live : BOOLEAN, handles : [Peers -> Int]]
Contexts == [state : {"none", "open", "closed"}, subs : SUBSET Keys]
Tasks == {k \in [p : Peers, topic : Keys, n : Nat, pc : {"subscribe", "read", "send"}, got : Nat] :
            k.topic \in Topics => k.got <= Len(Script[k.topic])}

TypeOK ==
  /\ service \in {"flows", "triggers"} /\ backend \in {"memory", "redis"} /\ updates \in Nat
  /\ alone \in BOOLEAN /\ log \in [Keys -> Nat] /\ pub \in [Keys -> SUBSET Nat]
  /\ \A t \in Topics : log[t] <= Len(Script[t])
  /\ gateway \in [Keys -> Sets] /\ context \in [Peers -> Contexts] /\ tasks \subseteq Tasks
  /\ up \in [Peers -> Seq(Requests)] /\ down \in [Peers -> Seq(Messages)]
  /\ sock \in {None, "connecting", "open", "closed"} /\ cur \in 0 .. MaxFaults + 1
  /\ sock \in {"connecting", "open"} => cur \in Peers
  /\ auto \in BOOLEAN /\ timer \in BOOLEAN /\ retry \in 0 .. MaxRetries
  /\ watching \in Topics \union {None} /\ view \in Views
  /\ stats \in [want : BOOLEAN, pending : BOOLEAN, on : BOOLEAN, shown : Nat]
  /\ raced \in BOOLEAN /\ requests \in Nat /\ faults \in Nat

\* What is published was appended; a server that is alone publishes what it has appended
\* before it appends more.
LogInv ==
  \A t \in Keys : /\ \A i \in pub[t] : i \in 1 .. log[t]
                  /\ alone => \A i \in 1 .. log[t] : i < log[t] => i \in pub[t]

\* What was read of a log is in it.
ReadInv == \A k \in tasks : k.got <= log[k.topic]

\* Contexts come and go with their peers.
PeerInv ==
  /\ \A p \in Peers : p > cur => context[p].state = "none"
  /\ \A p \in Peers : context[p].state = "none" => context[p].subs = {}
  /\ \A k \in tasks : context[k.p].state # "none"
  /\ sock = "connecting" => context[cur].state = "none"
  /\ sock = "open" => context[cur].state = "open"

\* Peer p waits for the confirmation of its SUBSCRIBE of t.
Asked(p, t) == \E k \in tasks : k.p = p /\ k.topic = t /\ k.pc = "subscribe"

(* The handles of a topic say who is subscribed to it, and a set without the  *)
(* confirmation of Redis has exactly one handler waiting for it.              *)
TopicOK(t) ==
  /\ \A p \in Peers : Handles(t)[p] \in {0, 1}
  /\ \A p \in Peers : Handles(t)[p] = 1 => gateway[t].live
  /\ gateway[t].live => gateway[t].known
  /\ Unconfirmed(t) <=> \E p \in Peers : Asked(p, t)
  /\ \A k1, k2 \in tasks :
       k1.topic = t /\ k1.pc = "subscribe" /\ k2.topic = t /\ k2.pc = "subscribe" => k1 = k2
  /\ \A p \in Peers : t \in context[p].subs => Handles(t)[p] = 1 \/ Asked(p, t)
  /\ \A p \in Peers : t \notin context[p].subs /\ context[p].state # "closed" => Handles(t)[p] = 0

GateInv == ~raced => \A t \in Keys : TopicOK(t)

MemoryInv == backend = "memory" => tasks = {}

ViewInv == watching \in Topics => ViewFits(service, watching, view)

\* A subscribe message for t is among ms.
AsksFor(ms, t) == \E i \in 1 .. Len(ms) : ms[i].kind = "subscribe" /\ ms[i].topic = t
\* The last word in ms on what the page watches, if there is one, is to subscribe to t.
EndsFor(ms, t) ==
  \A i \in 1 .. Len(ms) : ms[i].kind \in {"subscribe", "unsubscribe"}
    => \E j \in i .. Len(ms) : ms[j].kind = "subscribe" /\ ms[j].topic = t

\* What the page will show when it has received all that is on its way.
Coming == AfterAll(service, watching, view, down[cur])
Mine(k) == k.p = cur /\ k.topic = watching
Within(t) == log[t] <= HistoryLimit

Linked == watching \in context[cur].subs \/ Asked(cur, watching)

(* An event published is in the view, or a handler has yet to read or to send *)
(* a history that has it.                                                     *)
Sees ==
  (Within(watching) /\ (service = "flows" \/ backend = "memory")) =>
    \A i \in pub[watching] : Published(watching, i) =>
      i \in Coming.seen \/ \E k \in tasks : Mine(k) /\ (k.pc = "send" => i <= k.got)

(* With no handler at work, the state is that of the events taken in order, if *)
(* one server publishes them.                                                 *)
InSync ==
  (/\ Within(watching) /\ service = "flows" /\ alone
   /\ \A i \in 1 .. log[watching] : Published(watching, i)
   /\ \A k \in tasks : ~Mine(k)
   /\ ~Coming.foreign /\ ~Coming.late) =>
    \E m \in 0 .. log[watching] :
      /\ \A i \in pub[watching] : i <= m
      /\ Coming.seen = 1 .. m /\ Coming.state = ReduceFirst(Unseen, watching, m)

Following == sock = "open" /\ watching \in Topics /\ ~raced

PageInv ==
  Following => /\ EndsFor(up[cur], watching)
               /\ ~AsksFor(up[cur], watching) => Linked /\ Sees /\ InSync

IInv == TypeOK /\ LogInv /\ ReadInv /\ PeerInv /\ GateInv /\ MemoryInv /\ ViewInv /\ PageInv

-----------------------------------------------------------------------------
(* Types                                                                      *)

\* An event or a version of the statistics is published; delivered, unless nothing publishes it.
PublishStep(t, i) ==
  /\ Publish(t, i)
  /\ \/ t \in Topics /\ Deliver(t, "event", i)
     \/ service = "flows" /\ t \in Topics /\ ~Published(t, i) /\ UNCHANGED down
     \/ t = Stats /\ Deliver(t, "update", i)

\* The next-state relation by what a step does, whichever service it is of.
LEMMA StepKinds ==
  ASSUME Next
  PROVE  \/ \E t \in Topics : Subscribe(t)
         \/ Unsubscribe \/ SubscribeStats \/ UnsubscribeStats \/ OnOpen \/ Reconnect \/ Receive
         \/ \E p \in Peers : Handle(p) \/ ClosePeer(p)
         \/ \E k \in tasks : Subscribed(k) \/ ReadHistory(k) \/ SendHistory(k)
         \/ \E t \in Keys : AppendEvent(t) \/ \E i \in 1 .. log[t] : PublishStep(t, i)
         \/ Drop \/ Restart
BY DEF Next, PageStep, ServerStep, SubscribeRun, SubscribeTrigger, UnsubscribeRun,
       UnsubscribeTrigger, SubscribeFlowStats, SubscribeTriggerStats, UnsubscribeFlowStats,
       UnsubscribeTriggerStats, OnOpenFlows, OnOpenTriggers, ReconnectFlows, ReconnectTriggers,
       ReceiveFlows, ReceiveTriggers, ClosePeerFlows, ClosePeerTriggers, PublishFlowEvent,
       PublishTriggerEvent, PublishFlowStats, PublishTriggerStats, PublishStep

LEMMA RequestTyped ==
  ASSUME NEW t \in Topics, NEW n \in Nat
  PROVE  /\ ToServer("subscribe", t, n) \in Requests /\ ToServer("unsubscribe", t, n) \in Requests
         /\ ToServer("subscribe.stats", Stats, n) \in Requests
         /\ ToServer("unsubscribe.stats", Stats, n) \in Requests
BY DEF ToServer, Requests

LEMMA StatsRequestTyped ==
  ASSUME NEW n \in Nat
  PROVE  /\ ToServer("subscribe.stats", Stats, n) \in Requests
         /\ ToServer("unsubscribe.stats", Stats, n) \in Requests
BY DEF ToServer, Requests

LEMMA SendTyped ==
  ASSUME TypeOK, NEW ms \in Seq(Requests)
  PROVE  Send(ms) \in [Peers -> Seq(Requests)]
BY DEF TypeOK, Send

LEMMA ToPageTyped ==
  ASSUME TypeOK, NEW p \in Peers, NEW ms \in Seq(Messages)
  PROVE  ToPage(p, ms) \in [Peers -> Seq(Messages)]
BY DEF TypeOK, ToPage, Reachable

LEMMA ConnectTyped ==
  ASSUME TypeOK, NEW b \in BOOLEAN, Connect(b)
  PROVE  /\ sock' \in {None, "connecting", "open", "closed"} /\ cur' \in 0 .. MaxFaults + 1
         /\ sock' \in {"connecting", "open"} => cur' \in Peers
         /\ auto' \in BOOLEAN /\ timer' \in BOOLEAN /\ retry' \in 0 .. MaxRetries
BY LiveViewAssumption DEF TypeOK, Connect, link, Peers

LEMMA CloseTyped ==
  ASSUME TypeOK, CloseSocket
  PROVE  /\ sock' = "closed" /\ cur' = cur
         /\ auto' \in BOOLEAN /\ timer' \in BOOLEAN /\ retry' \in 0 .. MaxRetries
<1>1. OnClose
  BY DEF CloseSocket, OnCloseFlows, OnCloseTriggers
<1>2. timer' \in BOOLEAN
  BY <1>1, Zenon DEF OnClose, TypeOK
<1>3. timer' => retry < MaxRetries
  BY <1>1 DEF OnClose
<1>4. retry' \in 0 .. MaxRetries
  BY <1>1, <1>3, LiveViewAssumption DEF OnClose, TypeOK
<1> QED BY <1>1, <1>2, <1>4 DEF OnClose, TypeOK

LEMMA SubscribeTypeOK ==
  ASSUME TypeOK, NEW t \in Topics, Subscribe(t)
  PROVE  TypeOK'
<1>1. /\ sock' \in {None, "connecting", "open", "closed"} /\ cur' \in 0 .. MaxFaults + 1
      /\ sock' \in {"connecting", "open"} => cur' \in Peers
      /\ auto' \in BOOLEAN /\ timer' \in BOOLEAN /\ retry' \in 0 .. MaxRetries
  BY ConnectTyped DEF Subscribe
<1>2. up' \in [Peers -> Seq(Requests)]
  <2> DEFINE ms == (IF watching = None THEN <<>> ELSE <<ToServer("unsubscribe", watching, 0)>>)
                     \o <<ToServer("subscribe", t, requests + 1)>>
  <2>1. ms \in Seq(Requests)
    BY RequestTyped DEF TypeOK
  <2>2. up' = Send(ms)
    BY DEF Subscribe
  <2> QED BY <2>1, <2>2, SendTyped
<1>3. view' \in Views /\ watching' \in Topics \union {None} /\ requests' \in Nat
  BY UnseenTyped DEF Subscribe, TypeOK
<1> QED BY <1>1, <1>2, <1>3 DEF Subscribe, TypeOK, chosen, server

LEMMA UnsubscribeTypeOK ==
  ASSUME TypeOK, Unsubscribe
  PROVE  TypeOK'
<1>1. up' \in [Peers -> Seq(Requests)]
  <2>1. <<ToServer("unsubscribe", watching, 0)>> \in Seq(Requests)
    BY RequestTyped DEF Unsubscribe, TypeOK
  <2> QED BY <2>1, SendTyped DEF Unsubscribe
<1> QED BY <1>1 DEF Unsubscribe, TypeOK, chosen, server, link, bounds

LEMMA SubscribeStatsTypeOK ==
  ASSUME TypeOK, SubscribeStats
  PROVE  TypeOK'
<1>1. /\ sock' \in {None, "connecting", "open", "closed"} /\ cur' \in 0 .. MaxFaults + 1
      /\ sock' \in {"connecting", "open"} => cur' \in Peers
      /\ auto' \in BOOLEAN /\ timer' \in BOOLEAN /\ retry' \in 0 .. MaxRetries
  BY ConnectTyped DEF SubscribeStats
<1>2. up' \in [Peers -> Seq(Requests)]
  <2>1. <<ToServer("subscribe.stats", Stats, requests + 1)>> \in Seq(Requests)
    BY StatsRequestTyped DEF TypeOK
  <2> QED BY <2>1, SendTyped DEF SubscribeStats, TypeOK
<1>3. stats' \in [want : BOOLEAN, pending : BOOLEAN, on : BOOLEAN, shown : Nat] /\ requests' \in Nat
  <2> DEFINE b == (stats.pending \/ sock # "open")
  <2>1. b \in BOOLEAN
    BY Zenon
  <2>2. stats' = [stats EXCEPT !.want = TRUE, !.pending = b]
    BY DEF SubscribeStats
  <2> HIDE DEF b
  <2>3. stats \in [want : BOOLEAN, pending : BOOLEAN, on : BOOLEAN, shown : Nat] /\ requests \in Nat
    BY DEF TypeOK
  <2>4. stats' \in [want : BOOLEAN, pending : BOOLEAN, on : BOOLEAN, shown : Nat]
    BY <2>1, <2>2, <2>3
  <2> QED BY <2>3, <2>4 DEF SubscribeStats
<1> QED BY <1>1, <1>2, <1>3 DEF SubscribeStats, TypeOK, chosen, server

LEMMA UnsubscribeStatsTypeOK ==
  ASSUME TypeOK, UnsubscribeStats
  PROVE  TypeOK'
<1>1. up' \in [Peers -> Seq(Requests)]
  <2>1. <<ToServer("unsubscribe.stats", Stats, 0)>> \in Seq(Requests)
    BY StatsRequestTyped
  <2> QED BY <2>1, SendTyped DEF UnsubscribeStats
<1>2. stats' \in [want : BOOLEAN, pending : BOOLEAN, on : BOOLEAN, shown : Nat]
  BY DEF UnsubscribeStats, TypeOK
<1> QED BY <1>1, <1>2 DEF UnsubscribeStats, TypeOK, chosen, server, link, bounds

LEMMA OnOpenTypeOK ==
  ASSUME TypeOK, OnOpen
  PROVE  TypeOK'
<1>0. cur \in Peers /\ watching \in Topics \union {None} /\ requests \in Nat
  BY DEF OnOpen, TypeOK
<1>1. up' \in [Peers -> Seq(Requests)]
  <2> DEFINE ms == (IF watching = None THEN <<>> ELSE <<ToServer("subscribe", watching, requests)>>) \o
                   (IF stats.want \/ stats.pending
                    THEN <<ToServer("subscribe.stats", Stats, requests)>> ELSE <<>>)
  <2>1. ms \in Seq(Requests)
    BY <1>0, RequestTyped, StatsRequestTyped
  <2>2. up' = [up EXCEPT ![cur] = ms]
    BY DEF OnOpen
  <2> HIDE DEF ms
  <2> QED BY <1>0, <2>1, <2>2 DEF TypeOK
<1>2. stats' \in [want : BOOLEAN, pending : BOOLEAN, on : BOOLEAN, shown : Nat]
  BY DEF OnOpen, TypeOK
<1>3. context' \in [Peers -> Contexts]
  BY <1>0 DEF OnOpen, TypeOK, Contexts
<1>4. retry' \in 0 .. MaxRetries
  BY LiveViewAssumption DEF OnOpen
<1> QED BY <1>0, <1>1, <1>2, <1>3, <1>4 DEF OnOpen, TypeOK, chosen, bounds

LEMMA ReconnectTypeOK ==
  ASSUME TypeOK, Reconnect
  PROVE  TypeOK'
<1>1. /\ sock' \in {None, "connecting", "open", "closed"} /\ cur' \in 0 .. MaxFaults + 1
      /\ sock' \in {"connecting", "open"} => cur' \in Peers
  BY LiveViewAssumption DEF Reconnect, TypeOK, Peers
<1> QED BY <1>1 DEF Reconnect, TypeOK, chosen, server, page, bounds

\* The page shows the message that came first.
LEMMA ReceiveShows ==
  ASSUME TypeOK, Receive
  PROVE  /\ sock = "open" /\ cur \in Peers /\ down[cur] # <<>> /\ Head(down[cur]) \in Messages
         /\ view' = MessageShown(service, watching, view, Head(down[cur]))
         /\ down' = [down EXCEPT ![cur] = Tail(@)]
<1>1. sock = "open" /\ cur \in Peers /\ down[cur] # <<>> /\ Head(down[cur]) \in Messages
  BY DEF Receive, TypeOK
<1> DEFINE m == Head(down[cur])
<1>2. view' = CASE m.kind = "event" /\ watching # None -> ShowEvent(view, m.topic, m.n)
                [] m.kind = "history" /\ watching # None -> ShowHistory(view, m.topic, m.n)
                [] OTHER -> view
  BY DEF Receive
<1>3. /\ ShowEvent(view, m.topic, m.n) = EventShown(service, watching, view, m.topic, m.n)
      /\ ShowHistory(view, m.topic, m.n) = HistoryShown(service, watching, view, m.topic, m.n)
  BY Zenon DEF ShowEvent, ShowHistory, EventShown, HistoryShown
<1> HIDE DEF m
<1>4. view' = MessageShown(service, watching, view, m)
  BY <1>2, <1>3 DEF MessageShown
<1> QED BY <1>1, <1>4 DEF Receive, m

LEMMA ReceiveTypeOK ==
  ASSUME TypeOK, Receive
  PROVE  TypeOK'
<1>1. view' \in Views
  BY ReceiveShows, MessageTyped DEF TypeOK
<1>2. down' \in [Peers -> Seq(Messages)]
  <2>1. down[cur] \in Seq(Messages) /\ down[cur] # <<>> /\ cur \in Peers
    BY ReceiveShows DEF TypeOK
  <2>2. Tail(down[cur]) \in Seq(Messages)
    BY <2>1
  <2> QED BY <2>2, ReceiveShows DEF TypeOK
<1>3. stats' \in [want : BOOLEAN, pending : BOOLEAN, on : BOOLEAN, shown : Nat]
  <2>1. Head(down[cur]).n \in Nat
    BY ReceiveShows DEF Messages, PageMessages, StatsMessages
  <2>2. \/ stats' = [stats EXCEPT !.shown = Head(down[cur]).n]
        \/ stats' = [stats EXCEPT !.on = TRUE]
        \/ stats' = [stats EXCEPT !.on = FALSE]
        \/ stats' = stats
    BY DEF Receive
  <2> QED BY <2>1, <2>2 DEF TypeOK
<1> QED BY <1>1, <1>2, <1>3 DEF Receive, TypeOK, chosen, server, link, bounds

\* A gateway without or with a handle more, or with a set, is a gateway.
LEMMA GatewayTyped ==
  ASSUME NEW gw \in [Keys -> Sets], NEW t \in Keys, NEW p \in Peers
  PROVE  /\ WithoutHandle(gw, t, p) \in [Keys -> Sets] /\ WithHandle(gw, t, p) \in [Keys -> Sets]
         /\ WithSet(gw, t) \in [Keys -> Sets] /\ MemorySubscribe(gw, t, p) \in [Keys -> Sets]
         /\ [gw EXCEPT ![t].live = TRUE] \in [Keys -> Sets]
<1>1. WithHandle(gw, t, p) \in [Keys -> Sets]
  BY DEF WithHandle, Sets
<1>2. WithoutHandle(gw, t, p) \in [Keys -> Sets]
  <2> DEFINE left == [gw[t].handles EXCEPT ![p] = @ - 1]
  <2>1. left \in [Peers -> Int] /\ gw[t] \in Sets
    BY DEF Sets
  <2>2. WithoutHandle(gw, t, p) =
          [gw EXCEPT ![t] = IF left = NoHandler
                            THEN [@ EXCEPT !.known = FALSE, !.live = FALSE, !.handles = left]
                            ELSE [@ EXCEPT !.handles = left]]
    BY DEF WithoutHandle
  <2> HIDE DEF left
  <2>3. [gw[t] EXCEPT !.known = FALSE, !.live = FALSE, !.handles = left] \in Sets
        /\ [gw[t] EXCEPT !.handles = left] \in Sets
    BY <2>1 DEF Sets
  <2> QED BY <2>2, <2>3
<1>3. WithSet(gw, t) \in [Keys -> Sets] /\ [gw EXCEPT ![t].live = TRUE] \in [Keys -> Sets]
  BY DEF WithSet, Sets
<1>4. MemorySubscribe(gw, t, p) \in [Keys -> Sets]
  <2> DEFINE now == [gw EXCEPT ![t] = [@ EXCEPT !.known = TRUE, !.live = TRUE]]
  <2>1. now \in [Keys -> Sets]
    BY DEF Sets
  <2> HIDE DEF now
  <2>2. WithHandle(now, t, p) \in [Keys -> Sets]
    BY <2>1 DEF WithHandle, Sets
  <2> QED BY <2>2 DEF MemorySubscribe, now
<1> QED BY <1>1, <1>2, <1>3, <1>4

LEMMA InHistoryTyped ==
  ASSUME TypeOK, NEW t \in Keys
  PROVE  /\ InHistory(t) \in Nat /\ InHistory(t) <= log[t]
         /\ t \in Topics => InHistory(t) <= Len(Script[t])
BY LiveViewAssumption, ScriptLength DEF TypeOK, InHistory, Least, Keys

LEMMA SnapshotTyped ==
  ASSUME NEW t \in Keys, NEW n \in Nat, t \in Topics => n <= Len(Script[t])
  PROVE  Snapshot(t, n) \in Seq(Messages)
<1>1. CASE t = Stats
  <2>1. [kind |-> "initial", topic |-> t, n |-> n] \in StatsMessages
        /\ [kind |-> "stats.subscribed", topic |-> t, n |-> 0] \in StatsMessages
    BY <1>1 DEF StatsMessages
  <2> QED BY <1>1, <2>1 DEF Snapshot, Messages
<1>2. CASE t # Stats
  <2>1. [kind |-> "history", topic |-> t, n |-> n] \in Messages
    BY <1>2 DEF Messages, PageMessages, Keys
  <2> QED BY <1>2, <2>1 DEF Snapshot
<1> QED BY <1>1, <1>2

\* What the handler of a message does, whichever service it is of.
LEMMA HandleKinds ==
  ASSUME TypeOK, NEW p \in Peers, Handle(p)
  PROVE  /\ up[p] # <<>> /\ context[p].state = "open" /\ Head(up[p]) \in Requests
         /\ up' = [up EXCEPT ![p] = Tail(@)]
         /\ UNCHANGED <<chosen, log, pub, link, page, bounds>>
         /\ LET m == Head(up[p]) IN
            \/ m.kind \in {"subscribe", "subscribe.stats"} /\ HandleSubscribe(p, m)
            \/ m.kind = "subscribe.stats" /\ UNCHANGED <<server, down>>
            \/ m.kind \in {"unsubscribe", "unsubscribe.stats"} /\ HandleUnsubscribe(p, m)
<1>1. Head(up[p]) \in Requests
  BY DEF Handle, TypeOK
<1> QED
  BY <1>1 DEF Handle, HandleSubscribeRun, HandleSubscribeTrigger, HandleSubscribeFlowStats,
     HandleSubscribeTriggerStats, HandleSubscribeStats, HandleUnsubscribeRun,
     HandleUnsubscribeTrigger, HandleUnsubscribeFlowStats, HandleUnsubscribeTriggerStats

LEMMA RequestKinds ==
  ASSUME NEW m \in Requests
  PROVE  /\ m.topic \in Keys /\ m.n \in Nat
         /\ m.kind \in {"subscribe", "unsubscribe"} => m.topic \in Topics
         /\ m.kind \in {"subscribe.stats", "unsubscribe.stats"} => m.topic = Stats
BY DEF Requests, Keys

\* The set of a topic without the handle that a peer holds.
Released(t, p) == IF t \in context[p].subs THEN WithoutHandle(gateway, t, p) ELSE gateway
Waiting(p, t, n, pc) == [p |-> p, topic |-> t, n |-> n, pc |-> pc, got |-> 0]

\* The three ways of a subscribe handler.
LEMMA SubscribeWays ==
  ASSUME TypeOK, NEW p \in Peers, NEW m \in Requests, HandleSubscribe(p, m)
  PROVE  \/ /\ backend = "memory"
            /\ gateway' = MemorySubscribe(Released(m.topic, p), m.topic, p)
            /\ context' = [context EXCEPT ![p].subs = @ \union {m.topic}]
            /\ down' = ToPage(p, Snapshot(m.topic, InHistory(m.topic)))
            /\ UNCHANGED <<tasks, raced>>
         \/ /\ backend = "redis" /\ Released(m.topic, p)[m.topic].known
            /\ gateway' = WithHandle(Released(m.topic, p), m.topic, p)
            /\ context' = [context EXCEPT ![p].subs = @ \union {m.topic}]
            /\ tasks' = tasks \union {Waiting(p, m.topic, m.n, "read")}
            /\ raced' = (raced \/ Unconfirmed(m.topic))
            /\ UNCHANGED down
         \/ /\ backend = "redis" /\ ~Released(m.topic, p)[m.topic].known
            /\ gateway' = WithSet(Released(m.topic, p), m.topic)
            /\ tasks' = tasks \union {Waiting(p, m.topic, m.n, "subscribe")}
            /\ raced' = (raced \/ Unconfirmed(m.topic))
            /\ UNCHANGED <<context, down>>
<1>1. backend \in {"memory", "redis"} /\ ("memory" # "redis")
  BY DEF TypeOK
<1> QED BY <1>1 DEF HandleSubscribe, Released, Waiting

LEMMA WaitingTyped ==
  ASSUME NEW p \in Peers, NEW t \in Keys, NEW n \in Nat, NEW pc \in {"subscribe", "read"}
  PROVE  Waiting(p, t, n, pc) \in Tasks
BY ScriptLength DEF Waiting, Tasks

LEMMA HandleTypeOK ==
  ASSUME TypeOK, NEW p \in Peers, Handle(p)
  PROVE  TypeOK'
<1> DEFINE m == Head(up[p])
<1>0. m \in Requests /\ m.topic \in Keys /\ m.n \in Nat
  BY HandleKinds, RequestKinds
<1> HIDE DEF m
<1>1. up' \in [Peers -> Seq(Requests)]
  <2>1. Tail(up[p]) \in Seq(Requests)
    BY HandleKinds DEF TypeOK
  <2> QED BY <2>1, HandleKinds DEF TypeOK
<1>2. /\ gateway' \in [Keys -> Sets] /\ context' \in [Peers -> Contexts] /\ tasks' \subseteq Tasks
      /\ down' \in [Peers -> Seq(Messages)] /\ raced' \in BOOLEAN
  <2>1. CASE HandleSubscribe(p, m)
    <3> DEFINE gw == Released(m.topic, p)
    <3>1. gw \in [Keys -> Sets]
      BY <1>0, GatewayTyped DEF Released, TypeOK
    <3>2. /\ MemorySubscribe(gw, m.topic, p) \in [Keys -> Sets]
          /\ WithHandle(gw, m.topic, p) \in [Keys -> Sets] /\ WithSet(gw, m.topic) \in [Keys -> Sets]
      <4> HIDE DEF gw
      <4> QED BY <1>0, <3>1, GatewayTyped
    <3>3. [context EXCEPT ![p].subs = @ \union {m.topic}] \in [Peers -> Contexts]
      BY <1>0 DEF TypeOK, Contexts
    <3>4. Waiting(p, m.topic, m.n, "read") \in Tasks /\ Waiting(p, m.topic, m.n, "subscribe") \in Tasks
      BY <1>0, WaitingTyped
    <3>5. ToPage(p, Snapshot(m.topic, InHistory(m.topic))) \in [Peers -> Seq(Messages)]
      <4>1. Snapshot(m.topic, InHistory(m.topic)) \in Seq(Messages)
        BY <1>0, InHistoryTyped, SnapshotTyped
      <4> QED BY <4>1, ToPageTyped
    <3>6. /\ gateway \in [Keys -> Sets] /\ context \in [Peers -> Contexts] /\ tasks \subseteq Tasks
          /\ down \in [Peers -> Seq(Messages)]
      BY DEF TypeOK
    <3>7. /\ gateway' \in [Keys -> Sets] /\ context' \in [Peers -> Contexts] /\ tasks' \subseteq Tasks
          /\ down' \in [Peers -> Seq(Messages)]
      BY <1>0, <2>1, <3>2, <3>3, <3>4, <3>5, <3>6, SubscribeWays
    <3>8. raced \in BOOLEAN /\ (raced \/ Unconfirmed(m.topic)) \in BOOLEAN
      BY Zenon DEF TypeOK
    <3>9. raced' \in BOOLEAN
      BY <1>0, <2>1, <3>8, SubscribeWays
    <3> QED BY <3>7, <3>9
  <2>2. CASE UNCHANGED <<server, down>>
    BY <2>2 DEF TypeOK, server
  <2>3. CASE HandleUnsubscribe(p, m)
    <3>1. CASE m.topic \notin context[p].subs
      BY <2>3, <3>1 DEF HandleUnsubscribe, TypeOK
    <3>2. CASE m.topic \in context[p].subs
      <4>0. /\ gateway \in [Keys -> Sets] /\ context \in [Peers -> Contexts] /\ tasks \subseteq Tasks
            /\ down \in [Peers -> Seq(Messages)] /\ raced \in BOOLEAN
        BY DEF TypeOK
      <4>1. gateway' \in [Keys -> Sets]
        <5>1. WithoutHandle(gateway, m.topic, p) \in [Keys -> Sets]
          BY <1>0, <4>0, GatewayTyped
        <5> QED BY <2>3, <3>2, <5>1 DEF HandleUnsubscribe
      <4>2. context' \in [Peers -> Contexts] /\ tasks' \subseteq Tasks
        <5>1. context' = [context EXCEPT ![p].subs = @ \ {m.topic}] /\ tasks' = tasks
          BY <2>3, <3>2 DEF HandleUnsubscribe
        <5> QED BY <4>0, <5>1 DEF Contexts
      <4>3. <<[kind |-> "stats.unsubscribed", topic |-> Stats, n |-> 0]>> \in Seq(Messages)
        <5>1. [kind |-> "stats.unsubscribed", topic |-> Stats, n |-> 0] \in StatsMessages
          BY DEF StatsMessages
        <5> QED BY <5>1 DEF Messages
      <4>4. down' \in [Peers -> Seq(Messages)]
        BY <2>3, <3>2, <4>0, <4>3, ToPageTyped DEF HandleUnsubscribe
      <4>5. (raced \/ Unconfirmed(m.topic)) \in BOOLEAN
        BY Zenon DEF TypeOK
      <4>6. raced' \in BOOLEAN
        BY <2>3, <3>2, <4>5 DEF HandleUnsubscribe
      <4> QED BY <4>1, <4>2, <4>4, <4>6
    <3> QED BY <3>1, <3>2
  <2> QED BY <2>1, <2>2, <2>3, HandleKinds DEF m
<1>3. UNCHANGED <<chosen, log, pub, link, page, bounds>>
  BY HandleKinds
<1> QED BY <1>1, <1>2, <1>3 DEF TypeOK, chosen, link, page, bounds

LEMMA ClosePeerTypeOK ==
  ASSUME TypeOK, NEW p \in Peers, ClosePeer(p)
  PROVE  TypeOK'
<1>1. gateway' \in [Keys -> Sets]
  <2>1. ASSUME NEW t \in Keys PROVE WithoutHandle(gateway, t, p)[t] \in Sets /\ gateway[t] \in Sets
    <3>1. WithoutHandle(gateway, t, p) \in [Keys -> Sets]
      BY GatewayTyped DEF TypeOK
    <3> QED BY <3>1 DEF TypeOK
  <2> QED BY <2>1 DEF ClosePeer
<1>2. context' \in [Peers -> Contexts]
  BY DEF ClosePeer, TypeOK, Contexts
<1>3. raced' \in BOOLEAN
  <2>1. (raced \/ \E t \in context[p].subs : Unconfirmed(t)) \in BOOLEAN
    BY Zenon DEF TypeOK
  <2> QED BY <2>1 DEF ClosePeer
<1> QED BY <1>1, <1>2, <1>3 DEF ClosePeer, TypeOK, chosen, link, page, bounds

LEMMA TaskTypeOK ==
  ASSUME TypeOK, NEW k \in tasks, Subscribed(k) \/ ReadHistory(k) \/ SendHistory(k)
  PROVE  TypeOK'
<1>0. k \in Tasks /\ k.p \in Peers /\ k.topic \in Keys /\ k.got \in Nat
      /\ (k.topic \in Topics => k.got <= Len(Script[k.topic]))
  BY DEF TypeOK, Tasks
<1>1. CASE Subscribed(k)
  <2>1. gateway' \in [Keys -> Sets]
    <3>1. [gateway EXCEPT ![k.topic].live = TRUE] \in [Keys -> Sets]
      BY <1>0, GatewayTyped DEF TypeOK
    <3> QED BY <1>0, <1>1, <3>1, GatewayTyped DEF Subscribed
  <2>2. context' \in [Peers -> Contexts]
    <3>1. context \in [Peers -> Contexts] /\ {k.topic} \subseteq Keys
      BY <1>0 DEF TypeOK
    <3>2. [context EXCEPT ![k.p].subs = @ \union {k.topic}] \in [Peers -> Contexts]
      BY <1>0, <3>1 DEF Contexts
    <3> QED BY <1>1, <3>1, <3>2 DEF Subscribed
  <2>3. tasks' \subseteq Tasks
    <3>1. [k EXCEPT !.pc = "read"] \in Tasks
      BY <1>0 DEF Tasks
    <3> QED BY <1>1, <3>1 DEF Subscribed, TypeOK
  <2>4. UNCHANGED <<chosen, log, pub, up, down, link, page, bounds, raced>>
    BY <1>1 DEF Subscribed
  <2> QED BY <2>1, <2>2, <2>3, <2>4 DEF TypeOK, chosen, link, page, bounds
<1>2. CASE ReadHistory(k)
  <2>1. tasks' \subseteq Tasks
    <3> DEFINE n == InHistory(k.topic)
    <3>1. n \in Nat /\ (k.topic \in Topics => n <= Len(Script[k.topic]))
      BY <1>0, InHistoryTyped
    <3>2. tasks' = (tasks \ {k}) \union {[k EXCEPT !.pc = "send", !.got = n]}
      BY <1>2 DEF ReadHistory
    <3> HIDE DEF n
    <3>3. [k EXCEPT !.pc = "send", !.got = n] \in Tasks
      BY <1>0, <3>1 DEF Tasks
    <3> QED BY <3>2, <3>3 DEF TypeOK
  <2> QED BY <1>2, <2>1 DEF ReadHistory, TypeOK, chosen, link, page, bounds
<1>3. CASE SendHistory(k)
  <2>1. down' \in [Peers -> Seq(Messages)]
    BY <1>0, <1>3, SnapshotTyped, ToPageTyped DEF SendHistory
  <2> QED BY <1>3, <2>1 DEF SendHistory, TypeOK, chosen, link, page, bounds
<1> QED BY <1>1, <1>2, <1>3

LEMMA AppendTypeOK ==
  ASSUME TypeOK, NEW t \in Keys, AppendEvent(t)
  PROVE  TypeOK'
<1>1. log' = [log EXCEPT ![t] = @ + 1] /\ log \in [Keys -> Nat]
      /\ log[t] < IF t = Stats THEN updates ELSE Len(Script[t])
  BY DEF AppendEvent, TypeOK
<1>2. log' \in [Keys -> Nat]
  BY <1>1
<1>3. \A r \in Topics : log'[r] <= Len(Script[r])
  <2> SUFFICES ASSUME NEW r \in Topics PROVE log'[r] <= Len(Script[r])
    OBVIOUS
  <2>1. r # Stats /\ r \in Keys /\ Len(Script[r]) \in Nat /\ log[r] <= Len(Script[r])
    BY LiveViewAssumption, ScriptLength DEF Keys, TypeOK
  <2> QED BY <1>1, <2>1
<1>4. UNCHANGED <<chosen, pub, server, up, down, link, page, bounds>>
  BY DEF AppendEvent
<1> QED BY <1>2, <1>3, <1>4 DEF TypeOK, chosen, server, link, page, bounds

LEMMA PublishTypeOK ==
  ASSUME TypeOK, NEW t \in Keys, NEW i \in 1 .. log[t], PublishStep(t, i)
  PROVE  TypeOK'
<1>1. pub' = [pub EXCEPT ![t] = @ \union {i}] /\ pub \in [Keys -> SUBSET Nat]
      /\ i \in 1 .. log[t] /\ log \in [Keys -> Nat]
  BY DEF PublishStep, Publish, TypeOK
<1>2. pub' \in [Keys -> SUBSET Nat] /\ log[t] \in Nat /\ i <= log[t]
  BY <1>1
<1>3. down' \in [Peers -> Seq(Messages)]
  <2>1. ASSUME NEW kind, [kind |-> kind, topic |-> t, n |-> i] \in Messages, Deliver(t, kind, i)
        PROVE  down' \in [Peers -> Seq(Messages)]
    <3> DEFINE copies == IF gateway[t].live /\ cur # 0 THEN gateway[t].handles[cur] ELSE 0
               ms == [c \in 1 .. copies |-> [kind |-> kind, topic |-> t, n |-> i]]
    <3>1. CASE cur = 0
      BY <2>1, <3>1 DEF Deliver, TypeOK
    <3>2. CASE cur # 0
      <4>1. cur \in Peers
        BY <3>2, LiveViewAssumption DEF TypeOK, Peers
      <4>2. copies \in Int
        BY <4>1 DEF TypeOK, Sets
      <4>3. down' = ToPage(cur, ms)
        BY <2>1, <3>2 DEF Deliver
      <4> HIDE DEF copies
      <4>4. ms \in Seq(Messages)
        BY <2>1, <4>2
      <4> HIDE DEF ms
      <4> QED BY <4>1, <4>3, <4>4, ToPageTyped
    <3> QED BY <3>1, <3>2
  <2>2. t \in Topics => [kind |-> "event", topic |-> t, n |-> i] \in Messages
    <3> SUFFICES ASSUME t \in Topics PROVE [kind |-> "event", topic |-> t, n |-> i] \in Messages
      OBVIOUS
    <3>1. log[t] <= Len(Script[t]) /\ Len(Script[t]) \in Nat
      BY ScriptLength DEF TypeOK
    <3> QED BY <1>2, <3>1 DEF Messages, PageMessages
  <2>3. t = Stats => [kind |-> "update", topic |-> t, n |-> i] \in Messages
    BY DEF Messages, StatsMessages
  <2>4. down' = down => down' \in [Peers -> Seq(Messages)]
    BY DEF TypeOK
  <2> QED BY <2>1, <2>2, <2>3, <2>4 DEF PublishStep
<1>4. UNCHANGED <<chosen, log, server, up, link, page, bounds>>
  BY DEF PublishStep, Publish
<1> QED BY <1>2, <1>3, <1>4 DEF TypeOK, chosen, server, link, page, bounds

LEMMA DropTypeOK ==
  ASSUME TypeOK, Drop
  PROVE  TypeOK'
<1>1. up' \in [Peers -> Seq(Requests)] /\ down' \in [Peers -> Seq(Messages)] /\ faults' \in Nat
  BY DEF Drop, TypeOK
<1> QED BY <1>1, CloseTyped DEF Drop, TypeOK, chosen, server, page

LEMMA NoSetTyped == NoSet \in Sets /\ NoContext \in Contexts
BY DEF NoSet, NoHandler, NoContext, Sets, Contexts

LEMMA RestartTypeOK ==
  ASSUME TypeOK, Restart
  PROVE  TypeOK'
<1>1. up' \in [Peers -> Seq(Requests)] /\ down' \in [Peers -> Seq(Messages)] /\ faults' \in Nat
  BY DEF Restart, TypeOK
<1>2. gateway' \in [Keys -> Sets] /\ context' \in [Peers -> Contexts] /\ tasks' \subseteq Tasks
  BY NoSetTyped DEF Restart, TypeOK
<1>3. CloseSocket /\ UNCHANGED <<chosen, log, page, raced, requests>>
  BY DEF Restart
<1>4. pub' \in [Keys -> SUBSET Nat]
  <2>1. PICK lost : pub' = [t \in Keys |-> pub[t] \union {i \in 1 .. log[t] : <<t, i>> \in lost}]
    BY DEF Restart
  <2> QED BY <2>1 DEF TypeOK
<1> QED BY <1>1, <1>2, <1>3, <1>4, CloseTyped DEF TypeOK, chosen, page

LEMMA InitTypeOK == Init => TypeOK
<1> SUFFICES ASSUME Init PROVE TypeOK
  OBVIOUS
<1>1. /\ service \in {"flows", "triggers"} /\ backend \in {"memory", "redis"} /\ updates \in Nat
      /\ alone \in BOOLEAN
  BY LiveViewAssumption DEF Init
<1>2. log \in [Keys -> Nat] /\ pub \in [Keys -> SUBSET Nat] /\ \A t \in Topics : log[t] <= Len(Script[t])
  BY ScriptLength DEF Init, Keys
<1>3. gateway \in [Keys -> Sets] /\ context \in [Peers -> Contexts] /\ tasks \subseteq Tasks
  BY NoSetTyped DEF Init
<1>4. up \in [Peers -> Seq(Requests)] /\ down \in [Peers -> Seq(Messages)]
  BY DEF Init
<1>5. /\ sock \in {None, "connecting", "open", "closed"} /\ cur \in 0 .. MaxFaults + 1
      /\ sock \notin {"connecting", "open"} /\ retry \in 0 .. MaxRetries
  BY LiveViewAssumption DEF Init, None
<1>6. auto \in BOOLEAN /\ timer \in BOOLEAN /\ watching \in Topics \union {None} /\ view \in Views
  BY UnseenTyped DEF Init
<1>7. stats \in [want : BOOLEAN, pending : BOOLEAN, on : BOOLEAN, shown : Nat]
      /\ raced \in BOOLEAN /\ requests \in Nat /\ faults \in Nat
  BY DEF Init
<1> QED BY <1>1, <1>2, <1>3, <1>4, <1>5, <1>6, <1>7 DEF TypeOK

LEMMA InitLogInv == Init => LogInv
BY DEF Init, LogInv

LEMMA NextLogInv ==
  ASSUME TypeOK, LogInv, Next
  PROVE  LogInv'
<1>0. log \in [Keys -> Nat] /\ pub \in [Keys -> SUBSET Nat]
  BY DEF TypeOK
<1>1. CASE \E t \in Keys : AppendEvent(t)
  <2>1. PICK t \in Keys : AppendEvent(t)
    BY <1>1
  <2>2. /\ log' = [log EXCEPT ![t] = @ + 1] /\ pub' = pub /\ alone' = alone
        /\ alone => pub[t] = 1 .. log[t]
    BY <2>1 DEF AppendEvent, chosen
  <2> SUFFICES ASSUME NEW r \in Keys
               PROVE  /\ \A i \in pub[r] : i \in 1 .. log'[r]
                      /\ alone => \A i \in 1 .. log'[r] : i < log'[r] => i \in pub[r]
    BY <2>2 DEF LogInv
  <2>3. log[r] \in Nat /\ log'[r] = IF r = t THEN log[r] + 1 ELSE log[r]
    BY <1>0, <2>2
  <2>4. \A i \in pub[r] : i \in 1 .. log[r]
    BY DEF LogInv
  <2>5. \A i \in pub[r] : i \in 1 .. log'[r]
    BY <2>3, <2>4
  <2>6. ASSUME alone, NEW i \in 1 .. log'[r], i < log'[r] PROVE i \in pub[r]
    <3>1. CASE r = t
      BY <2>2, <2>3, <2>6, <3>1
    <3>2. CASE r # t
      BY <2>3, <2>6, <3>2 DEF LogInv
    <3> QED BY <3>1, <3>2
  <2> QED BY <2>5, <2>6
<1>2. CASE \E t \in Keys : \E i \in 1 .. log[t] : PublishStep(t, i)
  <2>1. PICK t \in Keys : \E i \in 1 .. log[t] : PublishStep(t, i)
    BY <1>2
  <2>2. PICK i \in 1 .. log[t] :
          pub' = [pub EXCEPT ![t] = @ \union {i}] /\ log' = log /\ alone' = alone
    BY <2>1 DEF PublishStep, Publish, chosen
  <2>3. \A r \in Keys : pub[r] \subseteq pub'[r] /\ \A j \in pub'[r] : j \in pub[r] \/ (r = t /\ j = i)
    BY <1>0, <2>2
  <2> QED BY <2>2, <2>3 DEF LogInv
<1>3. CASE Restart
  <2>1. PICK lost \in SUBSET Unpublished :
          /\ alone => lost = Unpublished
          /\ pub' = [t \in Keys |-> pub[t] \union {i \in 1 .. log[t] : <<t, i>> \in lost}]
    BY <1>3 DEF Restart
  <2>2. log' = log /\ alone' = alone
    BY <1>3 DEF Restart, chosen
  <2> SUFFICES ASSUME NEW r \in Keys
               PROVE  /\ \A i \in pub'[r] : i \in 1 .. log[r]
                      /\ alone => \A i \in 1 .. log[r] : i \in pub'[r]
    BY <2>2 DEF LogInv
  <2>3. pub'[r] = pub[r] \union {i \in 1 .. log[r] : <<r, i>> \in lost}
    BY <2>1
  <2>4. \A i \in 1 .. log[r] : i \notin pub[r] => <<r, i>> \in Unpublished
    BY DEF Unpublished
  <2> QED BY <2>1, <2>3, <2>4 DEF LogInv
<1>4. CASE UNCHANGED <<log, pub, alone>>
  BY <1>4 DEF LogInv
<1> QED
  BY <1>1, <1>2, <1>3, <1>4, StepKinds DEF Subscribe, Unsubscribe, SubscribeStats, UnsubscribeStats,
     OnOpen, Reconnect, Receive, Handle, ClosePeer, Subscribed, ReadHistory, SendHistory, Drop, chosen

LEMMA NextReadInv ==
  ASSUME TypeOK, ReadInv, Next
  PROVE  ReadInv'
<1>0. /\ \A k \in tasks : k.topic \in Keys /\ k.got \in Nat
      /\ log \in [Keys -> Nat]
  BY DEF TypeOK, Tasks
<1>1. CASE \E t \in Keys : AppendEvent(t)
  <2>1. PICK t \in Keys : log' = [log EXCEPT ![t] = @ + 1] /\ tasks' = tasks
    BY <1>1 DEF AppendEvent, server
  <2>2. \A r \in Keys : log[r] <= log'[r] /\ log[r] \in Nat /\ log'[r] \in Nat
    BY <1>0, <2>1
  <2> QED BY <1>0, <2>1, <2>2 DEF ReadInv
<1>2. CASE \E p \in Peers : Handle(p)
  <2>1. PICK p \in Peers : Handle(p)
    BY <1>2
  <2>2. UNCHANGED log /\ Head(up[p]) \in Requests /\ Head(up[p]).topic \in Keys
    BY <2>1, HandleKinds, RequestKinds
  <2>3. tasks' = tasks \/ \E t \in Keys : \E n, pc : tasks' = tasks \union {Waiting(p, t, n, pc)}
    <3> DEFINE m == Head(up[p])
    <3>1. HandleSubscribe(p, m) \/ UNCHANGED <<server, down>> \/ HandleUnsubscribe(p, m)
      BY <2>1, HandleKinds
    <3> HIDE DEF m
    <3>2. m \in Requests /\ m.topic \in Keys
      BY <2>2 DEF m
    <3>3. CASE HandleSubscribe(p, m)
      BY <3>2, <3>3, SubscribeWays
    <3> QED BY <3>1, <3>3 DEF HandleUnsubscribe, server
  <2>4. \A t \in Keys : 0 <= log[t]
    BY <1>0
  <2> QED BY <2>2, <2>3, <2>4 DEF ReadInv, Waiting
<1>3. CASE \E k \in tasks : Subscribed(k) \/ SendHistory(k)
  <2>1. PICK k \in tasks : Subscribed(k) \/ SendHistory(k)
    BY <1>3
  <2>2. UNCHANGED log /\ \A j \in tasks' : j \in tasks \/ j = [k EXCEPT !.pc = "read"]
    BY <2>1 DEF Subscribed, SendHistory
  <2>3. [k EXCEPT !.pc = "read"].got = k.got /\ [k EXCEPT !.pc = "read"].topic = k.topic
    BY DEF TypeOK, Tasks
  <2> QED BY <2>2, <2>3 DEF ReadInv
<1>4. CASE \E k \in tasks : ReadHistory(k)
  <2>1. PICK k \in tasks : ReadHistory(k)
    BY <1>4
  <2> DEFINE n == InHistory(k.topic)
             after == [k EXCEPT !.pc = "send", !.got = n]
  <2>2. UNCHANGED log /\ \A j \in tasks' : j \in tasks \/ j = after
    BY <2>1 DEF ReadHistory
  <2>3. after.got = n /\ after.topic = k.topic
    BY DEF TypeOK, Tasks
  <2>4. n <= log[k.topic]
    BY <1>0, InHistoryTyped
  <2> HIDE DEF after, n
  <2> QED BY <2>2, <2>3, <2>4 DEF ReadInv
<1>5. CASE UNCHANGED <<log, tasks>>
  BY <1>5 DEF ReadInv
<1>6. CASE Restart
  BY <1>6 DEF Restart, ReadInv
<1> QED
  BY <1>1, <1>2, <1>3, <1>4, <1>5, <1>6, StepKinds DEF Subscribe, Unsubscribe, SubscribeStats,
     UnsubscribeStats, OnOpen, Reconnect, Receive, ClosePeer, PublishStep, Publish, Drop, server

LEMMA NextTypeOK ==
  ASSUME TypeOK, [Next]_vars
  PROVE  TypeOK'
<1>1. CASE Next
  BY <1>1, StepKinds, SubscribeTypeOK, UnsubscribeTypeOK, SubscribeStatsTypeOK,
     UnsubscribeStatsTypeOK, OnOpenTypeOK, ReconnectTypeOK, ReceiveTypeOK, HandleTypeOK,
     ClosePeerTypeOK, TaskTypeOK, AppendTypeOK, PublishTypeOK, DropTypeOK, RestartTypeOK
<1>2. CASE UNCHANGED vars
  BY <1>2 DEF vars, TypeOK
<1> QED BY <1>1, <1>2

-----------------------------------------------------------------------------
(* Peers                                                                      *)
LEMMA InitPeerInv == Init => PeerInv /\ MemoryInv
BY DEF Init, PeerInv, NoContext, MemoryInv, None

\* Nothing happens to the contexts while connections come and go on the page's side.
LEMMA LinkPeerInv ==
  ASSUME TypeOK, PeerInv, UNCHANGED <<context, tasks>>,
         \/ UNCHANGED link
         \/ cur' = cur + 1 /\ sock' = "connecting" /\ cur < MaxFaults + 1
         \/ cur' = cur /\ sock' = "closed"
  PROVE  PeerInv'
<1>1. CASE UNCHANGED link
  BY <1>1 DEF PeerInv, link
<1>2. CASE cur' = cur + 1 /\ sock' = "connecting" /\ cur < MaxFaults + 1
  <2>1. cur \in Nat /\ cur' \in Peers
    BY <1>2, LiveViewAssumption DEF TypeOK, Peers
  <2> QED BY <1>2, <2>1, LiveViewAssumption DEF PeerInv, Peers
<1>3. CASE cur' = cur /\ sock' = "closed"
  BY <1>3 DEF PeerInv
<1> QED BY <1>1, <1>2, <1>3

LEMMA HandlePeerInv ==
  ASSUME TypeOK, PeerInv, MemoryInv, NEW p \in Peers, Handle(p)
  PROVE  PeerInv' /\ MemoryInv'
<1> DEFINE m == Head(up[p])
<1>0. m \in Requests /\ m.topic \in Keys /\ m.n \in Nat /\ context[p].state = "open"
      /\ UNCHANGED <<link, backend>>
  BY HandleKinds, RequestKinds DEF chosen
<1> HIDE DEF m
<1>1. \/ context' = [context EXCEPT ![p].subs = @ \union {m.topic}]
      \/ context' = [context EXCEPT ![p].subs = @ \ {m.topic}]
      \/ context' = context
  BY <1>0, HandleKinds, SubscribeWays DEF m, HandleUnsubscribe, server
<1>2. \/ tasks' = tasks
      \/ backend = "redis" /\ \E pc \in {"subscribe", "read"} :
           tasks' = tasks \union {Waiting(p, m.topic, m.n, pc)}
  BY <1>0, HandleKinds, SubscribeWays DEF m, HandleUnsubscribe, server
<1>3. \A q \in Peers : context'[q].state = context[q].state
                       /\ (q # p => context'[q].subs = context[q].subs)
  BY <1>1 DEF TypeOK, Contexts
<1>4. \A k \in tasks' : k \in tasks \/ k.p = p
  BY <1>2 DEF Waiting
<1>5. \A k \in tasks : k.p \in Peers
  BY DEF TypeOK, Tasks
<1>6. cur' = cur /\ sock' = sock /\ (sock \in {"connecting", "open"} => cur \in Peers)
  BY <1>0 DEF link, TypeOK
<1>7. PeerInv'
  BY <1>0, <1>3, <1>4, <1>5, <1>6 DEF PeerInv
<1>8. MemoryInv'
  BY <1>0, <1>2 DEF MemoryInv
<1> QED BY <1>7, <1>8

LEMMA TaskPeerInv ==
  ASSUME TypeOK, PeerInv, MemoryInv, NEW k \in tasks, Subscribed(k) \/ ReadHistory(k) \/ SendHistory(k)
  PROVE  PeerInv' /\ MemoryInv'
<1>0. k \in Tasks /\ k.p \in Peers /\ k.topic \in Keys
  BY DEF TypeOK, Tasks
<1>1. UNCHANGED <<link, backend>>
  BY DEF Subscribed, ReadHistory, SendHistory, chosen
<1>2. \A j \in tasks' : j \in tasks \/ j.p = k.p
  <2>1. /\ [k EXCEPT !.pc = "read"].p = k.p
        /\ [k EXCEPT !.pc = "send", !.got = InHistory(k.topic)].p = k.p
    BY <1>0 DEF Tasks
  <2> QED BY <2>1 DEF Subscribed, ReadHistory, SendHistory
<1>3. \/ context' = context
      \/ context[k.p].state = "open" /\ context' = [context EXCEPT ![k.p].subs = @ \union {k.topic}]
  BY DEF Subscribed, ReadHistory, SendHistory
<1>4. \A q \in Peers : context'[q].state = context[q].state
                       /\ (context[q].state # "open" => context'[q].subs = context[q].subs)
  <2>1. ASSUME NEW p \in Peers, NEW q \in Peers, context[p].state = "open",
               context' = [context EXCEPT ![p].subs = @ \union {k.topic}]
        PROVE  /\ context'[q].state = context[q].state
               /\ context[q].state # "open" => context'[q].subs = context[q].subs
    BY <2>1 DEF TypeOK, Contexts
  <2> QED BY <1>0, <1>3, <2>1
<1>5. \A j \in tasks : j.p \in Peers
  BY DEF TypeOK, Tasks
<1>6. cur' = cur /\ sock' = sock /\ (sock \in {"connecting", "open"} => cur \in Peers)
  BY <1>1 DEF link, TypeOK
<1>7. PeerInv'
  BY <1>0, <1>2, <1>4, <1>5, <1>6 DEF PeerInv
<1>8. MemoryInv'
  BY <1>1 DEF MemoryInv
<1> QED BY <1>7, <1>8

LEMMA NextPeerInv ==
  ASSUME TypeOK, PeerInv, MemoryInv, Next
  PROVE  PeerInv' /\ MemoryInv'
<1>1. ASSUME UNCHANGED <<context, tasks, backend>>,
             \/ UNCHANGED link
             \/ cur' = cur + 1 /\ sock' = "connecting" /\ cur < MaxFaults + 1
             \/ cur' = cur /\ sock' = "closed"
      PROVE  PeerInv' /\ MemoryInv'
  BY <1>1, LinkPeerInv DEF MemoryInv
<1>2. CASE \E t \in Topics : Subscribe(t)
  BY <1>1, <1>2 DEF Subscribe, Connect, server, chosen
<1>3. CASE Unsubscribe \/ UnsubscribeStats \/ Receive
  BY <1>1, <1>3 DEF Unsubscribe, UnsubscribeStats, Receive, server, chosen
<1>4. CASE SubscribeStats
  BY <1>1, <1>4 DEF SubscribeStats, Connect, server, chosen
<1>5. CASE OnOpen
  <2>1. sock = "connecting" /\ sock' = "open" /\ cur \in Peers /\ cur' = cur /\ tasks' = tasks
        /\ backend' = backend /\ context' = [context EXCEPT ![cur].state = "open"]
    BY <1>5 DEF OnOpen, TypeOK, chosen
  <2>2. context'[cur].state = "open" /\ \A q \in Peers : q # cur => context'[q] = context[q]
    BY <2>1 DEF TypeOK, Contexts
  <2>3. cur \in Int /\ \A k \in tasks : k.p \in Peers
    BY <2>1 DEF TypeOK, Tasks, Peers
  <2> QED BY <2>1, <2>2, <2>3 DEF PeerInv, MemoryInv, Peers
<1>6. CASE Reconnect
  <2>1. UNCHANGED <<context, tasks, backend>>
        /\ (UNCHANGED <<cur, sock>>
            \/ (cur' = cur + 1 /\ sock' = "connecting" /\ cur < MaxFaults + 1))
    BY <1>6 DEF Reconnect, server, chosen
  <2>2. CASE UNCHANGED <<cur, sock>>
    BY <2>1, <2>2 DEF PeerInv, MemoryInv
  <2> QED BY <1>1, <2>1, <2>2
<1>7. CASE \E p \in Peers : Handle(p)
  BY <1>7, HandlePeerInv
<1>8. CASE \E p \in Peers : ClosePeer(p)
  <2>1. PICK p \in Peers : ClosePeer(p)
    BY <1>8
  <2>2. context[p].state = "open" /\ ~(p = cur /\ sock = "open") /\ UNCHANGED <<link, tasks, backend>>
        /\ context' = [context EXCEPT ![p] = [state |-> "closed", subs |-> {}]]
    BY <2>1 DEF ClosePeer, Reachable, chosen
  <2>3. \A q \in Peers : q # p => context'[q] = context[q]
    BY <2>2 DEF TypeOK
  <2>4. context'[p].state = "closed" /\ context'[p].subs = {}
    BY <2>2 DEF TypeOK
  <2>5. cur' = cur /\ sock' = sock /\ (sock \in {"connecting", "open"} => cur \in Peers)
    BY <2>2 DEF link, TypeOK
  <2>6. \A k \in tasks : k.p \in Peers
    BY DEF TypeOK, Tasks
  <2> QED BY <2>2, <2>3, <2>4, <2>5, <2>6 DEF PeerInv, MemoryInv
<1>9. CASE \E k \in tasks : Subscribed(k) \/ ReadHistory(k) \/ SendHistory(k)
  BY <1>9, TaskPeerInv
<1>10. CASE \E t \in Keys : AppendEvent(t) \/ \E i \in 1 .. log[t] : PublishStep(t, i)
  BY <1>1, <1>10 DEF AppendEvent, PublishStep, Publish, server, chosen
<1>11. CASE Drop
  BY <1>1, <1>11, CloseTyped DEF Drop, server, chosen
<1>12. CASE Restart
  <2>1. sock' = "closed" /\ cur' = cur /\ tasks' = {} /\ context' = [p \in Peers |-> NoContext]
    BY <1>12, CloseTyped DEF Restart
  <2> QED BY <2>1 DEF PeerInv, MemoryInv, NoContext
<1> QED BY <1>2, <1>3, <1>4, <1>5, <1>6, <1>7, <1>8, <1>9, <1>10, <1>11, <1>12, StepKinds

-----------------------------------------------------------------------------
(* The gateway                                                                *)
LEMMA WithoutHandleIs ==
  ASSUME NEW gw \in [Keys -> Sets], NEW t \in Keys, NEW p \in Peers
  PROVE  LET new == WithoutHandle(gw, t, p) IN
         /\ \A r \in Keys : r # t => new[r] = gw[r]
         /\ \A q \in Peers : new[t].handles[q] = IF q = p THEN gw[t].handles[p] - 1
                                                 ELSE gw[t].handles[q]
         /\ \/ new[t].known = gw[t].known /\ new[t].live = gw[t].live
               /\ \E q \in Peers : new[t].handles[q] # 0
            \/ ~new[t].known /\ ~new[t].live /\ \A q \in Peers : new[t].handles[q] = 0
<1> DEFINE left == [gw[t].handles EXCEPT ![p] = @ - 1]
           new == WithoutHandle(gw, t, p)
<1>0. gw[t] \in Sets /\ gw[t].handles \in [Peers -> Int]
  BY DEF Sets
<1>1. /\ left \in [Peers -> Int]
      /\ \A q \in Peers : left[q] = IF q = p THEN gw[t].handles[p] - 1 ELSE gw[t].handles[q]
  BY <1>0
<1>2. new = [gw EXCEPT ![t] = IF left = NoHandler
                              THEN [@ EXCEPT !.known = FALSE, !.live = FALSE, !.handles = left]
                              ELSE [@ EXCEPT !.handles = left]]
  BY DEF WithoutHandle
<1>3. left = NoHandler <=> \A q \in Peers : left[q] = 0
  <2> HIDE DEF left
  <2> QED BY <1>1 DEF NoHandler
<1> HIDE DEF left, new
<1>4. \A r \in Keys : r # t => new[r] = gw[r]
  BY <1>2
<1>5. CASE left = NoHandler
  <2>1. new[t] = [gw[t] EXCEPT !.known = FALSE, !.live = FALSE, !.handles = left]
    BY <1>2, <1>5
  <2>2. ~new[t].known /\ ~new[t].live /\ new[t].handles = left
    BY <1>0, <2>1 DEF Sets
  <2> QED BY <1>1, <1>3, <1>4, <1>5, <2>2 DEF new
<1>6. CASE left # NoHandler
  <2>1. new[t] = [gw[t] EXCEPT !.handles = left]
    BY <1>2, <1>6
  <2>2. new[t].known = gw[t].known /\ new[t].live = gw[t].live /\ new[t].handles = left
    BY <1>0, <2>1 DEF Sets
  <2> QED BY <1>1, <1>3, <1>4, <1>6, <2>2 DEF new
<1> QED BY <1>5, <1>6

LEMMA WithHandleIs ==
  ASSUME NEW gw \in [Keys -> Sets], NEW t \in Keys, NEW p \in Peers
  PROVE  LET new == WithHandle(gw, t, p) IN
         /\ \A r \in Keys : r # t => new[r] = gw[r]
         /\ new[t].known = gw[t].known /\ new[t].live = gw[t].live
         /\ \A q \in Peers : new[t].handles[q] = IF q = p THEN gw[t].handles[p] + 1
                                                 ELSE gw[t].handles[q]
BY DEF WithHandle, Sets

\* Without its own handle a peer has none, and the others have theirs.
LEMMA ReleasedIs ==
  ASSUME TypeOK, NEW t \in Keys, TopicOK(t), NEW p \in Peers, context[p].state = "open",
         ~Unconfirmed(t)
  PROVE  LET new == Released(t, p) IN
         /\ new \in [Keys -> Sets]
         /\ \A r \in Keys : r # t => new[r] = gateway[r]
         /\ new[t].handles[p] = 0
         /\ \A q \in Peers : q # p => new[t].handles[q] = Handles(t)[q]
         /\ new[t].live <=> new[t].known
         /\ \A q \in Peers : new[t].handles[q] = 1 => new[t].live
<1> DEFINE new == Released(t, p)
<1>0. gateway \in [Keys -> Sets]
  BY DEF TypeOK
<1>1. gateway[t].live <=> gateway[t].known
  BY DEF TopicOK, Unconfirmed
<1>2. CASE t \notin context[p].subs
  BY <1>0, <1>1, <1>2 DEF Released, TopicOK, Handles
<1>3. CASE t \in context[p].subs
  <2>1. ~Asked(p, t)
    BY DEF TopicOK
  <2>2. Handles(t)[p] = 1 /\ gateway[t].live /\ gateway[t].known
    BY <1>1, <1>3, <2>1 DEF TopicOK
  <2>3. new = WithoutHandle(gateway, t, p) /\ new \in [Keys -> Sets]
    BY <1>0, <1>3, GatewayTyped DEF Released
  <2>4. /\ \A r \in Keys : r # t => new[r] = gateway[r]
        /\ \A q \in Peers : new[t].handles[q] = IF q = p THEN Handles(t)[p] - 1 ELSE Handles(t)[q]
        /\ \/ new[t].known = gateway[t].known /\ new[t].live = gateway[t].live
              /\ \E q \in Peers : new[t].handles[q] # 0
           \/ ~new[t].known /\ ~new[t].live /\ \A q \in Peers : new[t].handles[q] = 0
    BY <1>0, <2>3, WithoutHandleIs DEF Handles
  <2> HIDE DEF new
  <2>5. new[t].handles[p] = 0 /\ \A q \in Peers : q # p => new[t].handles[q] = Handles(t)[q]
    BY <2>2, <2>4
  <2>6. (new[t].live <=> new[t].known) /\ \A q \in Peers : new[t].handles[q] = 1 => new[t].live
    <3>1. CASE new[t].known = gateway[t].known /\ new[t].live = gateway[t].live
      BY <2>2, <3>1
    <3>2. CASE ~new[t].known /\ ~new[t].live /\ \A q \in Peers : new[t].handles[q] = 0
      <4>1. \A q \in Peers : new[t].handles[q] # 1
        BY <3>2
      <4> QED BY <3>2, <4>1
    <3> QED BY <2>4, <3>1, <3>2
  <2> QED BY <2>3, <2>4, <2>5, <2>6 DEF new
<1> QED BY <1>2, <1>3

\* A topic that a step leaves alone stays as it is.
LEMMA TopicKept ==
  ASSUME NEW t \in Keys, TopicOK(t), gateway'[t] = gateway[t],
         \A k \in tasks : k.topic = t /\ k.pc = "subscribe" => k \in tasks',
         \A k \in tasks' : k.topic = t /\ k.pc = "subscribe" => k \in tasks,
         \A p \in Peers : t \in context'[p].subs <=> t \in context[p].subs,
         \A p \in Peers : context'[p].state # "closed" => context[p].state # "closed"
  PROVE  TopicOK(t)'
<1>1. \A p : Asked(p, t)' <=> Asked(p, t)
  BY DEF Asked
<1>2. Unconfirmed(t)' <=> Unconfirmed(t)
  BY DEF Unconfirmed
<1>3. Handles(t)' = Handles(t)
  BY DEF Handles
<1> QED BY <1>1, <1>2, <1>3 DEF TopicOK

\* After a subscribe handler the peer has a handle, or waits for Redis.
LEMMA SubscribeTopic ==
  ASSUME TypeOK, MemoryInv, GateInv, ~raced', NEW p \in Peers, NEW m \in Requests,
         HandleSubscribe(p, m), context[p].state = "open"
  PROVE  /\ \A t \in Keys : TopicOK(t)'
         /\ m.topic \in context'[p].subs \/ Asked(p, m.topic)'
<1> DEFINE t == m.topic
           rel == Released(t, p)
<1>0. t \in Keys /\ gateway \in [Keys -> Sets] /\ ~raced /\ ~Unconfirmed(t) /\ (\A r \in Keys : TopicOK(r))
  <2>1. t \in Keys /\ gateway \in [Keys -> Sets]
    BY RequestKinds DEF TypeOK
  <2>2. ~raced /\ (backend = "redis" => ~Unconfirmed(t))
    BY SubscribeWays
  <2>3. \A r \in Keys : TopicOK(r)
    BY <2>2 DEF GateInv
  <2>4. tasks = {} => ~Unconfirmed(t)
    BY <2>1, <2>3 DEF TopicOK, Asked
  <2>5. backend = "memory" \/ backend = "redis"
    BY DEF TypeOK
  <2> QED BY <2>1, <2>2, <2>3, <2>4, <2>5 DEF MemoryInv
<1> HIDE DEF t
<1>1. /\ rel \in [Keys -> Sets] /\ \A r \in Keys : r # t => rel[r] = gateway[r]
      /\ rel[t].handles[p] = 0 /\ \A q \in Peers : q # p => rel[t].handles[q] = Handles(t)[q]
      /\ rel[t].live <=> rel[t].known
      /\ \A q \in Peers : rel[t].handles[q] = 1 => rel[t].live
  BY <1>0, ReleasedIs
<1> HIDE DEF rel
<1>2. /\ TopicOK(t) /\ \A q \in Peers : ~Asked(q, t)
      /\ \A k \in tasks : ~(k.topic = t /\ k.pc = "subscribe")
  <2>1. \A q \in Peers : ~Asked(q, t)
    BY <1>0 DEF TopicOK
  <2> QED BY <1>0, <2>1 DEF Asked, TypeOK, Tasks
<1>3. ASSUME \A q \in Peers : gateway'[t].handles[q] = IF q = p THEN 1 ELSE rel[t].handles[q],
             gateway'[t].known, gateway'[t].live, \A r \in Keys : r # t => gateway'[r] = rel[r],
             context' = [context EXCEPT ![p].subs = @ \union {t}],
             tasks' = tasks \/ tasks' = tasks \union {Waiting(p, t, m.n, "read")}
      PROVE  (\A r \in Keys : TopicOK(r)') /\ t \in context'[p].subs
  <2>1. /\ \A k \in tasks' : k.pc = "subscribe" => k \in tasks
        /\ tasks \subseteq tasks'
    BY <1>3 DEF Waiting
  <2>2. /\ context'[p].subs = context[p].subs \union {t}
        /\ \A q \in Peers : context'[q].state = context[q].state
        /\ \A q \in Peers : q # p => context'[q].subs = context[q].subs
    BY <1>3 DEF TypeOK, Contexts
  <2>3. ASSUME NEW r \in Keys, r # t PROVE TopicOK(r)'
    BY <1>0, <1>1, <1>3, <2>1, <2>2, <2>3, TopicKept
  <2>4. \A q : ~Asked(q, t)'
    BY <1>2, <2>1 DEF Asked
  <2>5. ~Unconfirmed(t)'
    BY <1>3 DEF Unconfirmed
  <2>6. \A q \in Peers : Handles(t)'[q] = IF q = p THEN 1 ELSE Handles(t)[q]
    BY <1>1, <1>3 DEF Handles
  <2>7. TopicOK(t)'
    <3>1. \A q \in Peers : Handles(t)'[q] \in {0, 1}
      BY <1>2, <2>6 DEF TopicOK
    <3>2. \A q \in Peers : t \in context'[q].subs => Handles(t)'[q] = 1
      BY <1>2, <2>2, <2>6 DEF TopicOK
    <3>3. \A q \in Peers : t \notin context'[q].subs /\ context'[q].state # "closed" => Handles(t)'[q] = 0
      BY <1>2, <2>2, <2>6 DEF TopicOK
    <3>4. \A k \in tasks' : ~(k.topic = t /\ k.pc = "subscribe")
      BY <1>2, <2>1
    <3> QED BY <1>3, <2>4, <2>5, <3>1, <3>2, <3>3, <3>4 DEF TopicOK
  <2> QED BY <2>2, <2>3, <2>7
<1>4. CASE gateway' = MemorySubscribe(rel, t, p) /\ tasks' = tasks
           /\ context' = [context EXCEPT ![p].subs = @ \union {t}]
  <2> DEFINE now == [rel EXCEPT ![t] = [@ EXCEPT !.known = TRUE, !.live = TRUE]]
  <2>1. /\ now \in [Keys -> Sets] /\ now[t].known /\ now[t].live
        /\ now[t].handles = rel[t].handles /\ \A r \in Keys : r # t => now[r] = rel[r]
    BY <1>0, <1>1 DEF Sets
  <2>2. gateway' = WithHandle(now, t, p)
    BY <1>4 DEF MemorySubscribe
  <2> HIDE DEF now
  <2>3. /\ \A r \in Keys : r # t => gateway'[r] = rel[r]
        /\ gateway'[t].known /\ gateway'[t].live
        /\ \A q \in Peers : gateway'[t].handles[q] = IF q = p THEN now[t].handles[p] + 1
                                                     ELSE now[t].handles[q]
    BY <1>0, <2>1, <2>2, WithHandleIs
  <2>4. \A q \in Peers : gateway'[t].handles[q] = IF q = p THEN 1 ELSE rel[t].handles[q]
    BY <1>1, <2>1, <2>3
  <2> QED BY <1>3, <1>4, <2>3, <2>4 DEF t
<1>5. CASE rel[t].known /\ gateway' = WithHandle(rel, t, p)
           /\ tasks' = tasks \union {Waiting(p, t, m.n, "read")}
           /\ context' = [context EXCEPT ![p].subs = @ \union {t}]
  <2>1. /\ \A r \in Keys : r # t => gateway'[r] = rel[r]
        /\ gateway'[t].known /\ gateway'[t].live
        /\ \A q \in Peers : gateway'[t].handles[q] = IF q = p THEN rel[t].handles[p] + 1
                                                     ELSE rel[t].handles[q]
    <3>1. rel[t].known /\ rel[t].live
      BY <1>1, <1>5
    <3>2. gateway' = WithHandle(rel, t, p) /\ rel \in [Keys -> Sets]
      BY <1>1, <1>5
    <3> QED BY <1>0, <3>1, <3>2, WithHandleIs
  <2>2. \A q \in Peers : gateway'[t].handles[q] = IF q = p THEN 1 ELSE rel[t].handles[q]
    BY <1>1, <2>1
  <2> QED BY <1>3, <1>5, <2>1, <2>2 DEF t
<1>6. CASE ~rel[t].known /\ gateway' = WithSet(rel, t)
           /\ tasks' = tasks \union {Waiting(p, t, m.n, "subscribe")} /\ context' = context
  <2> DEFINE k == Waiting(p, t, m.n, "subscribe")
  <2>0. k.p = p /\ k.topic = t /\ k.pc = "subscribe"
    BY DEF Waiting
  <2>1. /\ \A r \in Keys : r # t => gateway'[r] = gateway[r]
        /\ gateway'[t].known /\ gateway'[t].live = rel[t].live /\ gateway'[t].handles = rel[t].handles
    BY <1>0, <1>1, <1>6 DEF WithSet, Sets
  <2>2. ~gateway'[t].live /\ tasks' = tasks \union {k}
    BY <1>1, <1>6, <2>1
  <2> HIDE DEF k
  <2>3. ASSUME NEW r \in Keys, r # t PROVE TopicOK(r)'
    BY <1>0, <1>6, <2>0, <2>1, <2>2, <2>3, TopicKept
  <2>4. Asked(p, t)' /\ \A q \in Peers : Asked(q, t)' => q = p
    BY <1>2, <2>0, <2>2 DEF Asked
  <2>5. Unconfirmed(t)'
    BY <2>1, <2>2 DEF Unconfirmed
  <2>6. \A q \in Peers : Handles(t)'[q] = 0
    <3>1. \A q \in Peers : rel[t].handles[q] \in {0, 1}
      BY <1>1, <1>2 DEF TopicOK
    <3>2. \A q \in Peers : rel[t].handles[q] # 1
      BY <1>1, <1>6
    <3> QED BY <2>1, <3>1, <3>2 DEF Handles
  <2>7. \A q \in Peers : t \in context'[q].subs => q = p
    <3>1. ASSUME NEW q \in Peers, q # p, t \in context[q].subs PROVE FALSE
      <4>1. Handles(t)[q] = 1
        BY <1>2, <3>1 DEF TopicOK
      <4> QED BY <1>1, <2>1, <2>6, <3>1, <4>1 DEF Handles
    <3> QED BY <1>6, <3>1
  <2>8. \A k1, k2 \in tasks' :
          k1.topic = t /\ k1.pc = "subscribe" /\ k2.topic = t /\ k2.pc = "subscribe" => k1 = k2
    BY <1>2, <2>2
  <2>9. TopicOK(t)'
    BY <2>1, <2>2, <2>4, <2>5, <2>6, <2>7, <2>8 DEF TopicOK
  <2> QED BY <2>3, <2>4, <2>9 DEF t
<1> QED BY <1>4, <1>5, <1>6, SubscribeWays DEF t, rel

LEMMA ReleaseTopic ==
  ASSUME TypeOK, NEW t \in Keys, TopicOK(t), ~Unconfirmed(t), NEW p \in Peers,
         t \in context[p].subs, context[p].state = "open",
         gateway'[t] = WithoutHandle(gateway, t, p)[t], tasks' = tasks,
         t \notin context'[p].subs, \A q \in Peers : q # p => context'[q] = context[q]
  PROVE  TopicOK(t)'
<1> DEFINE new == WithoutHandle(gateway, t, p)
<1>1. /\ new[t].handles[p] = 0 /\ \A q \in Peers : q # p => new[t].handles[q] = Handles(t)[q]
      /\ new[t].live <=> new[t].known
      /\ \A q \in Peers : new[t].handles[q] = 1 => new[t].live
  <2>1. new = Released(t, p)
    BY DEF Released
  <2> HIDE DEF new
  <2> QED BY <2>1, ReleasedIs
<1> HIDE DEF new
<1>2. gateway'[t] = new[t]
  BY DEF new
<1>3. \A q \in Peers : Handles(t)'[q] = IF q = p THEN 0 ELSE Handles(t)[q]
  BY <1>1, <1>2 DEF Handles
<1>4. \A q \in Peers : ~Asked(q, t) /\ ~Asked(q, t)'
  BY DEF TopicOK, Asked
<1>5. ~Unconfirmed(t)' /\ (gateway'[t].live => gateway'[t].known)
  BY <1>1, <1>2 DEF Unconfirmed
<1>6. \A q \in Peers : Handles(t)'[q] \in {0, 1} /\ (Handles(t)'[q] = 1 => gateway'[t].live)
  BY <1>1, <1>2, <1>3 DEF TopicOK, Handles
<1>7. \A q \in Peers : t \in context'[q].subs => Handles(t)'[q] = 1
  BY <1>3, <1>4 DEF TopicOK
<1>8. \A q \in Peers : t \notin context'[q].subs /\ context'[q].state # "closed" => Handles(t)'[q] = 0
  BY <1>3 DEF TopicOK
<1>9. \A k1, k2 \in tasks' :
         k1.topic = t /\ k1.pc = "subscribe" /\ k2.topic = t /\ k2.pc = "subscribe" => k1 = k2
  BY DEF TopicOK
<1> QED BY <1>4, <1>5, <1>6, <1>7, <1>8, <1>9 DEF TopicOK

LEMMA UnsubscribeTopics ==
  ASSUME TypeOK, GateInv, ~raced', NEW p \in Peers, NEW m \in Requests,
         HandleUnsubscribe(p, m), context[p].state = "open"
  PROVE  \A t \in Keys : TopicOK(t)'
<1>1. CASE m.topic \notin context[p].subs
  <2>1. UNCHANGED <<gateway, context, tasks, raced>>
    BY <1>1 DEF HandleUnsubscribe
  <2>2. \A t \in Keys : TopicOK(t)
    BY <2>1 DEF GateInv
  <2> QED BY <2>1, <2>2, TopicKept
<1>2. CASE m.topic \in context[p].subs
  <2> DEFINE t == m.topic
  <2>1. /\ gateway' = WithoutHandle(gateway, t, p) /\ raced' = (raced \/ Unconfirmed(t))
        /\ context' = [context EXCEPT ![p].subs = @ \ {t}] /\ tasks' = tasks
    BY <1>2 DEF HandleUnsubscribe
  <2>2. t \in Keys /\ gateway \in [Keys -> Sets] /\ t \in context[p].subs
    BY <1>2, RequestKinds DEF TypeOK
  <2> HIDE DEF t
  <2>3. ~Unconfirmed(t) /\ \A r \in Keys : TopicOK(r)
    BY <2>1 DEF GateInv
  <2>4. \A r \in Keys : r # t => gateway'[r] = gateway[r]
    BY <2>1, <2>2, WithoutHandleIs
  <2>5. /\ \A q \in Peers : q # p => context'[q] = context[q]
        /\ \A q \in Peers : context'[q].state = context[q].state
        /\ context'[p].subs = context[p].subs \ {t}
    BY <2>1 DEF TypeOK, Contexts
  <2>6. TopicOK(t)'
    BY <2>1, <2>2, <2>3, <2>5, ReleaseTopic
  <2>7. ASSUME NEW r \in Keys, r # t PROVE TopicOK(r)'
    BY <2>1, <2>3, <2>4, <2>5, <2>7, TopicKept
  <2> QED BY <2>6, <2>7
<1> QED BY <1>1, <1>2

LEMMA CloseTopics ==
  ASSUME TypeOK, GateInv, ~raced', NEW p \in Peers, ClosePeer(p)
  PROVE  \A t \in Keys : TopicOK(t)'
<1>1. /\ context[p].state = "open" /\ tasks' = tasks
      /\ context' = [context EXCEPT ![p] = [state |-> "closed", subs |-> {}]]
      /\ \A t \in Keys : gateway'[t] = IF t \in context[p].subs THEN WithoutHandle(gateway, t, p)[t]
                                       ELSE gateway[t]
      /\ ~raced /\ \A t \in context[p].subs : ~Unconfirmed(t)
  BY DEF ClosePeer
<1>2. /\ \A q \in Peers : q # p => context'[q] = context[q]
      /\ context'[p].state = "closed" /\ context'[p].subs = {}
  BY <1>1 DEF TypeOK
<1>3. ASSUME NEW t \in Keys, t \in context[p].subs PROVE TopicOK(t)'
  BY <1>1, <1>2, <1>3, ReleaseTopic DEF GateInv
<1>4. ASSUME NEW t \in Keys, t \notin context[p].subs PROVE TopicOK(t)'
  BY <1>1, <1>2, <1>4, TopicKept DEF GateInv
<1> QED BY <1>3, <1>4

\* Redis confirms: the one handler that waited for the set has the first handle in it.
LEMMA SubscribedTopics ==
  ASSUME TypeOK, PeerInv, GateInv, ~raced', NEW k \in tasks, Subscribed(k)
  PROVE  \A t \in Keys : TopicOK(t)'
<1> DEFINE t == k.topic
           p == k.p
           after == [k EXCEPT !.pc = "read"]
<1>0. /\ p \in Peers /\ t \in Keys /\ k.pc = "subscribe" /\ after.pc = "read"
      /\ gateway \in [Keys -> Sets] /\ ~raced /\ tasks' = (tasks \ {k}) \union {after}
  BY DEF TypeOK, Tasks, Subscribed
<1>1. \A r \in Keys : TopicOK(r)
  BY <1>0 DEF GateInv
<1>2. gateway[t].known /\ ~gateway[t].live
  BY <1>0, <1>1 DEF TopicOK, Asked, Unconfirmed
<1>3. \A q \in Peers : Handles(t)[q] = 0
  BY <1>0, <1>1, <1>2 DEF TopicOK
<1>4. \A j \in tasks : j.topic = t /\ j.pc = "subscribe" => j = k
  BY <1>0, <1>1 DEF TopicOK
<1>5. /\ \A r \in Keys : r # t => gateway'[r] = gateway[r]
      /\ gateway'[t].known /\ gateway'[t].live
      /\ \A q \in Peers : gateway'[t].handles[q] = IF q = p THEN 1 ELSE 0
  <2> DEFINE now == [gateway EXCEPT ![t].live = TRUE]
  <2>1. /\ now \in [Keys -> Sets] /\ now[t].known /\ now[t].live
        /\ now[t].handles = gateway[t].handles /\ \A r \in Keys : r # t => now[r] = gateway[r]
    BY <1>0, <1>2 DEF Sets
  <2>2. gateway' = WithHandle(now, t, p)
    BY DEF Subscribed
  <2> HIDE DEF now, t, p
  <2>3. /\ \A r \in Keys : r # t => gateway'[r] = gateway[r]
        /\ gateway'[t].known /\ gateway'[t].live
        /\ \A q \in Peers : gateway'[t].handles[q] = IF q = p THEN now[t].handles[p] + 1
                                                     ELSE now[t].handles[q]
    BY <1>0, <2>1, <2>2, WithHandleIs
  <2> QED BY <1>0, <1>3, <2>1, <2>3 DEF Handles
<1>6. context' = IF context[p].state = "open" THEN [context EXCEPT ![p].subs = @ \union {t}]
                 ELSE context
  BY DEF Subscribed
<1>7. context[p].state # "none" /\ context[p].state \in {"none", "open", "closed"}
  BY <1>0 DEF PeerInv, TypeOK, Contexts
<1>8. after.topic = t
  BY DEF TypeOK, Tasks
<1> HIDE DEF t, p, after
<1>9. /\ \A q \in Peers : context'[q].state = context[q].state
      /\ \A q \in Peers : q # p => context'[q].subs = context[q].subs
      /\ \A r \in Keys : r # t => (r \in context'[p].subs <=> r \in context[p].subs)
      /\ context[p].state = "open" => t \in context'[p].subs
  BY <1>0, <1>6 DEF TypeOK, Contexts
<1>10. ASSUME NEW r \in Keys, r # t PROVE TopicOK(r)'
  <2>1. \A j \in tasks : j.topic = r => j # k
    BY <1>10 DEF t
  <2> QED BY <1>0, <1>1, <1>5, <1>8, <1>9, <1>10, <2>1, TopicKept
<1>11. TopicOK(t)'
  <2>1. \A j \in tasks' : ~(j.topic = t /\ j.pc = "subscribe")
    BY <1>0, <1>4
  <2>2. (\A q : ~Asked(q, t)') /\ ~Unconfirmed(t)'
    BY <1>5, <2>1 DEF Asked, Unconfirmed
  <2>3. \A q \in Peers : Handles(t)'[q] = IF q = p THEN 1 ELSE 0
    BY <1>5 DEF Handles
  <2>4. \A q \in Peers : t \in context'[q].subs => q = p
    <3>1. \A q \in Peers : Asked(q, t) => q = p
      BY <1>4 DEF Asked, p
    <3>2. \A q \in Peers : t \in context[q].subs => Handles(t)[q] = 1 \/ Asked(q, t)
      BY <1>0, <1>1 DEF TopicOK
    <3> QED BY <1>3, <1>9, <3>1, <3>2
  <2>5. \A q \in Peers : t \notin context'[q].subs /\ context'[q].state # "closed" => Handles(t)'[q] = 0
    BY <1>7, <1>9, <2>3
  <2> QED BY <1>5, <2>1, <2>2, <2>3, <2>4, <2>5 DEF TopicOK
<1> QED BY <1>10, <1>11

LEMMA InitGateInv == Init => GateInv
BY DEF Init, GateInv, TopicOK, Handles, Unconfirmed, Asked, NoSet, NoHandler, NoContext

LEMMA NextGateInv ==
  ASSUME TypeOK, PeerInv, MemoryInv, GateInv, Next
  PROVE  GateInv'
<1> SUFFICES ASSUME ~raced' PROVE \A t \in Keys : TopicOK(t)'
  BY DEF GateInv
<1>1. ASSUME UNCHANGED server PROVE \A t \in Keys : TopicOK(t)'
  BY <1>1, TopicKept DEF GateInv, server
<1>2. CASE \/ \E t \in Topics : Subscribe(t)
           \/ Unsubscribe \/ SubscribeStats \/ UnsubscribeStats \/ Reconnect \/ Receive
           \/ \E t \in Keys : AppendEvent(t) \/ \E i \in 1 .. log[t] : PublishStep(t, i)
           \/ Drop
  BY <1>1, <1>2 DEF Subscribe, Unsubscribe, SubscribeStats, UnsubscribeStats, Reconnect, Receive,
     AppendEvent, PublishStep, Publish, Drop
<1>3. CASE OnOpen
  <2>1. /\ cur \in Peers /\ context[cur].state = "none" /\ UNCHANGED <<gateway, tasks, raced>>
        /\ context' = [context EXCEPT ![cur].state = "open"]
    BY <1>3 DEF OnOpen, TypeOK, PeerInv
  <2>2. /\ \A q \in Peers : context'[q].subs = context[q].subs
        /\ \A q \in Peers : context'[q].state # "closed" => context[q].state # "closed"
    BY <2>1 DEF TypeOK, Contexts
  <2> QED BY <2>1, <2>2, TopicKept DEF GateInv
<1>4. CASE \E p \in Peers : Handle(p)
  <2>1. PICK p \in Peers : Handle(p)
    BY <1>4
  <2>2. CASE UNCHANGED <<server, down>>
    BY <1>1, <2>2
  <2> QED BY <2>1, <2>2, HandleKinds, SubscribeTopic, UnsubscribeTopics
<1>5. CASE \E p \in Peers : ClosePeer(p)
  BY <1>5, CloseTopics
<1>6. CASE \E k \in tasks : Subscribed(k)
  BY <1>6, SubscribedTopics
<1>7. CASE \E k \in tasks : ReadHistory(k) \/ SendHistory(k)
  <2>1. PICK k \in tasks : ReadHistory(k) \/ SendHistory(k)
    BY <1>7
  <2>2. k \in Tasks /\ k.pc # "subscribe" /\ UNCHANGED <<gateway, context, raced>>
        /\ [k EXCEPT !.pc = "send", !.got = InHistory(k.topic)].pc = "send"
        /\ (tasks' = (tasks \ {k}) \union {[k EXCEPT !.pc = "send", !.got = InHistory(k.topic)]}
            \/ tasks' = tasks \ {k})
    BY <2>1 DEF ReadHistory, SendHistory, TypeOK, Tasks
  <2>3. \A j : j.pc = "subscribe" => (j \in tasks <=> j \in tasks')
    BY <2>2
  <2>4. \A t \in Keys : TopicOK(t)
    BY <2>2 DEF GateInv
  <2> QED BY <2>2, <2>3, <2>4, TopicKept
<1>8. CASE Restart
  <2>1. /\ gateway' = [t \in Keys |-> NoSet] /\ context' = [p \in Peers |-> NoContext] /\ tasks' = {}
    BY <1>8 DEF Restart
  <2> QED BY <2>1 DEF TopicOK, Handles, Unconfirmed, Asked, NoSet, NoHandler, NoContext
<1> QED BY <1>2, <1>3, <1>4, <1>5, <1>6, <1>7, <1>8, StepKinds

-----------------------------------------------------------------------------
(* The view                                                                   *)
LEMMA InitViewInv == Init => ViewInv
BY LiveViewAssumption DEF Init, ViewInv

LEMMA NewViewFits ==
  ASSUME NEW s, NEW w
  PROVE  ViewFits(s, w, NothingShown)
BY DEF ViewFits, NothingShown, Fits, Unseen

LEMMA NextViewInv ==
  ASSUME TypeOK, ViewInv, Next
  PROVE  ViewInv'
<1>1. CASE \E t \in Topics : Subscribe(t)
  BY <1>1, NewViewFits DEF Subscribe, ViewInv
<1>2. CASE Unsubscribe
  BY <1>2, LiveViewAssumption DEF Unsubscribe, ViewInv
<1>3. CASE Receive
  <2>1. UNCHANGED <<service, watching>>
    BY <1>3 DEF Receive, chosen
  <2> QED BY <1>3, <2>1, ReceiveShows, MessageFits DEF ViewInv, TypeOK
<1>4. CASE UNCHANGED <<service, watching, view>>
  BY <1>4 DEF ViewInv
<1> QED
  BY <1>1, <1>2, <1>3, <1>4, StepKinds, HandleKinds DEF SubscribeStats, UnsubscribeStats, OnOpen,
     Reconnect, ClosePeer, Subscribed, ReadHistory, SendHistory, AppendEvent, PublishStep, Publish,
     Drop, Restart, chosen, page

-----------------------------------------------------------------------------
(* What is on its way to the server                                           *)
LEMMA AsksTail ==
  ASSUME NEW ms \in Seq(Requests), ms # <<>>, NEW t
  PROVE  /\ Tail(ms) \in Seq(Requests)
         /\ AsksFor(Tail(ms), t) => AsksFor(ms, t)
         /\ AsksFor(ms, t) => AsksFor(Tail(ms), t) \/ (Head(ms).kind = "subscribe" /\ Head(ms).topic = t)
         /\ EndsFor(ms, t) => EndsFor(Tail(ms), t)
         /\ EndsFor(ms, t) /\ ~AsksFor(ms, t) => Head(ms).kind \notin {"subscribe", "unsubscribe"}
<1> DEFINE n == Len(ms) - 1
           rest == Tail(ms)
<1>0. /\ n \in Nat /\ Len(ms) = n + 1 /\ Len(rest) = n /\ rest \in Seq(Requests) /\ Head(ms) = ms[1]
      /\ \A i \in 1 .. n : rest[i] = ms[i + 1]
  OBVIOUS
<1> HIDE DEF n, rest
<1>1. \A i \in 1 .. n + 1 : i = 1 \/ (i - 1 \in 1 .. n /\ rest[i - 1] = ms[i])
  <2> SUFFICES ASSUME NEW i \in 1 .. n + 1, i # 1 PROVE i - 1 \in 1 .. n /\ rest[i - 1] = ms[i]
    OBVIOUS
  <2>1. i - 1 \in 1 .. n /\ i - 1 + 1 = i
    BY <1>0
  <2> QED BY <1>0, <2>1
<1>2. AsksFor(rest, t) => AsksFor(ms, t)
  <2>1. \A i \in 1 .. n : i + 1 \in 1 .. n + 1
    BY <1>0
  <2> QED BY <1>0, <2>1 DEF AsksFor
<1>3. AsksFor(ms, t) => AsksFor(rest, t) \/ (ms[1].kind = "subscribe" /\ ms[1].topic = t)
  BY <1>0, <1>1 DEF AsksFor
<1>4. EndsFor(ms, t) => EndsFor(rest, t)
  <2> SUFFICES ASSUME EndsFor(ms, t), NEW i \in 1 .. n, rest[i].kind \in {"subscribe", "unsubscribe"}
               PROVE  \E j \in i .. n : rest[j].kind = "subscribe" /\ rest[j].topic = t
    BY <1>0 DEF EndsFor
  <2>1. i + 1 \in 1 .. n + 1 /\ ms[i + 1].kind \in {"subscribe", "unsubscribe"}
    BY <1>0
  <2>2. PICK j \in i + 1 .. n + 1 : ms[j].kind = "subscribe" /\ ms[j].topic = t
    BY <1>0, <2>1 DEF EndsFor
  <2>3. j - 1 \in i .. n /\ rest[j - 1] = ms[j]
    BY <1>0, <1>1, <2>2
  <2> QED BY <2>2, <2>3
<1>5. EndsFor(ms, t) /\ ~AsksFor(ms, t) => ms[1].kind \notin {"subscribe", "unsubscribe"}
  <2>1. 1 \in 1 .. Len(ms)
    BY <1>0
  <2> QED BY <2>1 DEF EndsFor, AsksFor
<1> QED BY <1>0, <1>2, <1>3, <1>4, <1>5 DEF rest

LEMMA AsksAppend ==
  ASSUME NEW ms \in Seq(Requests), NEW m \in Requests, NEW t
  PROVE  /\ AsksFor(ms, t) => AsksFor(Append(ms, m), t)
         /\ m.kind \notin {"subscribe", "unsubscribe"} /\ EndsFor(ms, t) => EndsFor(Append(ms, m), t)
         /\ m.kind = "subscribe" /\ m.topic = t => AsksFor(Append(ms, m), t) /\ EndsFor(Append(ms, m), t)
<1> DEFINE n == Len(ms)
           more == Append(ms, m)
<1>0. /\ n \in Nat /\ Len(more) = n + 1 /\ more[n + 1] = m
      /\ \A i \in 1 .. n : more[i] = ms[i] /\ i \in 1 .. n + 1
      /\ \A i \in 1 .. n + 1 : i \in 1 .. n \/ i = n + 1
      /\ n + 1 \in 1 .. n + 1
  OBVIOUS
<1> HIDE DEF n, more
<1>1. AsksFor(ms, t) => AsksFor(more, t)
  BY <1>0 DEF AsksFor, n
<1>2. ASSUME m.kind \notin {"subscribe", "unsubscribe"}, EndsFor(ms, t) PROVE EndsFor(more, t)
  <2> SUFFICES ASSUME NEW i \in 1 .. n + 1, more[i].kind \in {"subscribe", "unsubscribe"}
               PROVE  \E j \in i .. n + 1 : more[j].kind = "subscribe" /\ more[j].topic = t
    BY <1>0 DEF EndsFor
  <2>1. i \in 1 .. n /\ ms[i].kind \in {"subscribe", "unsubscribe"}
    BY <1>0, <1>2
  <2>2. PICK j \in i .. n : ms[j].kind = "subscribe" /\ ms[j].topic = t
    BY <1>2, <2>1 DEF EndsFor, n
  <2>3. j \in i .. n + 1 /\ j \in 1 .. n
    BY <1>0, <2>1, <2>2
  <2> QED BY <1>0, <2>2, <2>3
<1>3. ASSUME m.kind = "subscribe", m.topic = t PROVE AsksFor(more, t) /\ EndsFor(more, t)
  <2>1. \A i \in 1 .. n + 1 : n + 1 \in i .. n + 1
    BY <1>0
  <2> QED BY <1>0, <1>3, <2>1 DEF AsksFor, EndsFor
<1> QED BY <1>1, <1>2, <1>3 DEF more

-----------------------------------------------------------------------------
(* The page                                                                   *)
LEMMA ComingTyped ==
  ASSUME TypeOK, ViewInv, cur \in Peers
  PROVE  /\ Coming \in Views
         /\ watching \in Topics => ViewFits(service, watching, Coming)
BY AfterAllTyped, AfterAllFits DEF TypeOK, ViewInv, Coming

LEMMA ComingSame ==
  ASSUME UNCHANGED <<service, watching, view, cur>>, down'[cur] = down[cur]
  PROVE  Coming' = Coming
BY DEF Coming

LEMMA ComingNext ==
  ASSUME TypeOK, cur \in Peers, UNCHANGED <<service, watching, view, cur>>, NEW m \in Messages,
         down'[cur] = Append(down[cur], m)
  PROVE  Coming' = MessageShown(service, watching, Coming, m)
BY AfterAllAppend DEF TypeOK, Coming

\* A step that takes no view, no subscription and no handler's promise away keeps the page.
LEMMA PageKept ==
  ASSUME TypeOK, Following, PageInv, UNCHANGED <<service, backend, alone, cur, watching>>,
         log'[watching] = log[watching], pub'[watching] = pub[watching],
         EndsFor(up'[cur], watching),
         AsksFor(up[cur], watching) => AsksFor(up'[cur], watching),
         Linked => Linked',
         Coming' = Coming,
         \A k \in tasks : Mine(k) => \E j \in tasks' : Mine(j),
         \A k \in tasks : \A i \in pub[watching] :
           Within(watching) /\ Mine(k) /\ (k.pc = "send" => i <= k.got) =>
             \E j \in tasks' : Mine(j) /\ (j.pc = "send" => i <= j.got)
  PROVE  PageInv'
<1> SUFFICES ASSUME ~AsksFor(up'[cur], watching)
             PROVE  Linked' /\ Sees' /\ InSync'
  BY DEF PageInv
<1>1. Linked /\ Sees /\ InSync
  BY DEF PageInv
<1>2. \A k : Mine(k)' <=> Mine(k)
  BY DEF Mine
<1>3. Within(watching)' <=> Within(watching)
  BY DEF Within
<1>4. Sees'
  <2> SUFFICES ASSUME Within(watching), service = "flows" \/ backend = "memory",
                      NEW i \in pub[watching], Published(watching, i), i \notin Coming.seen
               PROVE  \E j \in tasks' : Mine(j) /\ (j.pc = "send" => i <= j.got)
    BY <1>2, <1>3 DEF Sees
  <2>1. \E k \in tasks : Mine(k) /\ (k.pc = "send" => i <= k.got)
    BY <1>1 DEF Sees
  <2> QED BY <2>1
<1>5. InSync'
  BY <1>1, <1>2, <1>3 DEF InSync
<1> QED BY <1>1, <1>4, <1>5

\* What the page asks for, and what it does not ask for, is in the order it was asked.
LEMMA PageSubscribe ==
  ASSUME TypeOK, NEW t \in Topics, Subscribe(t)
  PROVE  PageInv'
<1> SUFFICES ASSUME sock' = "open" PROVE EndsFor(up'[cur'], t) /\ AsksFor(up'[cur'], t)
  BY DEF PageInv, Following, Subscribe
<1>1. sock = "open" /\ cur' = cur /\ cur \in Peers
  BY DEF Subscribe, Connect, link, TypeOK
<1> DEFINE m1 == ToServer("unsubscribe", watching, 0)
           m2 == ToServer("subscribe", t, requests + 1)
           ms == up[cur]
<1>2. m2 \in Requests /\ m2.kind = "subscribe" /\ m2.topic = t /\ ms \in Seq(Requests)
      /\ (watching # None => m1 \in Requests)
  <2>1. m2.kind = "subscribe" /\ m2.topic = t
    BY DEF ToServer
  <2>2. ms \in Seq(Requests) /\ requests + 1 \in Nat /\ 0 \in Nat
    BY <1>1 DEF TypeOK
  <2>3. watching # None => watching \in Topics
    BY DEF TypeOK
  <2>4. m2 \in Requests /\ (watching # None => m1 \in Requests)
    BY <2>2, <2>3, RequestTyped
  <2> QED BY <2>1, <2>2, <2>4
<1>3. up'[cur] = ms \o ((IF watching = None THEN <<>> ELSE <<m1>>) \o <<m2>>)
  BY <1>1 DEF Subscribe, Send, TypeOK
<1> HIDE DEF m1, m2, ms
<1>4. CASE watching = None
  <2>1. up'[cur] = Append(ms, m2)
    BY <1>2, <1>3, <1>4
  <2> QED BY <1>1, <1>2, <2>1, AsksAppend
<1>5. CASE watching # None
  <2>1. up'[cur] = Append(Append(ms, m1), m2) /\ Append(ms, m1) \in Seq(Requests)
    BY <1>2, <1>3, <1>5
  <2> DEFINE less == Append(ms, m1)
  <2>2. AsksFor(Append(less, m2), t) /\ EndsFor(Append(less, m2), t)
    <3>1. less \in Seq(Requests)
      BY <2>1
    <3> HIDE DEF less
    <3> QED BY <1>2, <3>1, AsksAppend
  <2> QED BY <1>1, <2>1, <2>2
<1> QED BY <1>4, <1>5

LEMMA PageStats ==
  ASSUME TypeOK, PageInv, SubscribeStats \/ UnsubscribeStats
  PROVE  PageInv'
<1> SUFFICES ASSUME sock' = "open", watching' \in Topics, ~raced' PROVE PageInv'
  BY DEF PageInv, Following
<1>1. /\ sock = "open" /\ cur' = cur /\ cur \in Peers
      /\ UNCHANGED <<service, backend, alone, log, pub, watching, view, down, tasks, context, raced>>
  BY DEF SubscribeStats, UnsubscribeStats, Connect, link, TypeOK, chosen, server
<1>2. Following /\ up[cur] \in Seq(Requests)
  BY <1>1 DEF Following, TypeOK
<1> DEFINE a == ToServer("subscribe.stats", Stats, requests + 1)
           b == ToServer("unsubscribe.stats", Stats, 0)
<1>3. /\ a \in Requests /\ a.kind \notin {"subscribe", "unsubscribe"}
      /\ b \in Requests /\ b.kind \notin {"subscribe", "unsubscribe"}
  <2>1. a.kind = "subscribe.stats" /\ b.kind = "unsubscribe.stats"
    BY DEF ToServer
  <2>2. a \in Requests /\ b \in Requests
    BY StatsRequestTyped DEF TypeOK
  <2> QED BY <2>1, <2>2
<1>4. up'[cur] = up[cur] \/ up'[cur] = up[cur] \o <<a>> \/ up'[cur] = up[cur] \o <<b>>
  BY <1>1 DEF SubscribeStats, UnsubscribeStats, Send, TypeOK
<1> HIDE DEF a, b
<1>5. up'[cur] = up[cur] \/ up'[cur] = Append(up[cur], a) \/ up'[cur] = Append(up[cur], b)
  BY <1>2, <1>3, <1>4
<1>6. EndsFor(up[cur], watching)
  BY <1>2 DEF PageInv
<1>7. EndsFor(up'[cur], watching) /\ (AsksFor(up[cur], watching) => AsksFor(up'[cur], watching))
  BY <1>2, <1>3, <1>5, <1>6, AsksAppend
<1>8. Coming' = Coming
  BY <1>1, ComingSame
<1>9. Linked' <=> Linked
  BY <1>1 DEF Linked, Asked
<1> QED BY <1>1, <1>2, <1>7, <1>8, <1>9, PageKept

LEMMA PageOnOpen ==
  ASSUME TypeOK, OnOpen
  PROVE  PageInv'
<1> SUFFICES ASSUME watching' \in Topics PROVE EndsFor(up'[cur'], watching') /\ AsksFor(up'[cur'], watching')
  BY DEF PageInv, Following
<1>1. cur' = cur /\ cur \in Peers /\ watching' = watching /\ watching \in Topics /\ watching # None
  BY LiveViewAssumption DEF OnOpen, TypeOK
<1> DEFINE m1 == ToServer("subscribe", watching, requests)
           m2 == ToServer("subscribe.stats", Stats, requests)
<1>2. m1 \in Requests /\ m1.kind = "subscribe" /\ m1.topic = watching
      /\ m2 \in Requests /\ m2.kind \notin {"subscribe", "unsubscribe"}
  <2>1. m1.kind = "subscribe" /\ m1.topic = watching /\ m2.kind = "subscribe.stats"
    BY DEF ToServer
  <2>2. m1 \in Requests /\ m2 \in Requests
    BY <1>1, RequestTyped, StatsRequestTyped DEF TypeOK
  <2> QED BY <2>1, <2>2
<1>3. up'[cur] = <<m1>> \o (IF stats.want \/ stats.pending THEN <<m2>> ELSE <<>>)
  BY <1>1 DEF OnOpen, TypeOK
<1> HIDE DEF m1, m2
<1> DEFINE one == Append(<<>>, m1)
<1>4. up'[cur] = one \/ up'[cur] = Append(one, m2)
  <2>1. up'[cur] = <<m1>> \o <<>> \/ up'[cur] = <<m1>> \o <<m2>>
    BY <1>3
  <2>2. <<m1>> \o <<>> = one /\ <<m1>> \o <<m2>> = Append(one, m2)
    BY <1>2
  <2> QED BY <2>1, <2>2
<1>5. one \in Seq(Requests) /\ AsksFor(one, watching) /\ EndsFor(one, watching)
  <2>1. <<>> \in Seq(Requests) /\ one \in Seq(Requests)
    BY <1>2
  <2> QED BY <1>2, <2>1, AsksAppend
<1> HIDE DEF one
<1>6. AsksFor(Append(one, m2), watching) /\ EndsFor(Append(one, m2), watching)
  BY <1>2, <1>5, AsksAppend
<1> QED BY <1>1, <1>4, <1>5, <1>6

LEMMA PageReconnect ==
  ASSUME TypeOK, PageInv, Reconnect
  PROVE  PageInv'
<1> SUFFICES ASSUME sock' = "open", watching' \in Topics, ~raced' PROVE PageInv'
  BY DEF PageInv, Following
<1>1. /\ sock = "open" /\ cur' = cur /\ UNCHANGED up
      /\ UNCHANGED <<service, backend, alone, log, pub, watching, view, down, tasks, context, raced>>
  BY DEF Reconnect, chosen, server, page
<1>2. Following /\ EndsFor(up[cur], watching)
  BY <1>1 DEF Following, PageInv
<1>3. Coming' = Coming
  BY <1>1, ComingSame
<1>4. Linked' <=> Linked
  BY <1>1 DEF Linked, Asked
<1> QED BY <1>1, <1>2, <1>3, <1>4, PageKept

\* What was coming has come: nothing changes.
LEMMA PageReceive ==
  ASSUME TypeOK, PageInv, Receive
  PROVE  PageInv'
<1> SUFFICES ASSUME sock' = "open", watching' \in Topics, ~raced' PROVE PageInv'
  BY DEF PageInv, Following
<1>1. /\ sock = "open" /\ cur' = cur /\ UNCHANGED up
      /\ UNCHANGED <<service, backend, alone, log, pub, watching, tasks, context, raced>>
  BY DEF Receive, chosen, server, link
<1>2. Following /\ EndsFor(up[cur], watching)
  BY <1>1 DEF Following, PageInv
<1>3. Coming' = Coming
  <2>1. /\ cur \in Peers /\ down[cur] # <<>> /\ down'[cur] = Tail(down[cur])
        /\ view' = MessageShown(service, watching, view, Head(down[cur]))
    BY ReceiveShows DEF TypeOK
  <2> QED BY <1>1, <2>1, AfterAllReceive DEF TypeOK, Coming
<1>4. Linked' <=> Linked
  BY <1>1 DEF Linked, Asked
<1> QED BY <1>1, <1>2, <1>3, <1>4, PageKept

\* Nothing but a history or an event changes what a page shows.
LEMMA StatsUnseen ==
  ASSUME NEW s, NEW w, NEW v, NEW m \in StatsMessages
  PROVE  MessageShown(s, w, v, m) = v /\ m \in Messages
BY DEF StatsMessages, MessageShown, Messages

LEMMA ComingSent ==
  ASSUME TypeOK, sock = "open", cur \in Peers, UNCHANGED <<service, watching, view, cur>>,
         NEW p \in Peers, NEW m \in Messages, down' = ToPage(p, <<m>>)
  PROVE  Coming' = IF p = cur THEN MessageShown(service, watching, Coming, m) ELSE Coming
<1>1. CASE p = cur
  <2>1. down' = [down EXCEPT ![p] = @ \o <<m>>]
    BY <1>1 DEF ToPage, Reachable
  <2>2. down[cur] \in Seq(Messages) /\ down'[cur] = down[cur] \o <<m>>
    BY <1>1, <2>1 DEF TypeOK
  <2>3. down'[cur] = Append(down[cur], m)
    BY <2>2
  <2> QED BY <1>1, <2>3, ComingNext
<1>2. CASE p # cur
  <2>1. down' = down
    BY <1>2 DEF ToPage, Reachable
  <2> QED BY <1>2, <2>1, ComingSame
<1> QED BY <1>1, <1>2

LEMMA ComingSnapshot ==
  ASSUME TypeOK, ViewInv, sock = "open", cur \in Peers, watching \in Topics,
         UNCHANGED <<service, watching, view, cur>>,
         NEW p \in Peers, NEW t \in Keys, NEW n \in Nat, t \in Topics => n <= Len(Script[t]),
         down' = ToPage(p, Snapshot(t, n))
  PROVE  Coming' = IF p = cur /\ t \in Topics THEN HistoryShown(service, watching, Coming, t, n)
                   ELSE Coming
<1>1. CASE t \in Topics
  <2> DEFINE m == [kind |-> "history", topic |-> t, n |-> n]
  <2>1. t # Stats /\ watching # None /\ m \in Messages
    BY <1>1, LiveViewAssumption DEF Messages, PageMessages
  <2>2. down' = ToPage(p, <<m>>)
    BY <2>1 DEF Snapshot
  <2>3. MessageShown(service, watching, Coming, m) = HistoryShown(service, watching, Coming, t, n)
    BY <2>1 DEF MessageShown
  <2> HIDE DEF m
  <2> QED BY <1>1, <2>1, <2>2, <2>3, ComingSent
<1>2. CASE t \notin Topics
  <2> DEFINE a == [kind |-> "initial", topic |-> t, n |-> n]
             b == [kind |-> "stats.subscribed", topic |-> t, n |-> 0]
  <2>1. t = Stats /\ a \in StatsMessages /\ b \in StatsMessages
    BY <1>2 DEF Keys, StatsMessages
  <2>2. down' = ToPage(p, <<a, b>>)
    BY <2>1 DEF Snapshot
  <2> HIDE DEF a, b
  <2>3. CASE p = cur
    <3>1. down' = [down EXCEPT ![p] = @ \o <<a, b>>]
      BY <2>2, <2>3 DEF ToPage, Reachable
    <3>2. down[cur] \in Seq(Messages) /\ down'[cur] = down[cur] \o <<a, b>>
          /\ a \in Messages /\ b \in Messages
      BY <2>1, <2>3, <3>1, StatsUnseen DEF TypeOK
    <3> DEFINE one == Append(down[cur], a)
    <3>3. down'[cur] = Append(one, b) /\ one \in Seq(Messages)
      <4>1. ASSUME NEW ms \in Seq(Messages) PROVE ms \o <<a, b>> = Append(Append(ms, a), b)
        BY <3>2
      <4> QED BY <3>2, <4>1
    <3>4. AfterAll(service, watching, view, one) = Coming
      BY <2>1, <3>2, AfterAllAppend, StatsUnseen DEF TypeOK, Coming
    <3> HIDE DEF one
    <3>5. AfterAll(service, watching, view, Append(one, b)) = AfterAll(service, watching, view, one)
      BY <2>1, <3>2, <3>3, AfterAllAppend, StatsUnseen DEF TypeOK
    <3>6. Coming' = AfterAll(service, watching, view, Append(one, b))
      BY <3>3 DEF Coming
    <3> QED BY <1>2, <3>4, <3>5, <3>6
  <2>4. CASE p # cur
    <3>1. down' = down
      BY <2>2, <2>4 DEF ToPage, Reachable
    <3> QED BY <2>4, <3>1, ComingSame
  <2> QED BY <2>3, <2>4
<1> QED BY <1>1, <1>2

\* A history puts the page in sync, if it comes after nothing that it does not have.
LEMMA HistoryInSync ==
  ASSUME NEW w \in Topics, NEW v \in Views, ViewFits("flows", w, v), NEW n \in 0 .. Len(Script[w])
  PROVE  LET x == HistoryShown("flows", w, v, w, n) IN
         /\ 1 .. n \subseteq x.seen /\ v.seen \subseteq x.seen
         /\ ~x.foreign /\ ~x.late =>
              v.seen \subseteq 1 .. n /\ x.seen = 1 .. n /\ x.state = ReduceFirst(Unseen, w, n)
<1> DEFINE x == HistoryShown("flows", w, v, w, n)
<1>0. n \in Nat /\ v.seen \subseteq Nat \ {0} /\ v.state \in States
  BY ScriptLength DEF Views
<1>1. x = [seen |-> v.seen \union 1 .. n, foreign |-> v.foreign \/ (w # w /\ n > 0),
           late |-> \E i \in v.seen : i > n, state |-> ReduceFirst(v.state, w, n)]
  BY DEF HistoryShown
<1> HIDE DEF x
<1>2. x.seen = v.seen \union 1 .. n /\ x.state = ReduceFirst(v.state, w, n)
      /\ (v.foreign => x.foreign) /\ (~x.late => \A i \in v.seen : ~(i > n))
  BY <1>1
<1>3. ASSUME ~x.foreign, ~x.late
      PROVE  v.seen \subseteq 1 .. n /\ x.seen = 1 .. n /\ x.state = ReduceFirst(Unseen, w, n)
  <2>1. v.seen \subseteq 1 .. n
    BY <1>0, <1>2, <1>3
  <2>2. Fits(v.state, v.seen, w)
    BY <1>2, <1>3 DEF ViewFits
  <2> QED BY <1>0, <1>2, <2>1, <2>2, ReducedFromAnywhere
<1> QED BY <1>2, <1>3 DEF x

\* What a message handler leaves alone.
LEMMA HandleFrame ==
  ASSUME TypeOK, NEW p \in Peers, Handle(p)
  PROVE  LET m == Head(up[p]) IN
         /\ m \in Requests /\ m.topic \in Keys /\ up[p] # <<>> /\ context[p].state = "open"
         /\ UNCHANGED <<service, backend, alone, log, pub, sock, cur, watching, view>>
         /\ up'[p] = Tail(up[p])
         /\ \A q \in Peers : q # p => up'[q] = up[q] /\ context'[q] = context[q]
         /\ \A t \in Keys : t # m.topic => (t \in context'[p].subs <=> t \in context[p].subs)
         /\ tasks \subseteq tasks'
         /\ \/ down' = down
            \/ down' = ToPage(p, Snapshot(m.topic, InHistory(m.topic)))
            \/ m.topic = Stats /\ \E d \in StatsMessages : down' = ToPage(p, <<d>>)
<1> DEFINE m == Head(up[p])
<1>0. m \in Requests /\ m.topic \in Keys /\ up[p] # <<>> /\ context[p].state = "open"
      /\ up' = [up EXCEPT ![p] = Tail(@)]
      /\ UNCHANGED <<service, backend, alone, log, pub, sock, cur, watching, view>>
  BY HandleKinds, RequestKinds DEF chosen, link, page
<1> HIDE DEF m
<1>1. up'[p] = Tail(up[p]) /\ \A q \in Peers : q # p => up'[q] = up[q]
  BY <1>0 DEF TypeOK
<1>2. \/ context' = [context EXCEPT ![p].subs = @ \union {m.topic}]
      \/ context' = [context EXCEPT ![p].subs = @ \ {m.topic}]
      \/ context' = context
  BY <1>0, HandleKinds, SubscribeWays DEF m, HandleUnsubscribe, server
<1>3. /\ \A q \in Peers : q # p => context'[q] = context[q]
      /\ \A t \in Keys : t # m.topic => (t \in context'[p].subs <=> t \in context[p].subs)
  BY <1>2 DEF TypeOK, Contexts
<1>4. tasks \subseteq tasks'
  BY <1>0, HandleKinds, SubscribeWays DEF m, HandleUnsubscribe, server
<1>5. \/ down' = down
      \/ down' = ToPage(p, Snapshot(m.topic, InHistory(m.topic)))
      \/ m.topic = Stats /\ \E d \in StatsMessages : down' = ToPage(p, <<d>>)
  <2>1. [kind |-> "stats.unsubscribed", topic |-> Stats, n |-> 0] \in StatsMessages
    BY DEF StatsMessages
  <2> QED BY <1>0, <2>1, HandleKinds, SubscribeWays DEF m, HandleUnsubscribe
<1> QED BY <1>0, <1>1, <1>3, <1>4, <1>5 DEF m

\* Of a message that is not about what the page watches, or of another peer.
LEMMA PageHandleOther ==
  ASSUME TypeOK, ViewInv, Following, PageInv, ~raced', NEW p \in Peers, Handle(p), cur \in Peers,
         p # cur \/ Head(up[p]).topic = Stats
  PROVE  PageInv'
<1> DEFINE m == Head(up[p])
<1>0. /\ m \in Requests /\ m.topic \in Keys /\ up[p] # <<>> /\ (p # cur \/ m.topic = Stats)
      /\ UNCHANGED <<service, backend, alone, log, pub, sock, cur, watching, view>>
      /\ up'[p] = Tail(up[p])
      /\ \A q \in Peers : q # p => up'[q] = up[q] /\ context'[q] = context[q]
      /\ \A t \in Keys : t # m.topic => (t \in context'[p].subs <=> t \in context[p].subs)
      /\ tasks \subseteq tasks'
      /\ \/ down' = down
         \/ down' = ToPage(p, Snapshot(m.topic, InHistory(m.topic)))
         \/ m.topic = Stats /\ \E d \in StatsMessages : down' = ToPage(p, <<d>>)
  BY HandleFrame
<1>1. up[cur] \in Seq(Requests) /\ sock = "open" /\ watching \in Topics /\ watching \in Keys
      /\ EndsFor(up[cur], watching) /\ watching # Stats /\ Stats \notin Topics
  BY LiveViewAssumption DEF TypeOK, Following, PageInv, Keys
<1>2. m.kind = "subscribe" => m.topic # Stats
  BY <1>0, <1>1, RequestKinds
<1> HIDE DEF m
<1>3. EndsFor(up'[cur], watching) /\ (AsksFor(up[cur], watching) => AsksFor(up'[cur], watching))
  <2>1. CASE p # cur
    BY <1>0, <1>1, <2>1
  <2>2. CASE p = cur
    <3>1. up[cur] # <<>> /\ up'[cur] = Tail(up[cur]) /\ Head(up[cur]) = m
          /\ ~(m.kind = "subscribe" /\ m.topic = watching)
      BY <1>0, <1>1, <2>2 DEF m
    <3> QED BY <1>1, <3>1, AsksTail
  <2> QED BY <2>1, <2>2
<1>4. Linked => Linked'
  BY <1>0, <1>1 DEF Linked, Asked
<1>5. Coming' = Coming
  <2>1. CASE down' = down
    BY <1>0, <2>1, ComingSame
  <2>2. CASE down' = ToPage(p, Snapshot(m.topic, InHistory(m.topic)))
    <3>1. /\ InHistory(m.topic) \in Nat
          /\ m.topic \in Topics => InHistory(m.topic) <= Len(Script[m.topic])
      BY <1>0, InHistoryTyped
    <3> QED BY <1>0, <1>1, <2>2, <3>1, ComingSnapshot
  <2>3. CASE m.topic = Stats /\ \E d \in StatsMessages : down' = ToPage(p, <<d>>)
    BY <1>0, <1>1, <2>3, ComingSent, StatsUnseen
  <2> QED BY <1>0, <2>1, <2>2, <2>3
<1> QED BY <1>0, <1>3, <1>4, <1>5, PageKept

\* The page's last word is handled: it gets the history, or a handler is at work that will send it.
LEMMA PageHandleSubscribe ==
  ASSUME TypeOK, LogInv, MemoryInv, GateInv, ViewInv, Following, ~raced', cur \in Peers, Handle(cur),
         Head(up[cur]).kind = "subscribe", Head(up[cur]).topic = watching
  PROVE  Linked' /\ Sees' /\ InSync'
<1> DEFINE m == Head(up[cur])
           t == watching
           n == InHistory(t)
<1>0. /\ m \in Requests /\ t \in Topics /\ t \in Keys /\ context[cur].state = "open"
      /\ HandleSubscribe(cur, m) /\ m.topic = t /\ sock = "open"
      /\ UNCHANGED <<service, backend, alone, log, pub, sock, cur, watching, view>>
  BY HandleFrame, HandleKinds DEF Following, Keys
<1>1. /\ n \in Nat /\ n <= Len(Script[t]) /\ log[t] \in Nat /\ \A i \in pub[t] : i \in 1 .. log[t]
      /\ (Within(t) => n = log[t]) /\ Len(Script[t]) \in Nat
  <2>1. n \in Nat /\ n <= Len(Script[t]) /\ Len(Script[t]) \in Nat
    BY <1>0, InHistoryTyped, ScriptLength
  <2>2. log[t] \in Nat /\ \A i \in pub[t] : i \in 1 .. log[t]
    BY <1>0 DEF TypeOK, LogInv
  <2>3. n = Least(log[t], HistoryLimit) /\ HistoryLimit \in Nat
    BY <1>0, LiveViewAssumption DEF InHistory
  <2>4. Within(t) => n = log[t]
    BY <2>2, <2>3 DEF Within, Least
  <2> QED BY <2>1, <2>2, <2>4
<1> HIDE DEF m, n
<1>2. Linked'
  BY <1>0, SubscribeTopic DEF Linked
<1>3. CASE backend = "redis"
  <2>1. \E pc \in {"subscribe", "read"} : Waiting(cur, t, m.n, pc) \in tasks'
    BY <1>0, <1>3, SubscribeWays
  <2>2. PICK k \in tasks' : k.p = cur /\ k.topic = t /\ k.pc # "send"
    BY <2>1 DEF Waiting
  <2>3. Mine(k)'
    BY <1>0, <2>2 DEF Mine
  <2> QED BY <1>2, <2>2, <2>3 DEF Sees, InSync
<1>4. CASE backend = "memory"
  <2>1. down' = ToPage(cur, Snapshot(t, n)) /\ tasks' = {}
    BY <1>0, <1>4, SubscribeWays DEF MemoryInv, n
  <2>2. Coming' = HistoryShown(service, t, Coming, t, n)
    BY <1>0, <1>1, <2>1, ComingSnapshot
  <2>3. Coming \in Views /\ ViewFits(service, t, Coming)
    BY <1>0, ComingTyped
  <2>4. Within(t)' <=> Within(t)
    BY <1>0 DEF Within
  <2>5. 1 .. n \subseteq Coming'.seen
    BY <2>2 DEF HistoryShown
  <2>6. Within(t) => \A i \in pub[t] : i \in 1 .. n
    BY <1>1
  <2>7. Sees'
    BY <1>0, <2>4, <2>5, <2>6 DEF Sees
  <2>8. InSync'
    <3> SUFFICES ASSUME Within(t), service = "flows", ~Coming'.foreign, ~Coming'.late
                 PROVE  \E l \in 0 .. log[t] :
                          /\ \A i \in pub[t] : i <= l
                          /\ Coming'.seen = 1 .. l /\ Coming'.state = ReduceFirst(Unseen, t, l)
      BY <1>0, <2>4 DEF InSync
    <3>1. n = log[t] /\ n \in 0 .. Len(Script[t]) /\ n \in 0 .. log[t] /\ \A i \in pub[t] : i <= n
      BY <1>1
    <3>2. Coming'.seen = 1 .. n /\ Coming'.state = ReduceFirst(Unseen, t, n)
      BY <1>0, <2>2, <2>3, <3>1, HistoryInSync
    <3> QED BY <3>1, <3>2
  <2> QED BY <1>2, <2>7, <2>8
<1> QED BY <1>3, <1>4 DEF TypeOK

LEMMA PageHandle ==
  ASSUME TypeOK, LogInv, MemoryInv, GateInv, ViewInv, PageInv, NEW p \in Peers, Handle(p)
  PROVE  PageInv'
<1> SUFFICES ASSUME sock' = "open", watching' \in Topics, ~raced' PROVE PageInv'
  BY DEF PageInv, Following
<1>0. /\ UNCHANGED <<sock, cur, watching>> /\ Head(up[p]) \in Requests /\ up[p] # <<>>
      /\ up'[p] = Tail(up[p])
  BY HandleFrame
<1>1. ~raced
  BY HandleKinds, SubscribeWays DEF HandleUnsubscribe, server
<1>2. Following /\ cur \in Peers /\ EndsFor(up[cur], watching) /\ up[cur] \in Seq(Requests)
  BY <1>0, <1>1 DEF Following, PageInv, TypeOK
<1>3. CASE p # cur \/ Head(up[p]).topic = Stats
  BY <1>2, <1>3, PageHandleOther
<1>4. CASE p = cur /\ Head(up[p]).topic # Stats
  <2>1. Head(up[cur]).kind \in {"subscribe", "unsubscribe"}
    BY <1>0, <1>4, RequestKinds DEF Requests
  <2>2. EndsFor(up'[cur], watching)
    BY <1>0, <1>2, <1>4, AsksTail
  <2>3. ASSUME ~AsksFor(up'[cur], watching) PROVE Linked' /\ Sees' /\ InSync'
    <3>1. AsksFor(up[cur], watching)
      BY <1>0, <1>2, <1>4, <2>1, AsksTail
    <3>2. Head(up[cur]).kind = "subscribe" /\ Head(up[cur]).topic = watching
      BY <1>0, <1>2, <1>4, <2>3, <3>1, AsksTail
    <3> QED BY <1>2, <1>4, <3>2, PageHandleSubscribe
  <2> QED BY <1>0, <2>2, <2>3 DEF PageInv
<1> QED BY <1>3, <1>4

LEMMA PageClosePeer ==
  ASSUME TypeOK, PageInv, NEW p \in Peers, ClosePeer(p)
  PROVE  PageInv'
<1> SUFFICES ASSUME sock' = "open", watching' \in Topics, ~raced' PROVE PageInv'
  BY DEF PageInv, Following
<1>1. /\ UNCHANGED <<service, backend, alone, log, pub, sock, cur, watching, view, tasks, up, down>>
      /\ ~raced /\ ~(p = cur /\ sock = "open")
      /\ context' = [context EXCEPT ![p] = [state |-> "closed", subs |-> {}]]
  BY DEF ClosePeer, Reachable, chosen, link, page
<1>2. Following /\ cur \in Peers /\ EndsFor(up[cur], watching) /\ p # cur
  BY <1>1 DEF Following, PageInv, TypeOK
<1>3. context'[cur] = context[cur]
  BY <1>1, <1>2 DEF TypeOK
<1>4. Linked' <=> Linked
  BY <1>1, <1>3 DEF Linked, Asked
<1>5. Coming' = Coming
  BY <1>1, ComingSame
<1> QED BY <1>1, <1>2, <1>4, <1>5, PageKept

LEMMA PageSubscribed ==
  ASSUME TypeOK, PeerInv, PageInv, NEW k \in tasks, Subscribed(k)
  PROVE  PageInv'
<1> SUFFICES ASSUME sock' = "open", watching' \in Topics, ~raced' PROVE PageInv'
  BY DEF PageInv, Following
<1> DEFINE after == [k EXCEPT !.pc = "read"]
<1>1. /\ UNCHANGED <<service, backend, alone, log, pub, sock, cur, watching, view, up, down, raced>>
      /\ tasks' = (tasks \ {k}) \union {after} /\ k.pc = "subscribe"
      /\ context' = IF context[k.p].state = "open"
                    THEN [context EXCEPT ![k.p].subs = @ \union {k.topic}] ELSE context
  BY DEF Subscribed, chosen, link, page
<1>2. /\ k.p \in Peers /\ k.topic \in Keys /\ after.p = k.p /\ after.topic = k.topic /\ after.pc = "read"
  BY DEF TypeOK, Tasks
<1>3. /\ Following /\ cur \in Peers /\ EndsFor(up[cur], watching) /\ watching \in Keys
      /\ context[cur].state = "open"
  BY <1>1 DEF Following, PageInv, PeerInv, TypeOK, Keys
<1> HIDE DEF after
<1>4. context[cur].subs \subseteq context'[cur].subs /\ (Mine(k) => watching \in context'[cur].subs)
  <2>1. CASE k.p = cur
    BY <1>1, <1>2, <1>3, <2>1 DEF TypeOK, Contexts, Mine
  <2>2. CASE k.p # cur
    BY <1>1, <1>2, <1>3, <2>2 DEF TypeOK, Contexts, Mine
  <2> QED BY <2>1, <2>2
<1>5. Linked => Linked'
  <2>1. CASE Mine(k)
    BY <1>1, <1>4, <2>1 DEF Linked
  <2>2. CASE ~Mine(k)
    <3>1. Asked(cur, watching) => Asked(cur, watching)'
      BY <1>1, <2>2 DEF Asked, Mine
    <3> QED BY <1>1, <1>4, <3>1 DEF Linked
  <2> QED BY <2>1, <2>2
<1>6. Coming' = Coming
  BY <1>1, ComingSame
<1>7. after \in tasks' /\ after.pc # "send" /\ (Mine(k) => Mine(after))
      /\ \A j \in tasks : j # k => j \in tasks'
  BY <1>1, <1>2 DEF Mine
<1> QED BY <1>1, <1>3, <1>5, <1>6, <1>7, PageKept

LEMMA PageReadHistory ==
  ASSUME TypeOK, LogInv, PageInv, NEW k \in tasks, ReadHistory(k)
  PROVE  PageInv'
<1> SUFFICES ASSUME sock' = "open", watching' \in Topics, ~raced' PROVE PageInv'
  BY DEF PageInv, Following
<1> DEFINE n == InHistory(k.topic)
           after == [k EXCEPT !.pc = "send", !.got = n]
<1>1. /\ UNCHANGED <<service, backend, alone, log, pub, sock, cur, watching, view, up, down, raced, context>>
      /\ tasks' = (tasks \ {k}) \union {after} /\ k.pc = "read"
  BY DEF ReadHistory, chosen, link, page
<1>2. after.p = k.p /\ after.topic = k.topic /\ after.got = n
  BY DEF TypeOK, Tasks
<1>3. Following /\ EndsFor(up[cur], watching) /\ watching \in Keys /\ watching # Stats
  BY <1>1, LiveViewAssumption DEF Following, PageInv, TypeOK, Keys
<1>4. \A i \in pub[watching] : Within(watching) /\ Mine(k) => i <= n
  <2>1. log[watching] \in Nat /\ \A i \in pub[watching] : i \in 1 .. log[watching]
    BY <1>3 DEF TypeOK, LogInv
  <2>2. Mine(k) => n = Least(log[watching], HistoryLimit)
    BY <1>3 DEF Mine, InHistory
  <2>3. Within(watching) /\ Mine(k) => n = log[watching]
    BY <2>1, <2>2, LiveViewAssumption DEF Within, Least
  <2> QED BY <2>1, <2>3
<1> HIDE DEF after, n
<1>5. Linked => Linked'
  <2>1. \A j \in tasks : j.pc = "subscribe" => j \in tasks'
    BY <1>1
  <2> QED BY <1>1, <2>1 DEF Linked, Asked
<1>6. Coming' = Coming
  BY <1>1, ComingSame
<1>7. after \in tasks' /\ (Mine(k) => Mine(after)) /\ \A j \in tasks : j # k => j \in tasks'
  BY <1>1, <1>2 DEF Mine
<1>8. ASSUME NEW j \in tasks, NEW i \in pub[watching], Within(watching), Mine(j),
             j.pc = "send" => i <= j.got
      PROVE  \E l \in tasks' : Mine(l) /\ (l.pc = "send" => i <= l.got)
  BY <1>2, <1>4, <1>7, <1>8
<1> QED BY <1>1, <1>3, <1>5, <1>6, <1>7, <1>8, PageKept

\* A history is sent. Events that were published after it was read are in the view
\* already: if they were, it is late, or the page is as far as the log.
LEMMA PageSendHistory ==
  ASSUME TypeOK, LogInv, ReadInv, MemoryInv, ViewInv, PageInv, NEW k \in tasks, SendHistory(k)
  PROVE  PageInv'
<1> SUFFICES ASSUME sock' = "open", watching' \in Topics, ~raced' PROVE PageInv'
  BY DEF PageInv, Following
<1> DEFINE w == watching
           n == k.got
<1>1. /\ UNCHANGED <<service, backend, alone, log, pub, sock, cur, watching, view, up, raced, context>>
      /\ tasks' = tasks \ {k} /\ k.pc = "send" /\ down' = ToPage(k.p, Snapshot(k.topic, n))
  BY DEF SendHistory, chosen, link, page
<1>2. /\ k.p \in Peers /\ k.topic \in Keys /\ n \in Nat
      /\ k.topic \in Topics => n <= Len(Script[k.topic])
  BY DEF TypeOK, Tasks
<1>3. /\ Following /\ EndsFor(up[cur], w) /\ w \in Topics /\ w \in Keys /\ w # Stats /\ sock = "open"
      /\ cur \in Peers /\ backend # "memory"
  BY <1>1, LiveViewAssumption DEF Following, PageInv, MemoryInv, TypeOK, Keys
<1>4. Coming' = IF k.p = cur /\ k.topic \in Topics
                THEN HistoryShown(service, w, Coming, k.topic, n) ELSE Coming
  BY <1>1, <1>2, <1>3, ComingSnapshot
<1>5. Linked => Linked'
  <2>1. \A j \in tasks : j.pc = "subscribe" => j \in tasks'
    BY <1>1
  <2> QED BY <1>1, <2>1 DEF Linked, Asked
<1>6. \A j \in tasks : j # k => j \in tasks'
  BY <1>1
<1>7. CASE ~(k.p = cur /\ k.topic \in Topics)
  <2>1. ~Mine(k)
    BY <1>3, <1>7 DEF Mine
  <2>2. \A j \in tasks : Mine(j) => j \in tasks'
    BY <1>6, <2>1
  <2> QED BY <1>1, <1>3, <1>4, <1>5, <1>7, <2>2, PageKept
<1>8. CASE k.p = cur /\ k.topic \in Topics
  <2> SUFFICES ASSUME ~AsksFor(up[cur], w) PROVE Sees' /\ InSync'
    BY <1>1, <1>3, <1>5 DEF PageInv
  <2>0. Sees /\ InSync /\ (\A j : Mine(j)' <=> Mine(j)) /\ (Within(w)' <=> Within(w))
    BY <1>1, <1>3 DEF PageInv, Mine, Within
  <2>1. /\ Coming \in Views /\ ViewFits(service, w, Coming)
        /\ Coming' = HistoryShown(service, w, Coming, k.topic, n)
    BY <1>3, <1>4, <1>8, ComingTyped
  <2>2. service = "flows" => Coming.seen \subseteq Coming'.seen
    BY <2>1 DEF HistoryShown
  <2>3. k.topic = w => 1 .. n \subseteq Coming'.seen
    BY <2>1 DEF HistoryShown
  <2>4. Sees'
    <3> SUFFICES ASSUME Within(w), service = "flows", NEW i \in pub[w], Published(w, i),
                        i \notin Coming'.seen
                 PROVE  \E j \in tasks' : Mine(j) /\ (j.pc = "send" => i <= j.got)
      BY <1>1, <1>3, <2>0 DEF Sees
    <3>1. PICK j \in tasks : Mine(j) /\ (j.pc = "send" => i <= j.got)
      BY <2>0, <2>2 DEF Sees
    <3>2. i \in 1 .. log[w] /\ log[w] \in Nat
      BY <1>3 DEF TypeOK, LogInv
    <3>3. j # k
      <4>1. Mine(k) /\ i \in 1 .. n => i \in Coming'.seen
        BY <2>3 DEF Mine
      <4> QED BY <1>1, <1>2, <3>1, <3>2, <4>1
    <3> QED BY <1>6, <3>1, <3>3
  <2>5. InSync'
    <3> SUFFICES ASSUME Within(w), service = "flows", alone, \A i \in 1 .. log[w] : Published(w, i),
                        \A j \in tasks' : ~Mine(j), ~Coming'.foreign, ~Coming'.late
                 PROVE  \E m \in 0 .. log[w] :
                          /\ \A i \in pub[w] : i <= m
                          /\ Coming'.seen = 1 .. m /\ Coming'.state = ReduceFirst(Unseen, w, m)
      BY <1>1, <2>0 DEF InSync
    <3>1. CASE k.topic = w
      <4>1. Coming.seen \subseteq 1 .. n /\ Coming'.seen = 1 .. n
            /\ Coming'.state = ReduceFirst(Unseen, w, n)
        <5>1. n \in 0 .. Len(Script[w])
          BY <1>2, <1>3, <3>1, ScriptLength
        <5>2. Coming' = HistoryShown("flows", w, Coming, w, n) /\ ViewFits("flows", w, Coming)
          BY <2>1, <3>1
        <5> QED BY <1>3, <2>1, <5>1, <5>2, HistoryInSync
      <4>2. log[w] \in Nat /\ \A i \in pub[w] : i \in 1 .. log[w]
        BY <1>3 DEF TypeOK, LogInv
      <4>3. \A i \in pub[w] : i <= n
        <5> SUFFICES ASSUME NEW i \in pub[w] PROVE i \in Coming.seen \/ i <= n
          BY <1>2, <4>1
        <5>1. Published(w, i)
          BY <4>2
        <5>2. i \in Coming.seen \/ \E j \in tasks : Mine(j) /\ (j.pc = "send" => i <= j.got)
          BY <2>0, <5>1 DEF Sees
        <5> QED BY <1>1, <1>6, <5>2
      <4>4. n \in 0 .. log[w]
        BY <1>2, <3>1, <4>2 DEF ReadInv
      <4> QED BY <4>1, <4>3, <4>4
    <3>2. CASE k.topic # w
      <4> DEFINE v == Coming
      <4>1. \A j \in tasks : ~Mine(j)
        BY <1>6, <3>2 DEF Mine
      <4>2. Coming' = [seen |-> v.seen, foreign |-> v.foreign \/ n > 0,
                       late |-> \E i \in v.seen : i > n, state |-> ReduceFirst(v.state, k.topic, n)]
        BY <2>1, <3>2 DEF HistoryShown
      <4>3. v.state \in States /\ v.seen \subseteq Nat \ {0} /\ (v.late => v.seen # {})
        BY <2>1 DEF Views, ViewFits
      <4> HIDE DEF v
      <4>4. ~v.foreign /\ n = 0 /\ (\A i \in v.seen : ~(i > 0)) /\ Coming'.seen = v.seen
            /\ Coming'.state = ReduceFirst(v.state, k.topic, n)
        <5>1. /\ Coming'.seen = v.seen /\ Coming'.state = ReduceFirst(v.state, k.topic, n)
              /\ Coming'.foreign = (v.foreign \/ n > 0)
              /\ Coming'.late = \E i \in v.seen : i > n
          BY <4>2, Zenon
        <5>2. ~v.foreign /\ ~(n > 0) /\ (\A i \in v.seen : ~(i > n))
          BY <5>1, Zenon
        <5>3. n = 0
          BY <1>2, <5>2
        <5> QED BY <5>1, <5>2, <5>3
      <4>5. ~v.late /\ Coming'.state = v.state
        <5>1. v.seen = {}
          BY <4>3, <4>4
        <5> QED BY <1>8, <4>3, <4>4, <5>1, ReduceFirstNone
      <4> QED BY <2>0, <4>1, <4>4, <4>5 DEF InSync, v
    <3> QED BY <3>1, <3>2
  <2> QED BY <2>4, <2>5
<1> QED BY <1>7, <1>8

LEMMA PageAppend ==
  ASSUME TypeOK, PageInv, NEW t \in Keys, AppendEvent(t)
  PROVE  PageInv'
<1> SUFFICES ASSUME sock' = "open", watching' \in Topics, ~raced' PROVE PageInv'
  BY DEF PageInv, Following
<1>1. /\ UNCHANGED <<service, backend, alone, pub, sock, cur, watching, view, tasks, up, down, raced, context>>
      /\ log' = [log EXCEPT ![t] = @ + 1]
  BY DEF AppendEvent, chosen, server, link, page
<1>2. Following /\ watching \in Keys /\ log \in [Keys -> Nat] /\ EndsFor(up[cur], watching)
  BY <1>1 DEF Following, PageInv, TypeOK, Keys
<1>3. Coming' = Coming
  BY <1>1, ComingSame
<1>4. Linked' <=> Linked
  BY <1>1 DEF Linked, Asked
<1>5. CASE t # watching
  <2>1. log'[watching] = log[watching] /\ pub'[watching] = pub[watching]
    BY <1>1, <1>2, <1>5
  <2> QED BY <1>1, <1>2, <1>3, <1>4, <2>1, PageKept
<1>6. CASE t = watching
  <2>1. /\ log'[watching] = log[watching] + 1 /\ log[watching] \in Nat
        /\ pub'[watching] = pub[watching]
    BY <1>1, <1>2, <1>6
  <2>2. Within(watching)' => Within(watching)
    BY <1>1, <2>1, LiveViewAssumption DEF Within
  <2>3. \A k : Mine(k)' <=> Mine(k)
    BY <1>1 DEF Mine
  <2>4. Sees => Sees'
    BY <1>1, <1>3, <2>1, <2>2, <2>3 DEF Sees
  <2>5. InSync => InSync'
    <3>1. \A i \in 1 .. log[watching] : i \in 1 .. log'[watching]
      BY <2>1
    <3>2. \A m \in 0 .. log[watching] : m \in 0 .. log'[watching]
      BY <2>1
    <3> QED BY <1>1, <1>3, <2>2, <2>3, <3>1, <3>2 DEF InSync
  <2> QED BY <1>1, <1>2, <1>4, <2>4, <2>5 DEF PageInv
<1> QED BY <1>5, <1>6

\* A handler of the page's own for the topic, or none: one event is on its way to it, or none.
LEMMA ComingDelivered ==
  ASSUME TypeOK, GateInv, Following, cur \in Peers, UNCHANGED <<service, watching, view, cur>>,
         NEW t \in Keys, NEW kind, NEW i, Deliver(t, kind, i),
         NEW m \in Messages, m = [kind |-> kind, topic |-> t, n |-> i]
  PROVE  Coming' = IF Handles(t)[cur] = 1 THEN MessageShown(service, watching, Coming, m) ELSE Coming
<1> DEFINE c == Handles(t)[cur]
<1>1. c \in {0, 1} /\ (c = 1 => gateway[t].live) /\ cur # 0 /\ sock = "open"
  BY DEF Following, GateInv, TopicOK, Handles, Peers
<1>2. down' = ToPage(cur, [j \in 1 .. c |-> m])
  BY <1>1 DEF Deliver, Handles
<1> HIDE DEF c
<1>3. CASE c = 1
  <2>1. [j \in 1 .. 1 |-> m] = <<m>>
    OBVIOUS
  <2>2. down' = ToPage(cur, <<m>>)
    BY <1>2, <1>3, <2>1
  <2> QED BY <1>1, <1>3, <2>2, ComingSent DEF c
<1>4. CASE c = 0
  <2>1. [j \in 1 .. 0 |-> m] = <<>>
    OBVIOUS
  <2>2. down' = ToPage(cur, <<>>)
    BY <1>2, <1>4, <2>1
  <2>3. down' = [down EXCEPT ![cur] = @ \o <<>>]
    BY <1>1, <2>2 DEF ToPage, Reachable
  <2>4. down[cur] \in Seq(Messages) /\ down'[cur] = down[cur] \o <<>>
    BY <2>3 DEF TypeOK
  <2>5. down'[cur] = down[cur]
    BY <2>4
  <2>6. c # 1
    BY <1>4
  <2> QED BY <2>5, <2>6, ComingSame DEF c
<1> QED BY <1>1, <1>3, <1>4

\* An event of what the page watches is published: it is on its way to the page, or a
\* handler that has yet to read will find it.
LEMMA PagePublish ==
  ASSUME TypeOK, LogInv, GateInv, ViewInv, PageInv, NEW t \in Keys,
         NEW i \in 1 .. log[t], PublishStep(t, i)
  PROVE  PageInv'
<1> SUFFICES ASSUME sock' = "open", watching' \in Topics, ~raced' PROVE PageInv'
  BY DEF PageInv, Following
<1> DEFINE w == watching
<1>1. /\ UNCHANGED <<service, backend, alone, log, sock, cur, watching, view, tasks, up, raced, context>>
      /\ pub' = [pub EXCEPT ![t] = @ \union {i}] /\ i \notin pub[t]
  BY DEF PublishStep, Publish, chosen, server, link, page
<1>2. /\ Following /\ cur \in Peers /\ w \in Topics /\ w \in Keys /\ w # Stats /\ w # None
      /\ EndsFor(up[cur], w)
  BY <1>1, LiveViewAssumption DEF Following, PageInv, TypeOK, Keys
<1>3. /\ pub'[t] = pub[t] \union {i} /\ i \in Nat \ {0} /\ log[t] \in Nat /\ i <= log[t]
      /\ (t \in Topics => i <= Len(Script[t]))
      /\ \A r \in Keys : r # t => pub'[r] = pub[r]
  <2>1. log[t] \in Nat /\ (t \in Topics => log[t] <= Len(Script[t])) /\ pub \in [Keys -> SUBSET Nat]
    BY DEF TypeOK
  <2> QED BY <1>1, <2>1, ScriptLength
<1>4. Linked' <=> Linked
  BY <1>1 DEF Linked, Asked
<1>5. \A k : Mine(k)' <=> Mine(k)
  BY <1>1 DEF Mine
<1>6. Within(w)' <=> Within(w)
  BY <1>1 DEF Within
<1> SUFFICES ASSUME ~AsksFor(up[cur], w) PROVE Sees' /\ InSync'
  BY <1>1, <1>2, <1>4 DEF PageInv
<1>7. Linked /\ Sees /\ InSync
  BY <1>2 DEF PageInv
<1>8. Coming \in Views
  BY <1>2, ComingTyped
<1>9. CASE Coming' = Coming /\ t # w
  <2>1. pub'[w] = pub[w]
    BY <1>2, <1>3, <1>9
  <2> QED BY <1>1, <1>5, <1>6, <1>7, <1>9, <2>1 DEF Sees, InSync
<1>10. CASE t \in Topics /\ Deliver(t, "event", i)
  <2> DEFINE m == [kind |-> "event", topic |-> t, n |-> i]
  <2>1. m \in Messages
    BY <1>3, <1>10 DEF Messages, PageMessages
  <2>2. m = [kind |-> "event", topic |-> t, n |-> i]
    BY <1>3
  <2>3. MessageShown(service, w, Coming, m) = EventShown(service, w, Coming, t, i)
    BY <1>2 DEF MessageShown
  <2> HIDE DEF m
  <2>4. Coming' = IF Handles(t)[cur] = 1 THEN EventShown(service, w, Coming, t, i) ELSE Coming
    BY <1>1, <1>2, <1>10, <2>1, <2>2, <2>3, ComingDelivered
  <2>5. CASE t # w
    <3>1. pub'[w] = pub[w]
      BY <1>2, <1>3, <2>5
    <3>2. Coming' = Coming \/ (Coming'.seen = Coming.seen /\ Coming'.foreign)
      BY <2>4, <2>5 DEF EventShown
    <3>3. Sees'
      BY <1>1, <1>5, <1>6, <1>7, <3>1, <3>2 DEF Sees
    <3>4. InSync'
      BY <1>1, <1>5, <1>6, <1>7, <3>1, <3>2 DEF InSync
    <3> QED BY <3>3, <3>4
  <2>6. CASE t = w
    <3>1. (\A k \in tasks : Mine(k) => k.pc = "send") => Coming' = EventShown(service, w, Coming, w, i)
      <4> SUFFICES ASSUME \A k \in tasks : Mine(k) => k.pc = "send" PROVE Handles(w)[cur] = 1
        BY <2>4, <2>6
      <4>1. ~Asked(cur, w)
        BY DEF Asked, Mine
      <4> QED BY <1>2, <1>7, <4>1 DEF Linked, GateInv, TopicOK, Following
    <3>2. /\ Coming' = Coming \/ Coming' = EventShown(service, w, Coming, w, i)
          /\ Coming.seen \subseteq Coming'.seen
      BY <2>4, <2>6 DEF EventShown
    <3>3. Sees'
      <4> SUFFICES ASSUME Within(w), service = "flows" \/ backend = "memory",
                          NEW j \in pub'[w], Published(w, j), j \notin Coming'.seen
                   PROVE  \E k \in tasks : Mine(k) /\ (k.pc = "send" => j <= k.got)
        BY <1>1, <1>5, <1>6 DEF Sees
      <4>1. CASE j = i
        <5>1. Coming' = EventShown(service, w, Coming, w, i) => i \in Coming'.seen
          BY DEF EventShown
        <5> QED BY <3>1, <4>1, <5>1
      <4>2. CASE j # i
        <5>1. j \in pub[w] /\ j \notin Coming.seen
          BY <1>3, <2>6, <3>2, <4>2
        <5> QED BY <1>7, <5>1 DEF Sees
      <4> QED BY <4>1, <4>2
    <3>4. InSync'
      <4> SUFFICES ASSUME Within(w), service = "flows", alone, \A j \in 1 .. log[w] : Published(w, j),
                          \A k \in tasks : ~Mine(k), ~Coming'.foreign, ~Coming'.late
                   PROVE  /\ i \in 0 .. log[w] /\ \A j \in pub'[w] : j <= i
                          /\ Coming'.seen = 1 .. i /\ Coming'.state = ReduceFirst(Unseen, w, i)
        BY <1>1, <1>5, <1>6 DEF InSync
      <4> DEFINE v == Coming
      <4>1. Coming' = EventShown("flows", w, v, w, i)
        BY <3>1
      <4>2. Coming'.seen = v.seen \union {i} /\ Coming'.state = Reduce(v.state, Script[w][i])
        BY <4>1 DEF EventShown
      <4>3. Coming'.foreign = (v.foreign \/ w # w) /\ Coming'.late = v.late
        BY <4>1 DEF EventShown
      <4>4. ~v.foreign /\ ~v.late
        BY <4>3, Zenon
      <4>5. PICK l \in 0 .. log[w] : /\ \A j \in pub[w] : j <= l
                                     /\ v.seen = 1 .. l /\ v.state = ReduceFirst(Unseen, w, l)
        BY <1>7, <4>4 DEF InSync
      <4> HIDE DEF v
      \* What is published last is the last of the log, and it was not published.
      <4>6. /\ log[w] = i /\ i \in 1 .. Len(Script[w]) /\ Len(Script[w]) \in Nat
            /\ i \in 0 .. log[w] /\ \A j \in pub'[w] : j <= i
        <5>1. i \in 1 .. log[w] /\ log[w] \in Nat /\ i <= Len(Script[w]) /\ Len(Script[w]) \in Nat
          BY <1>2, <1>3, <2>6, ScriptLength
        <5>2. i < log[w] => i \in pub[w]
          BY <1>2, <2>6, <5>1 DEF LogInv
        <5>3. log[w] = i
          BY <1>1, <2>6, <5>1, <5>2
        <5>4. \A j \in pub'[w] : j = i \/ j \in 1 .. log[w]
          BY <1>2, <1>3, <2>6 DEF LogInv
        <5> QED BY <5>1, <5>3, <5>4
      <4>7. l = i \/ l = i - 1
        <5>1. i - 1 \in 1 .. log[w] => i - 1 \in pub[w]
          BY <1>2, <4>6 DEF LogInv
        <5> QED BY <4>5, <4>6, <5>1
      <4>8. CASE l = i - 1
        <5>1. l \in 0 .. Len(Script[w]) /\ l < Len(Script[w]) /\ l + 1 = i
          BY <4>6, <4>8
        <5>2. ReduceFirst(Unseen, w, l + 1) = Reduce(ReduceFirst(Unseen, w, l), Script[w][l + 1])
          BY <1>2, <5>1, UnseenTyped, ReduceFirstNext
        <5>3. 1 .. l \union {i} = 1 .. i
          BY <4>6, <4>8
        <5> QED BY <4>2, <4>5, <4>6, <5>1, <5>2, <5>3
      <4>9. CASE l = i
        <5>1. 1 .. i \union {i} = 1 .. i
          BY <4>6
        <5>2. Script[w][i] \in EventTypes
          BY <1>2, <4>6, ScriptTyped
        <5>3. Reduce(ReduceFirst(Unseen, w, i), Script[w][i]) = ReduceFirst(Unseen, w, i)
          <6>1. i - 1 \in 0 .. Len(Script[w]) /\ i - 1 < Len(Script[w]) /\ (i - 1) + 1 = i
            BY <4>6
          <6> DEFINE x == ReduceFirst(Unseen, w, i - 1)
          <6>2. x \in States
            BY <1>2, <6>1, UnseenTyped, ReduceFirstTyped
          <6>3. ReduceFirst(Unseen, w, (i - 1) + 1) = Reduce(x, Script[w][(i - 1) + 1])
            BY <1>2, <6>1, UnseenTyped, ReduceFirstNext
          <6> HIDE DEF x
          <6> QED BY <5>2, <6>1, <6>2, <6>3, ReduceTwice
        <5> QED BY <4>2, <4>5, <4>6, <4>9, <5>1, <5>3
      <4> QED BY <4>7, <4>8, <4>9
    <3> QED BY <3>3, <3>4
  <2> QED BY <2>5, <2>6
<1>11. CASE service = "flows" /\ t \in Topics /\ ~Published(t, i) /\ UNCHANGED down
  <2>1. Coming' = Coming
    BY <1>1, <1>11, ComingSame
  <2>2. CASE t = w
    <3>1. /\ ~Published(w, i) /\ i \in 1 .. log[w]
          /\ \A j \in pub'[w] : j = i \/ j \in pub[w]
      BY <1>3, <1>11, <2>2
    <3>2. Sees'
      BY <1>1, <1>5, <1>6, <1>7, <2>1, <3>1 DEF Sees
    <3>3. InSync'
      BY <1>1, <3>1 DEF InSync
    <3> QED BY <3>2, <3>3
  <2> QED BY <1>9, <2>1, <2>2
<1>12. CASE t = Stats /\ Deliver(t, "update", i)
  <2> DEFINE m == [kind |-> "update", topic |-> t, n |-> i]
  <2>1. m \in StatsMessages
    BY <1>3, <1>12 DEF StatsMessages
  <2> HIDE DEF m
  <2>2. MessageShown(service, w, Coming, m) = Coming /\ m \in Messages
    BY <2>1, StatsUnseen
  <2>3. m = [kind |-> "update", topic |-> t, n |-> i]
    BY DEF m
  <2>4. Coming' = Coming
    BY <1>1, <1>2, <1>12, <2>2, <2>3, ComingDelivered
  <2> QED BY <1>2, <1>9, <1>12, <2>4
<1> QED BY <1>10, <1>11, <1>12 DEF PublishStep

LEMMA InitPageInv == Init => PageInv /\ ReadInv
BY DEF Init, PageInv, Following, None, ReadInv

LEMMA NextPageInv ==
  ASSUME TypeOK, LogInv, ReadInv, PeerInv, MemoryInv, GateInv, ViewInv, PageInv, Next
  PROVE  PageInv'
<1>1. CASE Unsubscribe
  <2>1. watching' \notin Topics
    BY <1>1, LiveViewAssumption DEF Unsubscribe
  <2> QED BY <2>1 DEF PageInv, Following
<1>2. CASE Drop \/ Restart
  <2>1. sock' = "closed"
    BY <1>2, CloseTyped DEF Drop, Restart
  <2> QED BY <2>1 DEF PageInv, Following
<1>3. CASE \E t \in Topics : Subscribe(t)
  BY <1>3, PageSubscribe
<1>4. CASE SubscribeStats \/ UnsubscribeStats
  BY <1>4, PageStats
<1>5. CASE OnOpen \/ Reconnect \/ Receive
  BY <1>5, PageOnOpen, PageReconnect, PageReceive
<1>6. CASE \E p \in Peers : Handle(p) \/ ClosePeer(p)
  BY <1>6, PageHandle, PageClosePeer
<1>7. CASE \E k \in tasks : Subscribed(k) \/ ReadHistory(k) \/ SendHistory(k)
  BY <1>7, PageSubscribed, PageReadHistory, PageSendHistory
<1>8. CASE \E t \in Keys : AppendEvent(t) \/ \E i \in 1 .. log[t] : PublishStep(t, i)
  BY <1>8, PageAppend, PagePublish
<1> QED BY <1>1, <1>2, <1>3, <1>4, <1>5, <1>6, <1>7, <1>8, StepKinds

-----------------------------------------------------------------------------
LEMMA InitIInv == Init => IInv
BY InitTypeOK, InitLogInv, InitPeerInv, InitGateInv, InitViewInv, InitPageInv DEF IInv

LEMMA NextIInv ==
  ASSUME IInv, [Next]_vars
  PROVE  IInv'
<1>1. CASE Next
  <2>1. TypeOK /\ LogInv /\ ReadInv /\ PeerInv /\ MemoryInv /\ GateInv /\ ViewInv /\ PageInv
    BY DEF IInv
  <2>2. TypeOK' /\ LogInv' /\ ReadInv'
    BY <1>1, <2>1, NextTypeOK, NextLogInv, NextReadInv
  <2>3. PeerInv' /\ MemoryInv' /\ GateInv'
    BY <1>1, <2>1, NextPeerInv, NextGateInv
  <2>4. ViewInv' /\ PageInv'
    BY <1>1, <2>1, NextViewInv, NextPageInv
  <2> QED BY <2>2, <2>3, <2>4 DEF IInv
<1>2. CASE UNCHANGED vars
  <2>1. TypeOK' /\ LogInv' /\ ReadInv' /\ PeerInv' /\ MemoryInv'
    BY <1>2 DEF vars, IInv, TypeOK, LogInv, ReadInv, PeerInv, MemoryInv
  <2>2. GateInv' /\ ViewInv'
    BY <1>2 DEF vars, IInv, GateInv, TopicOK, Handles, Unconfirmed, Asked, ViewInv
  <2>3. PageInv'
    BY <1>2 DEF vars, IInv, PageInv, Following, Linked, Asked, Sees, InSync, Coming, Mine, Within
  <2> QED BY <2>1, <2>2, <2>3 DEF IInv
<1> QED BY <1>1, <1>2

\* Whatever the sessions, the runs, the bounds and the faults: the handles of the
\* gateway say who is subscribed until a call has met a SUBSCRIBE under way, and what a
\* page shows, with what is on its way to it and what its handlers have yet to read and
\* to send, has every event that is published.
THEOREM LiveViewInvariant == Spec => []IInv
BY InitIInv, NextIInv, PTL DEF Spec

\* A page with nothing under way shows all that will come.
LEMMA SettledShows ==
  ASSUME IInv, Settled
  PROVE  /\ watching \in Topics /\ pub[watching] = 1 .. log[watching] /\ Within(watching)
         /\ Sees /\ InSync /\ Coming = view /\ \A k \in tasks : ~Mine(k)
<1>1. /\ sock = "open" /\ watching # None /\ watching \in Topics /\ ~raced /\ cur \in Peers
      /\ up[cur] = <<>> /\ down[cur] = <<>> /\ pub[watching] = 1 .. log[watching]
      /\ log[watching] <= HistoryLimit /\ view \in Views
  BY DEF IInv, TypeOK, Settled
<1>2. ~AsksFor(<<>>, watching)
  BY DEF AsksFor
<1>3. Sees /\ InSync
  BY <1>1, <1>2 DEF IInv, PageInv, Following
<1>4. Coming = view
  BY <1>1, AfterAllNone DEF Coming
<1> QED BY <1>1, <1>3, <1>4 DEF Settled, Mine, Within

\* Of what a page watches it misses no event that is published, however it subscribed,
\* changed its mind, lost its connection or came back, and whatever was appended
\* meanwhile: subscribe() comes before the stream is read (app/server/api/_flows/ws.ts,
\* _triggers/ws.ts).
THEOREM NoEventIsMissed == Spec => []NothingMissed
<1>1. IInv => NothingMissed
  <2> SUFFICES ASSUME IInv, Settled, NEW i \in 1 .. log[watching], Published(watching, i)
               PROVE  i \in view.seen
    BY DEF NothingMissed
  <2> QED BY SettledShows DEF Sees, Settled
<1> QED BY <1>1, LiveViewInvariant, PTL

\* What a settled page shows of its run is what the events of the run, taken once and in
\* order, make of it: a history that repeats live events, and live events that repeat a
\* history, change nothing (useFlowState).
THEOREM PageShowsTheRun == Spec => []ShowsTheRun
<1>1. IInv => ShowsTheRun
  <2> SUFFICES ASSUME IInv, Settled, service = "flows", alone, ~view.foreign, ~view.late,
                      \A i \in 1 .. log[watching] : Published(watching, i)
               PROVE  Shown(view.state) = Shown(Straight(watching))
    BY DEF ShowsTheRun
  <2>1. PICK m \in 0 .. log[watching] :
          /\ \A i \in 1 .. log[watching] : i <= m
          /\ view.seen = 1 .. m /\ view.state = ReduceFirst(Unseen, watching, m)
    BY SettledShows DEF InSync
  <2>2. m = log[watching]
    <3>1. log[watching] \in Nat
      BY SettledShows DEF IInv, TypeOK, Keys
    <3> QED BY <2>1, <3>1
  <2>3. view.state = Straight(watching)
    BY <2>1, <2>2 DEF Straight
  <2> QED BY <2>3
<1> QED BY <1>1, LiveViewInvariant, PTL

\* No page that wants a run, a trigger or the statistics stays disconnected before its
\* retries are spent, but one whose connection asked for no reconnection
\* (attemptReconnect in useFlowWebSocket and useTriggerWebSocket).
THEOREM NoPageIsStranded == Spec => []NotStranded
<1>1. Init => NotStranded
  BY DEF Init, NotStranded, None
<1>2. IInv /\ NotStranded /\ [Next]_vars => NotStranded'
  <2> SUFFICES ASSUME TypeOK, NotStranded, [Next]_vars PROVE NotStranded'
    BY DEF IInv
  <2>1. CASE \/ \E t \in Topics : Subscribe(t)
             \/ SubscribeStats \/ OnOpen
    BY <2>1 DEF Subscribe, SubscribeStats, OnOpen, Connect, link, NotStranded
  <2>2. CASE Unsubscribe \/ UnsubscribeStats \/ Receive
    <3>1. /\ UNCHANGED link
          /\ watching' # None => watching # None
          /\ stats'.want => stats.want
      BY <2>2 DEF Unsubscribe, UnsubscribeStats, Receive, TypeOK
    <3> QED BY <3>1 DEF NotStranded, link
  <2>3. CASE Reconnect
    BY <2>3 DEF Reconnect, page, NotStranded
  <2>4. CASE Drop \/ Restart
    <3>1. OnClose
      BY <2>4 DEF Drop, Restart, CloseSocket, OnCloseFlows, OnCloseTriggers
    <3>2. retry \in 0 .. MaxRetries /\ MaxRetries \in Nat
      BY LiveViewAssumption DEF TypeOK
    <3>3. ~timer' => (~auto' \/ ~(retry < MaxRetries)) /\ retry' = retry
      BY <3>1, Zenon DEF OnClose
    <3>4. ~(retry < MaxRetries) => retry = MaxRetries
      BY <3>2
    <3> QED BY <3>3, <3>4 DEF NotStranded
  <2>5. CASE UNCHANGED <<link, watching, stats>>
    BY <2>5 DEF link, NotStranded
  <2>6. CASE \/ \E p \in Peers : Handle(p) \/ ClosePeer(p)
             \/ \E k \in tasks : Subscribed(k) \/ ReadHistory(k) \/ SendHistory(k)
             \/ \E t \in Keys : AppendEvent(t) \/ \E i \in 1 .. log[t] : PublishStep(t, i)
    BY <2>5, <2>6 DEF Handle, ClosePeer, Subscribed, ReadHistory, SendHistory, AppendEvent,
       PublishStep, Publish, page
  <2>7. CASE UNCHANGED vars
    BY <2>5, <2>7 DEF vars, link
  <2> QED BY <2>1, <2>2, <2>3, <2>4, <2>6, <2>7, StepKinds
<1> QED BY <1>1, <1>2, LiveViewInvariant, PTL DEF Spec
===============================================================================
