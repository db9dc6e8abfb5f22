------------------------------ MODULE FlowGraph ------------------------------
(***************************************************************************)
(* The static shape of a flow and the two pure decisions taken from it in   *)
(* events/wiring/flowWiring.ts: checkPendingStepTriggers (may a step be     *)
(* enqueued?) and analyzeFlowCompletion (what is the status of the run?).   *)
(*                                                                         *)
(* A flow is a pair of functions over its steps:                            *)
(*   subs[s]   what step s subscribes to (nothing for the entry): event     *)
(*             names, and step names for subscriptions written "step:name"; *)
(*   emits[s]  the event names step s declares that it emits.               *)
(* A name has already been matched to its emitter: the code accepts         *)
(* "step.event" and "event" for the same subscription.                      *)
(***************************************************************************)
EXTENDS Naturals, Sequences

CONSTANTS
  Steps,      \* the keys of flowDef.steps: every step but the entry
  Entry,      \* flowDef.entry.step
  Events      \* the names that steps emit and subscribe to

ASSUME EntryAssumption == Entry \notin Steps

AllSteps == Steps \cup {Entry}

Flows == [subs : [AllSteps -> SUBSET (Events \cup AllSteps)],
          emits : [AllSteps -> SUBSET Events]]

-----------------------------------------------------------------------------
(* The definitions whose names end in Bug are faults such code could have: *)
(* each takes the place of the definition after it when the properties are  *)
(* tested for whether they notice.                                          *)

CanTrigger_AnyBug(flow, s, emitted, completed) ==
  flow.subs[s] # {} => flow.subs[s] \cap (emitted \cup completed) # {}

(* checkPendingStepTriggers: every subscribed event has been emitted, every *)
(* "step:name" subscription names a completed step.                         *)
CanTrigger(flow, s, emitted, completed) ==
  flow.subs[s] \subseteq emitted \cup completed

-----------------------------------------------------------------------------
(* analyzeFlowCompletion: the dependency graph. *)

\* The steps with a declared emit that s subscribes to.
StepDependencies(flow, s) ==
  {d \in AllSteps : s \in Steps /\ flow.emits[d] \cap flow.subs[s] # {}}

StepDependents(flow, d) == {s \in Steps : d \in StepDependencies(flow, s)}

\* The siblings of s: the steps with the same dependency set.
LayerOf(flow, s) ==
  {t \in AllSteps : StepDependencies(flow, t) = StepDependencies(flow, s)}

HasBlockingFailure_FailedBug(flow, completed, failed) ==
  \E f \in failed : \E d \in StepDependents(flow, f) : d \in failed

\* A failed step has a dependent that did not complete.
HasBlockingFailure(flow, completed, failed) ==
  \E f \in failed : \E d \in StepDependents(flow, f) : d \notin completed

\* A whole layer failed, and one of its steps is a leaf.
HasCriticalLayerFailure(flow, failed) ==
  \E f \in failed :
    /\ LayerOf(flow, f) \subseteq failed
    /\ \E t \in LayerOf(flow, f) : StepDependents(flow, t) = {}

\* The status analyzeFlowCompletion returns for a run in which the steps of
\* completed have completed and those of failed have failed for good.
AnalyzeFlow(flow, canceled, completed, failed) ==
  CASE canceled -> "canceled"
    [] ~canceled /\ (\/ HasBlockingFailure(flow, completed, failed)
                     \/ HasCriticalLayerFailure(flow, failed)) -> "failed"
    [] OTHER -> IF AllSteps \subseteq completed \cup failed
                THEN "completed" ELSE "running"

-----------------------------------------------------------------------------
(* What the code reads off the event stream of a run before it decides. *)

HasEvent(stream, type) == \E n \in DOMAIN stream : stream[n].type = type

CompletedSteps(stream) ==
  {s \in AllSteps : \E n \in DOMAIN stream :
     stream[n].type = "step.completed" /\ stream[n].step = s}

FinalFailedSteps_RetryBug(stream) ==
  {s \in AllSteps : \E n \in DOMAIN stream :
     /\ stream[n].type = "step.failed" /\ stream[n].step = s
     /\ \A m \in DOMAIN stream : stream[m].step = s => stream[m].type # "step.retry"}

\* A step.failed with no later step.retry of the same step.
FinalFailedSteps(stream) ==
  {s \in AllSteps : \E n \in DOMAIN stream :
     /\ stream[n].type = "step.failed" /\ stream[n].step = s
     /\ \A m \in DOMAIN stream :
          (m > n /\ stream[m].step = s) => stream[m].type # "step.retry"}

AnalyzeFlowCompletion(flow, stream) ==
  AnalyzeFlow(flow, HasEvent(stream, "flow.cancel"),
              CompletedSteps(stream), FinalFailedSteps(stream))
==============================================================================
