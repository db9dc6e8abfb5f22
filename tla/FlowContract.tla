----------------------------- MODULE FlowContract -----------------------------
(***************************************************************************)
(* What the event stream of a run promises to whoever reads it, whatever    *)
(* the number of instances, the timing of the workers and the failures:     *)
(* a step starts only once everything it subscribes to is in the stream and *)
(* its awaitBefore is resolved, emits and finishes only after it started,   *)
(* and a verdict on the run is one the outcomes of its steps justify.       *)
(***************************************************************************)
EXTENDS FlowGraph

CONSTANTS Flow, AwaitBefore

VARIABLES
  began,     \* the steps with a step.started
  emitted,   \* the events emitted
  resolved,  \* the steps whose awaitBefore is resolved
  done,      \* the steps with a step.completed
  failed,    \* the steps with a step.failed
  timedout,  \* the steps with an await.timeout
  verdicts   \* the types of the terminal events

cvars == <<began, emitted, resolved, done, failed, timedout, verdicts>>

Init ==
  /\ began = {} /\ emitted = {} /\ resolved = {} /\ done = {} /\ failed = {}
  /\ timedout = {} /\ verdicts = {}

\* Every event s subscribes to is emitted, every step it waits for is completed.
Ready(s) == Flow.subs[s] \subseteq emitted \cup done

Begin(s) ==
  /\ Ready(s)
  /\ s \in AwaitBefore => s \in resolved
  /\ began' = began \cup {s}
  /\ UNCHANGED <<emitted, resolved, done, failed, timedout, verdicts>>

Emit(s, e) ==
  /\ s \in began /\ e \in Flow.emits[s]
  /\ emitted' = emitted \cup {e}
  /\ UNCHANGED <<began, resolved, done, failed, timedout, verdicts>>

Resolve(s) ==
  /\ s \in AwaitBefore
  /\ Ready(s)
  /\ resolved' = resolved \cup {s}
  /\ UNCHANGED <<began, emitted, done, failed, timedout, verdicts>>

Finish(s) ==
  /\ s \in began
  /\ done' = done \cup {s}
  /\ UNCHANGED <<began, emitted, resolved, failed, timedout, verdicts>>

\* A step fails after it started, or because one of its awaits timed out.
Fail(s) ==
  /\ s \in began \cup timedout
  /\ failed' = failed \cup {s}
  /\ UNCHANGED <<began, emitted, resolved, done, timedout, verdicts>>

TimeOut(s) ==
  /\ timedout' = timedout \cup {s}
  /\ UNCHANGED <<began, emitted, resolved, done, failed, verdicts>>

Conclude(v) ==
  /\ v = "flow.completed" => AllSteps \subseteq done \cup failed
  /\ v = "flow.failed" => failed \cup timedout # {}
  /\ verdicts' = verdicts \cup {v}
  /\ UNCHANGED <<began, emitted, resolved, done, failed, timedout>>

Next ==
  \/ \E s \in AllSteps :
       \/ Begin(s) \/ Resolve(s) \/ Finish(s) \/ Fail(s) \/ TimeOut(s)
       \/ \E e \in Events : Emit(s, e)
  \/ \E v \in {"flow.completed", "flow.failed"} : Conclude(v)

Spec == Init /\ [][Next]_cvars
==============================================================================
