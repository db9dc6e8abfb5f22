------------------------------ MODULE MCFlowRun ------------------------------
(* Flows and settings for model checking FlowRun. *)
EXTENDS FlowRun

\* entry -x-> a, b;  a -y-> c;  b -z-> c
JoinFlow ==
  [subs |-> [s \in AllSteps |-> CASE s \in {"a", "b"} -> {"x"} [] s = "c" -> {"y", "z"} [] OTHER -> {}],
   emits |-> [s \in AllSteps |-> CASE s = "entry" -> {"x"} [] s = "a" -> {"y"} [] s = "b" -> {"z"} [] OTHER -> {}]]

\* entry -x-> a
PairFlow ==
  [subs |-> [s \in AllSteps |-> IF s = "a" THEN {"x"} ELSE {}],
   emits |-> [s \in AllSteps |-> IF s = "entry" THEN {"x"} ELSE {}]]

AllTime == [k \in AwaitKeys |-> "time"]
AllWebhook == [k \in AwaitKeys |-> "webhook"]
AllFail == [k \in AwaitKeys |-> "fail"]

\* The timeout before a lets it go on, the one after the entry lets it fail.
MixedActions == [k \in AwaitKeys |-> IF k[2] = "before" THEN "continue" ELSE "fail"]
==============================================================================
