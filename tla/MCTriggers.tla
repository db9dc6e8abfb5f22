---------------------------- MODULE MCTriggers ----------------------------
(* Instances of Triggers: both types of trigger on the three kinds of store.  *)
EXTENDS Triggers
AllTypes == {"webhook", "schedule"}
AllBackends == {"memory", "redis", "postgres"}
=============================================================================
