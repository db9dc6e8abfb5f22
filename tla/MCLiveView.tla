----------------------------- MODULE MCLiveView -----------------------------
(* A run that completes, and another whose events are all to come; with the  *)
(* gateway also a run whose events two servers append and publish; a page of  *)
(* that asks once.                                                           *)
EXTENDS LiveView
CONSTANTS r1, r2
Session(s, b, u) == [service |-> s, backend |-> b, updates |-> u, alone |-> TRUE]
Shared(session) == [session EXCEPT !.alone = FALSE]
Sessions ==
  {Session("flows", "redis", 0), Session("flows", "memory", 1), Session("triggers", "memory", 1),
   Shared(Session("flows", "redis", 0))}
Bounded == NotRaced /\ (alone \/ requests <= 1)
TwoRuns == [t \in Topics |->
  IF t = r1 THEN <<"start", "step.started", "completed">>
  ELSE <<>>]
=============================================================================
