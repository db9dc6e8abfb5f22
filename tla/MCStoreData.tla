---------------------------- MODULE MCStoreData ----------------------------
(* The index: an entry of the trigger index, its status, its statistics, the  *)
(* fields of two subscriptions, and a field Postgres has no column for.       *)
EXTENDS StoreData
Status == <<"status">>
Fires == <<"stats", "totalFires">>
ModeA == <<"subscriptions", "a", "mode">>
ModeB == <<"subscriptions", "b", "mode">>
Reason == <<"stallReason">>
SubscriptionA == <<"subscriptions", "a">>

AllPaths == {Status, Fires, ModeA, ModeB, Reason}
AllColumns == AllPaths \ {Reason}
FirstDoc == {Status, Fires, ModeB}
SomePatches == {Status :> "set" @@ Reason :> "set",
                ModeA :> "set",
                SubscriptionA :> "null"}

\* The events of a run; keys of that run's state and of another's.
SomeStreams == {<<"run", ":", "r1">>}
SomeKeys == {<<"flow", ":", "r1", ":", "a">>, <<"flow", ":", "r1", ":", "b">>,
             <<"flow", ":", "r2", ":", "a">>}
StateOfRun == <<"flow", ":", "r1", ":">>
TwoTypes == {"step", "await"}
SomeQueries == {[types |-> {}, limit |-> 0, desc |-> FALSE],
                [types |-> {}, limit |-> 1, desc |-> TRUE],
                [types |-> {"await"}, limit |-> 0, desc |-> FALSE]}
SameClocks == [c \in Clients |-> 0]
AllBackends == {"memory", "file", "redis", "postgres"}
=============================================================================
