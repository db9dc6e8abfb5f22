-------------------------- MODULE MCQueueAdapters --------------------------
(* Instances of QueueAdapters: the three adapters.                            *)
EXTENDS QueueAdapters
AllAdapters == {"memory", "redis", "postgres"}
=============================================================================
