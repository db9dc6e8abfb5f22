---------------------------- MODULE MCScheduler ----------------------------
(* Instances of Scheduler: one instance of the application, or two.           *)
EXTENDS Scheduler
Deployed == {"time", "hook", "cron"} \X {{Origin}}
            \cup {"time"} \X {Inst}
=============================================================================
