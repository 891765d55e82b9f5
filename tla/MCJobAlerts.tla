---------------------------- MODULE MCJobAlerts ----------------------------
(***************************************************************************)
(* Small instance of JobAlerts: one route with the default severity, which *)
(* asks for failed jobs and drift, beside the bot.                         *)
(***************************************************************************)
EXTENDS JobAlerts

CONSTANT r1

Reports == {[kind |-> "drift", status |-> "warning"], [kind |-> "export", status |-> "failed"]}
Filtering == [r \in {r1} |-> [events |-> {"job_failed", "drift_detected", "heartbeat_missed"},
                              min |-> "warning"]]
=============================================================================
