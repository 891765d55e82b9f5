-------------------------- MODULE MCAgentSchedule --------------------------
(***************************************************************************)
(* Small instance of AgentSchedule: exports, update checks and backups     *)
(* with an interval each, the inventory off.                               *)
(***************************************************************************)
EXTENDS AgentSchedule

Intervals == [k \in Kinds |-> CASE k = "export" -> 2 [] k = "inventory" -> 0 [] OTHER -> 3]
=============================================================================
