-------------------------- MODULE MCBackupPipeline -------------------------
(***************************************************************************)
(* Small instances of BackupPipeline.                                      *)
(***************************************************************************)
EXTENDS BackupPipeline, TLC

CONSTANTS b1, b2, b3

\* The device's loop makes the first and the third backup, an operator's
\* command the second.
LoopAndCommand == [r \in Runs |-> IF r = b2 THEN "command" ELSE "loop"]

Symmetric == Permutations({b1, b3}) \cup Permutations(Calls)
=============================================================================
