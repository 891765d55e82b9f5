---------------------------- MODULE MCExportGit ----------------------------
(***************************************************************************)
(* Small instances of ExportGit.                                           *)
(***************************************************************************)
EXTENDS ExportGit, TLC

CONSTANTS d1, d2, t1, tc

\* One device's own loop, and the command thread that serves both.
LoopAndCommands == [t \in {t1, tc} |-> IF t = t1 THEN {d1} ELSE {d1, d2}]
OneLoop == [t \in {t1} |-> {d1}]

Symmetric == Permutations(Configs)
=============================================================================
