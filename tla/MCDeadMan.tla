----------------------------- MODULE MCDeadMan -----------------------------
(***************************************************************************)
(* Small instance of DeadMan: the set of Names, Ids, requests and sweeps   *)
(* come from the cfg as model values.  Symmetric is for larger instances   *)
(* of the safety properties; it is unsound with SilenceIsAlerted.          *)
(***************************************************************************)
EXTENDS DeadMan, TLC

Symmetric == Permutations(Names) \cup Permutations(Ids)
                \cup Permutations(Beats) \cup Permutations(Sweeps)
=============================================================================
