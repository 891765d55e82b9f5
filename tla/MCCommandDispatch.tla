------------------------- MODULE MCCommandDispatch -------------------------
(***************************************************************************)
(* Small instances of CommandDispatch.                                     *)
(***************************************************************************)
EXTENDS CommandDispatch, TLC

CONSTANTS a1, a2, d1, d2

\* The first device belongs to the first agent, the others to the second.
TwoOwners == [d \in {d1, d2} |-> IF d = d1 THEN a1 ELSE a2]
OneOwner == [d \in Devices |-> a1]

Symmetric == Permutations(Cmds) \cup Permutations(Calls)
=============================================================================
