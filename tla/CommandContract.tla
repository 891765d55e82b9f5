-------------------------- MODULE CommandContract --------------------------
(***************************************************************************)
(* What command dispatch promises the operator, seen from one side of the  *)
(* network only: a submitted command is handed out once, worked on at most *)
(* once, gets at most one outcome, an outcome "succeeded" only if the work *)
(* was done, and a sensitive export is served at most once.                *)
(*                                                                         *)
(* CommandDispatch implements it (its `Contract!Spec`).                    *)
(***************************************************************************)
EXTENDS Naturals

CONSTANT Cmds       \* command ids

VARIABLES
    stage,      \* "none", "pending", "claimed", "succeeded", "failed", "gone"
    worked,     \* times the work of a command was started on a router
    served      \* times its sensitive export was handed to an operator

vars == <<stage, worked, served>>

Init ==
    /\ stage = [c \in Cmds |-> "none"]
    /\ worked = [c \in Cmds |-> 0]
    /\ served = [c \in Cmds |-> 0]

Submit(c) ==
    /\ stage[c] = "none"
    /\ stage' = [stage EXCEPT ![c] = "pending"]
    /\ UNCHANGED <<worked, served>>

HandOut(S) ==
    /\ \A c \in S : stage[c] = "pending"
    /\ stage' = [c \in Cmds |-> IF c \in S THEN "claimed" ELSE stage[c]]
    /\ UNCHANGED <<worked, served>>

\* The work may outlive the command: the device can be deleted meanwhile.
Work(c) ==
    /\ stage[c] \in {"claimed", "gone"}
    /\ worked[c] = 0
    /\ worked' = [worked EXCEPT ![c] = 1]
    /\ UNCHANGED <<stage, served>>

Conclude(c) ==
    /\ stage[c] = "claimed"
    /\ \/ stage' = [stage EXCEPT ![c] = "failed"]
       \/ worked[c] = 1 /\ stage' = [stage EXCEPT ![c] = "succeeded"]
    /\ UNCHANGED <<worked, served>>

Serve(c) ==
    /\ stage[c] = "succeeded"
    /\ served[c] = 0
    /\ served' = [served EXCEPT ![c] = 1]
    /\ UNCHANGED <<stage, worked>>

Discard(S) ==
    /\ \A c \in S : stage[c] # "none"
    /\ stage' = [c \in Cmds |-> IF c \in S THEN "gone" ELSE stage[c]]
    /\ UNCHANGED <<worked, served>>

Next ==
    \/ \E c \in Cmds : Submit(c) \/ Work(c) \/ Conclude(c) \/ Serve(c)
    \/ \E S \in SUBSET Cmds : HandOut(S) \/ Discard(S)

Spec == Init /\ [][Next]_vars
=============================================================================
