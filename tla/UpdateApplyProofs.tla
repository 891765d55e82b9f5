------------------------- MODULE UpdateApplyProofs -------------------------
(***************************************************************************)
(* Type correctness and the safety of the approval-gated update, for any   *)
(* number of overlapping runs, probes and faults.                          *)
(***************************************************************************)
EXTENDS UpdateApply, TLAPS

-----------------------------------------------------------------------------
(* What the steps of a run have in common                                  *)

\* The first state is well typed.
LEMMA TypeInit == Init => TypeOK
<1> SUFFICES ASSUME Init
             PROVE  TypeOK
  OBVIOUS
<1>1. \A r \in Runs : run[r].pc = "idle" /\ result[r] = "none"
  BY DEF Init
<1>2. [pc |-> "idle", left |-> Polls] \in [pc : Steps, left : 0..Polls]
  BY ConstantsAssumption DEF Steps
<1>3. run \in [Runs -> [pc : Steps, left : 0..Polls]]
  BY <1>2 DEF Init
<1>4. staged \in BOOLEAN /\ (staged => router = "rebooting" /\ version = "old")
  BY DEF Init
<1>5. QED
  BY <1>1, <1>3, <1>4, ConstantsAssumption DEF Init, TypeOK

\* A run that goes on without a result keeps the types.
LEMMA GotoTyped ==
  ASSUME TypeOK, NEW r \in Runs, run[r].pc \notin {"report", "done"},
         NEW pc \in Steps \ {"report", "done"}, Goto(r, pc)
  PROVE  /\ run' \in [Runs -> [pc : Steps, left : 0..Polls]]
         /\ result' \in [Runs -> {"none", "success", "aborted", "failed", "escaped"}]
         /\ \A q \in Runs : result'[q] # "none" <=> run'[q].pc \in {"report", "done"}
<1>1. run' = [run EXCEPT ![r] = [run[r] EXCEPT !.pc = pc]]
  BY DEF Goto, TypeOK
<1>2. run[r] \in [pc : Steps, left : 0..Polls]
  BY DEF TypeOK
<1>3. [run[r] EXCEPT !.pc = pc] \in [pc : Steps, left : 0..Polls] /\ [run[r] EXCEPT !.pc = pc].pc = pc
  BY <1>2
<1>4. QED
  BY <1>1, <1>3 DEF Goto, TypeOK

\* A run that ends has its result.
LEMMA EndTyped ==
  ASSUME TypeOK, NEW r \in Runs, NEW how \in {"success", "aborted", "failed", "escaped"},
         End(r, how)
  PROVE  /\ run' \in [Runs -> [pc : Steps, left : 0..Polls]]
         /\ result' \in [Runs -> {"none", "success", "aborted", "failed", "escaped"}]
         /\ \A q \in Runs : result'[q] # "none" <=> run'[q].pc \in {"report", "done"}
<1>1. run' = [run EXCEPT ![r] = [run[r] EXCEPT !.pc = "report"]]
  BY DEF End, TypeOK
<1>2. run[r] \in [pc : Steps, left : 0..Polls]
  BY DEF TypeOK
<1>3. /\ [run[r] EXCEPT !.pc = "report"] \in [pc : Steps, left : 0..Polls]
      /\ [run[r] EXCEPT !.pc = "report"].pc = "report"
  BY <1>2 DEF Steps
<1>4. QED
  BY <1>1, <1>3 DEF End, TypeOK

\* So does a probe that only takes time.
LEMMA WaitTyped ==
  ASSUME TypeOK, NEW r \in Runs, run[r].left > 0, Wait(r)
  PROVE  /\ run' \in [Runs -> [pc : Steps, left : 0..Polls]]
         /\ \A q \in Runs : run'[q].pc = run[q].pc
         /\ result' = result
<1>1. run' = [run EXCEPT ![r] = [run[r] EXCEPT !.left = run[r].left - 1]]
  BY DEF Wait, TypeOK
<1>2. run[r] \in [pc : Steps, left : 0..Polls]
  BY DEF TypeOK
<1>3. /\ [run[r] EXCEPT !.left = run[r].left - 1] \in [pc : Steps, left : 0..Polls]
      /\ [run[r] EXCEPT !.left = run[r].left - 1].pc = run[r].pc
  BY <1>2, ConstantsAssumption
<1>4. QED
  BY <1>1, <1>3 DEF Wait, TypeOK

\* An SSH command costs at most one fault, and then one was left.
LEMMA FaultTyped ==
  ASSUME TypeOK, Answered \/ Unanswered
  PROVE  faults' \in 0..MaxFaults /\ faults <= faults'
  BY ConstantsAssumption DEF TypeOK, Answered, Unanswered

-----------------------------------------------------------------------------
(* Type correctness                                                        *)

\* Only an old version is replaced; without it the types are not inductive.
Upgrading == router = "installing" => version = "old"

\* An install starts, and goes on, only on the old version.
LEMMA UpgradingStep == TypeOK /\ Upgrading /\ [Next]_vars => Upgrading'
<1> SUFFICES ASSUME TypeOK, Upgrading, [Next]_vars
             PROVE  Upgrading'
  OBVIOUS
<1>1. CASE Reboot \/ DownloadFails \/ Return \/ PowerCut \/ BackupChanges \/ UNCHANGED vars
  BY <1>1 DEF Reboot, DownloadFails, Return, PowerCut, BackupChanges, vars, box, Upgrading, TypeOK
<1>2. ASSUME NEW r \in Runs, Begin(r) \/ Apply(r)
      PROVE  Upgrading'
  BY <1>2 DEF Begin, Apply, Snapshot, Check, Backup, Install, ProbeDrop, ProbeBack, After,
     Report, box, Told, Upgrading, TypeOK
<1>3. QED
  BY <1>1, <1>2 DEF Next

\* Every action keeps the types, given that.
LEMMA TypeStep == TypeOK /\ Upgrading /\ [Next]_vars => TypeOK'
<1> SUFFICES ASSUME TypeOK, Upgrading, [Next]_vars
             PROVE  TypeOK'
  OBVIOUS
<1>1. CASE Reboot
  <2>1. router = "installing" /\ version = "old" /\ router' = "rebooting" /\ staged' = TRUE
    BY <1>1 DEF Reboot, Upgrading
  <2>2. staged' \in BOOLEAN /\ (staged' => router' = "rebooting" /\ version' = "old")
    BY <1>1, <2>1 DEF Reboot
  <2>3. QED
    BY <1>1, <2>1, <2>2 DEF Reboot, TypeOK
<1>2. CASE DownloadFails
  BY <1>2 DEF DownloadFails, TypeOK
<1>3. CASE Return
  BY <1>3 DEF Return, TypeOK
<1>4. CASE PowerCut
  BY <1>4, ConstantsAssumption DEF PowerCut, TypeOK
<1>5. CASE BackupChanges
  BY <1>5 DEF BackupChanges, TypeOK, box
<1>6. ASSUME NEW r \in Runs, Begin(r)
      PROVE  TypeOK'
  BY <1>6, GotoTyped DEF Begin, TypeOK, box, Steps
<1>7. ASSUME NEW r \in Runs, Snapshot(r)
      PROVE  TypeOK'
  BY <1>7, GotoTyped, EndTyped, FaultTyped DEF Snapshot, TypeOK, box, Steps
<1>8. ASSUME NEW r \in Runs, Check(r)
      PROVE  TypeOK'
  BY <1>8, GotoTyped, EndTyped, FaultTyped DEF Check, TypeOK, box, Steps
<1>9. ASSUME NEW r \in Runs, Backup(r)
      PROVE  TypeOK'
  BY <1>9, GotoTyped, EndTyped DEF Backup, TypeOK, box, Steps
<1>10. ASSUME NEW r \in Runs, Install(r)
       PROVE  TypeOK'
  <2>1. /\ router' \in {"up", "installing", "rebooting"}
        /\ told' \subseteq Runs
        /\ router = "rebooting" => router' = "rebooting"
    BY <1>10 DEF Install, Told, Unanswered, TypeOK
  <2>2. faults' \in 0..MaxFaults
    BY <1>10, ConstantsAssumption DEF Install, Unanswered, TypeOK
  <2>3. QED
    BY <1>10, <2>1, <2>2, GotoTyped DEF Install, TypeOK, Steps
<1>11. ASSUME NEW r \in Runs, ProbeDrop(r)
       PROVE  TypeOK'
  BY <1>11, GotoTyped, EndTyped, WaitTyped, FaultTyped DEF ProbeDrop, TypeOK, box, Steps
<1>12. ASSUME NEW r \in Runs, ProbeBack(r)
       PROVE  TypeOK'
  BY <1>12, GotoTyped, EndTyped, WaitTyped, FaultTyped DEF ProbeBack, TypeOK, box, Steps
<1>13. ASSUME NEW r \in Runs, After(r)
       PROVE  TypeOK'
  BY <1>13, EndTyped, FaultTyped DEF After, TypeOK, box
<1>14. ASSUME NEW r \in Runs, Report(r)
       PROVE  TypeOK'
  <2>1. run' = [run EXCEPT ![r] = [run[r] EXCEPT !.pc = "done"]] /\ result' = result
    BY <1>14 DEF Report, Goto, TypeOK
  <2>2. run[r] \in [pc : Steps, left : 0..Polls]
    BY DEF TypeOK
  <2>3. /\ [run[r] EXCEPT !.pc = "done"] \in [pc : Steps, left : 0..Polls]
        /\ [run[r] EXCEPT !.pc = "done"].pc = "done"
    BY <2>2 DEF Steps
  <2>4. job' \in [Runs -> {"none", "success", "failed"}]
    BY <1>14 DEF Report, TypeOK
  <2>5. QED
    BY <1>14, <2>1, <2>3, <2>4 DEF Report, TypeOK, box
<1>15. CASE UNCHANGED vars
  BY <1>15 DEF vars, TypeOK
<1>16. QED
  BY <1>1, <1>2, <1>3, <1>4, <1>5, <1>6, <1>7, <1>8, <1>9, <1>10, <1>11, <1>12,
     <1>13, <1>14, <1>15 DEF Next, Apply

\* A run has a result exactly from its report on, and an update is staged only
\* while the router reboots from the old version (apply.py:187-262).
THEOREM TypeCorrect == Spec => []TypeOK
<1>1. Init => Upgrading
  BY DEF Init, Upgrading
<1>2. QED
  BY <1>1, TypeInit, TypeStep, UpgradingStep, PTL DEF Spec

-----------------------------------------------------------------------------
(* An aborted run did not touch the router                                 *)

\* The install command is the run's point of no return: from there on it waits
\* for the reboot and no longer aborts.
Committed ==
    \A r \in told : /\ run[r].pc \in {"dropping", "returning", "after", "report", "done"}
                   /\ result[r] \notin {"aborted", "escaped"}

\* A run whose install command was executed stays past its last abort.
LEMMA CommittedStep == TypeOK /\ Committed /\ [Next]_vars => Committed'
<1> SUFFICES ASSUME TypeOK, Committed, [Next]_vars
             PROVE  Committed'
  OBVIOUS
<1>1. CASE Reboot \/ DownloadFails \/ Return \/ PowerCut \/ BackupChanges \/ UNCHANGED vars
  BY <1>1 DEF Reboot, DownloadFails, Return, PowerCut, BackupChanges, vars, Committed
<1>2. ASSUME NEW r \in Runs, Begin(r) \/ Snapshot(r) \/ Check(r) \/ Backup(r)
      PROVE  Committed'
  <2>1. told' = told /\ r \notin told
    BY <1>2 DEF Begin, Snapshot, Check, Backup, Committed
  <2>2. \A q \in Runs \ {r} : run'[q] = run[q] /\ result'[q] = result[q]
    BY <1>2 DEF Begin, Snapshot, Check, Backup, Goto, End, TypeOK
  <2>3. QED
    BY <2>1, <2>2 DEF Committed, TypeOK
<1>3. ASSUME NEW r \in Runs, Install(r)
      PROVE  Committed'
  <2>1. told' \subseteq told \cup {r}
    BY <1>3 DEF Install, Told
  <2>2. result' = result /\ result[r] = "none"
    BY <1>3 DEF Install, Goto, TypeOK
  <2>3. run'[r].pc = "dropping" /\ \A q \in Runs \ {r} : run'[q] = run[q]
    BY <1>3 DEF Install, Goto, TypeOK
  <2>4. QED
    BY <2>1, <2>2, <2>3 DEF Committed, TypeOK
<1>4. ASSUME NEW r \in Runs, ProbeDrop(r) \/ ProbeBack(r) \/ After(r) \/ Report(r)
      PROVE  Committed'
  <2>1. told' = told
    BY <1>4 DEF ProbeDrop, ProbeBack, After, Report
  <2>2. \A q \in Runs \ {r} : run'[q] = run[q] /\ result'[q] = result[q]
    BY <1>4 DEF ProbeDrop, ProbeBack, After, Report, Goto, End, Wait, TypeOK
  <2>3. /\ run'[r].pc \in {"dropping", "returning", "after", "report", "done"}
        /\ result'[r] \in {result[r], "failed", "success"}
    BY <1>4 DEF ProbeDrop, ProbeBack, After, Report, Goto, End, Wait, TypeOK
  <2>4. QED
    BY <2>1, <2>2, <2>3 DEF Committed, TypeOK
<1>5. QED
  BY <1>1, <1>2, <1>3, <1>4 DEF Next, Apply

\* A run ends as aborted (apply.py:39-40), or in an exception that no job tells
\* of, only when the router never executed its install command.
THEOREM AbortedIsUntouched == Spec => []AbortIsHarmless
<1>1. Init => Committed
  BY DEF Init, Committed
<1>2. TypeOK /\ Committed => AbortIsHarmless
  BY DEF Committed, AbortIsHarmless
<1>3. QED
  BY <1>1, <1>2, TypeCorrect, CommittedStep, PTL DEF Spec

-----------------------------------------------------------------------------
(* Success without faults                                                  *)

\* While nothing failed, a router that reboots does so to install, and a run
\* past its first failed probe has seen that reboot.
Seen(r) ==
    /\ run[r].pc = "returning" => version = "new" \/ router = "rebooting"
    /\ run[r].pc = "after" => version = "new"
    /\ result[r] = "success" => version = "new"

Faultless ==
    faults = 0 => /\ router = "rebooting" => staged
                  /\ \A r \in Runs : Seen(r)

\* While nothing failed, only the reboot that installs lets a run pass a probe.
LEMMA FaultlessStep == TypeOK /\ Faultless /\ [Next]_vars => Faultless'
<1> SUFFICES ASSUME TypeOK, Faultless, [Next]_vars, faults' = 0
             PROVE  /\ router' = "rebooting" => staged'
                    /\ \A r \in Runs : Seen(r)'
  BY DEF Faultless
<1>1. CASE Reboot \/ DownloadFails \/ Return \/ PowerCut \/ BackupChanges \/ UNCHANGED vars
  <2>1. faults = 0 /\ ~PowerCut
    BY <1>1, ConstantsAssumption DEF Reboot, DownloadFails, Return, PowerCut, BackupChanges,
       vars, TypeOK
  <2>2. run' = run /\ result' = result
    BY <1>1 DEF Reboot, DownloadFails, Return, PowerCut, BackupChanges, vars
  <2>3. router' = "rebooting" => staged'
    BY <1>1, <2>1 DEF Reboot, DownloadFails, Return, BackupChanges, vars, box, Faultless
  <2>4. version' = "new" \/ (version' = version /\ (router = "rebooting" => router' = "rebooting"))
    BY <1>1, <2>1 DEF Reboot, DownloadFails, Return, BackupChanges, vars, box, Faultless
  <2>5. version = "new" => version' = "new"
    BY <1>1, <2>1 DEF Reboot, DownloadFails, Return, BackupChanges, vars, box
  <2>6. QED
    BY <2>1, <2>2, <2>3, <2>4, <2>5 DEF Faultless, Seen
<1>2. ASSUME NEW r \in Runs, Begin(r) \/ Apply(r)
      PROVE  /\ router' = "rebooting" => staged'
             /\ \A q \in Runs : Seen(q)'
  <2>1. faults = 0
    BY <1>2, ConstantsAssumption DEF Begin, Apply, Snapshot, Check, Backup, Install, ProbeDrop,
       ProbeBack, After, Report, Answered, Unanswered, TypeOK
  <2>2. version' = version /\ staged' = staged
    BY <1>2 DEF Begin, Apply, Snapshot, Check, Backup, Install, ProbeDrop, ProbeBack, After,
       Report, box
  <2>3. router' = "rebooting" <=> router = "rebooting"
    BY <1>2 DEF Begin, Apply, Snapshot, Check, Backup, Install, ProbeDrop, ProbeBack, After,
       Report, box, Told
  <2>4. \A q \in Runs \ {r} : run'[q] = run[q] /\ result'[q] = result[q]
    BY <1>2 DEF Begin, Apply, Snapshot, Check, Backup, Install, ProbeDrop, ProbeBack, After,
       Report, Goto, End, Wait, TypeOK
  <2>5. Seen(r)'
    <3>1. CASE Begin(r) \/ Snapshot(r) \/ Check(r) \/ Backup(r) \/ Install(r)
      BY <3>1 DEF Begin, Snapshot, Check, Backup, Install, Goto, End, TypeOK, Seen
    <3>2. CASE ProbeDrop(r)
      <4>1. /\ run'[r].pc \in {"report", "dropping"} \/ (run'[r].pc = "returning" /\ Unanswered)
            /\ result'[r] # "success"
        BY <3>2 DEF ProbeDrop, Goto, End, Wait, TypeOK
      <4>2. Unanswered => router = "rebooting"
        BY <2>1, ConstantsAssumption DEF Unanswered
      <4>3. QED
        BY <2>3, <4>1, <4>2 DEF Seen
    <3>3. CASE ProbeBack(r)
      <4>1. Seen(r) /\ run[r].pc = "returning" /\ result[r] = "none"
        BY <2>1, <3>3 DEF ProbeBack, Faultless, TypeOK
      <4>2. /\ \/ run'[r].pc = "report"
               \/ run'[r].pc = "after" /\ router # "rebooting"
               \/ run'[r].pc = "returning"
            /\ result'[r] # "success"
        BY <3>3 DEF ProbeBack, Goto, End, Wait, Answered, TypeOK
      <4>3. QED
        BY <2>2, <2>3, <4>1, <4>2 DEF Seen
    <3>4. CASE After(r)
      <4>1. version = "new"
        BY <2>1, <3>4 DEF After, Faultless, Seen
      <4>2. QED
        BY <2>2, <4>1 DEF Seen
    <3>5. CASE Report(r)
      <4>1. Seen(r) /\ run'[r].pc = "done" /\ result'[r] = result[r]
        BY <2>1, <3>5 DEF Report, Goto, Faultless, TypeOK
      <4>2. QED
        BY <2>2, <4>1 DEF Seen
    <3>6. QED
      BY <1>2, <3>1, <3>2, <3>3, <3>4, <3>5 DEF Apply
  <2>6. QED
    BY <2>1, <2>2, <2>3, <2>4, <2>5 DEF Faultless, Seen
<1>3. QED
  BY <1>1, <1>2 DEF Next

\* Until the first SSH failure or power cut, a run that reports success left the
\* new version running, however many runs overlap (apply.py:221-262).
THEOREM SuccessIsReal == Spec => []SuccessWithoutFaults
<1>1. Init => Faultless
  BY DEF Init, Faultless, Seen
<1>2. Faultless => SuccessWithoutFaults
  BY DEF Faultless, Seen, SuccessWithoutFaults
<1>3. QED
  BY <1>1, <1>2, TypeCorrect, FaultlessStep, PTL DEF Spec

=============================================================================
