---------------------------- MODULE UpdateApply ----------------------------
(***************************************************************************)
(* The approval-gated RouterOS update (apply.py): pre-checks, the install  *)
(* command, the wait for the router to drop and to come back, the closing  *)
(* snapshot, and the job the caller posts (cli.py, commands.py).           *)
(*                                                                         *)
(* A run is one apply_update: the command thread's and an operator's at a  *)
(* shell may overlap on one router.  The router itself is the environment: *)
(* it downloads, fails to, reboots, and comes back or never does.          *)
(***************************************************************************)
EXTENDS Naturals

CONSTANTS
    Runs,           \* apply_update calls
    Polls,          \* probes that fit between the install and the deadline
    RequireBackup,  \* require_backup (--skip-backup-check is FALSE)
    MaxFaults       \* bound: SSH failures of a router that is up, power cuts

ASSUME ConstantsAssumption ==
    /\ Polls \in Nat \ {0}
    /\ RequireBackup \in BOOLEAN
    /\ MaxFaults \in Nat

VARIABLES
    router,     \* "up", "installing" (downloading), "rebooting"
    version,    \* "old", or "new": the latest one
    staged,     \* a downloaded update will be installed by the next boot
    space,      \* free-hdd-space: "enough", "low" or "unparsable"
    backup,     \* find_recent_backup finds a file
    run,        \* where each run is, and the probes it has left
    result,     \* how it ended: "none", "success", "aborted", "failed", "escaped"
    job,        \* status of its update_apply job, or "none"
    told,       \* history: the router executed the run's install command
    faults

vars == <<router, version, staged, space, backup, run, result, job, told, faults>>
box == <<router, version, staged>>

Steps == {"idle", "snapshot", "check", "backup", "install", "dropping",
          "returning", "after", "report", "done"}

\* Well-typed; a run has a result exactly from its report on, and only an
\* update that is still to be installed is staged.
TypeOK ==
    /\ router \in {"up", "installing", "rebooting"}
    /\ version \in {"old", "new"}
    /\ staged \in BOOLEAN
    /\ staged => router = "rebooting" /\ version = "old"
    /\ space \in {"enough", "low", "unparsable"}
    /\ backup \in BOOLEAN
    /\ run \in [Runs -> [pc : Steps, left : 0..Polls]]
    /\ result \in [Runs -> {"none", "success", "aborted", "failed", "escaped"}]
    /\ \A r \in Runs : result[r] # "none" <=> run[r].pc \in {"report", "done"}
    /\ job \in [Runs -> {"none", "success", "failed"}]
    /\ told \subseteq Runs
    /\ faults \in 0..MaxFaults

Init ==
    /\ router = "up" /\ version = "old" /\ staged = FALSE
    /\ space \in {"enough", "low", "unparsable"}
    /\ backup \in BOOLEAN
    /\ run = [r \in Runs |-> [pc |-> "idle", left |-> Polls]]
    /\ result = [r \in Runs |-> "none"]
    /\ job = [r \in Runs |-> "none"]
    /\ told = {}
    /\ faults = 0

-----------------------------------------------------------------------------
(* The router and the backups                                              *)

\* The download is complete: RouterOS reboots to install it.
Reboot ==
    /\ router = "installing"
    /\ router' = "rebooting"
    /\ staged' = TRUE
    /\ UNCHANGED <<version, space, backup, run, result, job, told, faults>>

\* The download fails: the router stays up as it was.
DownloadFails ==
    /\ router = "installing"
    /\ router' = "up"
    /\ UNCHANGED <<version, staged, space, backup, run, result, job, told, faults>>

Return ==
    /\ router = "rebooting"
    /\ router' = "up"
    /\ version' = IF staged THEN "new" ELSE version
    /\ staged' = FALSE
    /\ UNCHANGED <<space, backup, run, result, job, told, faults>>

\* A reboot nobody asked for; a download under way is lost.
PowerCut ==
    /\ router # "rebooting"
    /\ faults < MaxFaults
    /\ faults' = faults + 1
    /\ router' = "rebooting"
    /\ UNCHANGED <<version, staged, space, backup, run, result, job, told>>

\* The interval backup runs, or the newest one grows too old.
BackupChanges ==
    /\ backup' = ~backup
    /\ UNCHANGED <<box, space, run, result, job, told, faults>>

-----------------------------------------------------------------------------
(* apply_update                                                            *)

\* One SSH command: answered by a router that is up, unless a fault hits it.
Answered == router # "rebooting" /\ UNCHANGED faults
Unanswered ==
    \/ router = "rebooting" /\ UNCHANGED faults
    \/ router # "rebooting" /\ faults < MaxFaults /\ faults' = faults + 1

Goto(r, pc) == run' = [run EXCEPT ![r].pc = pc] /\ UNCHANGED result
End(r, how) ==
    /\ run' = [run EXCEPT ![r].pc = "report"]
    /\ result' = [result EXCEPT ![r] = how]

Begin(r) ==
    /\ run[r].pc = "idle"
    /\ Goto(r, "snapshot")
    /\ UNCHANGED <<box, space, backup, job, told, faults>>

\* Pre-checks 1 and 2: the snapshot, and the free space it shows.
Snapshot(r) ==
    /\ run[r].pc = "snapshot"
    /\ \/ Unanswered /\ End(r, "aborted")
       \/ Answered /\ space # "enough" /\ End(r, "aborted")
       \/ Answered /\ space = "enough" /\ Goto(r, "check")
    /\ UNCHANGED <<box, space, backup, job, told>>

\* Pre-check 3: run_update_check.  Its UpdateCheckError is nobody's to catch.
Check(r) ==
    /\ run[r].pc = "check"
    /\ \/ Unanswered /\ End(r, "escaped")
       \/ Answered /\ version = "new" /\ End(r, "aborted")
       \/ Answered /\ version = "old" /\ Goto(r, "backup")
    /\ UNCHANGED <<box, space, backup, job, told>>

\* Pre-check 4: a recent backup on disk.
Backup(r) ==
    /\ run[r].pc = "backup"
    /\ IF RequireBackup /\ ~backup THEN End(r, "aborted") ELSE Goto(r, "install")
    /\ UNCHANGED <<box, space, backup, job, told, faults>>

\* The router receives `install`; an update it already downloads or has makes
\* the command a no-op.
Told(r) ==
    /\ told' = told \cup {r}
    /\ router' = IF router = "up" /\ version = "old" THEN "installing" ELSE router

InstallAborts(r) ==
    /\ run[r].pc = "install"
    /\ \/ router # "rebooting" /\ Told(r) /\ Goto(r, "dropping") /\ UNCHANGED faults
       \/ Unanswered /\ Told(r) /\ End(r, "aborted")
       \/ Unanswered /\ UNCHANGED <<told, router>> /\ End(r, "aborted")
    /\ UNCHANGED <<version, staged, space, backup, job>>

InstallNoDrop(r) ==
    /\ run[r].pc = "install"
    /\ \/ router # "rebooting" /\ Told(r) /\ UNCHANGED faults
       \/ Unanswered /\ UNCHANGED <<told, router>>
    /\ Goto(r, "returning")
    /\ UNCHANGED <<version, staged, space, backup, job>>

\* The command reaches the router, with or without an answer, or it does not;
\* the error says nothing, so the run waits for the reboot either way.
Install(r) ==
    /\ run[r].pc = "install"
    /\ \/ router # "rebooting" /\ Told(r) /\ UNCHANGED faults
       \/ Unanswered /\ UNCHANGED <<told, router>>
    /\ Goto(r, "dropping")
    /\ UNCHANGED <<version, staged, space, backup, job>>

\* A probe of wait_for_reboot takes time off the deadline both loops share.
Wait(r) == run' = [run EXCEPT ![r].left = @ - 1] /\ UNCHANGED result

\* Any failing probe counts as "gone".
ProbeDrop(r) ==
    /\ run[r].pc = "dropping"
    /\ \/ run[r].left = 0 /\ End(r, "failed") /\ UNCHANGED faults
       \/ run[r].left > 0 /\ Unanswered /\ Goto(r, "returning")
       \/ run[r].left > 0 /\ Answered /\ Wait(r)
    /\ UNCHANGED <<box, space, backup, job, told>>

ProbeBackForever(r) ==
    /\ run[r].pc = "returning"
    /\ \/ Answered /\ Goto(r, "after")
       \/ Unanswered /\ UNCHANGED <<run, result>>
    /\ UNCHANGED <<box, space, backup, job, told>>

\* Any answered probe counts as "back".
ProbeBack(r) ==
    /\ run[r].pc = "returning"
    /\ \/ run[r].left = 0 /\ End(r, "failed") /\ UNCHANGED faults
       \/ run[r].left > 0 /\ Answered /\ Goto(r, "after")
       \/ run[r].left > 0 /\ Unanswered /\ Wait(r)
    /\ UNCHANGED <<box, space, backup, job, told>>

AfterWithoutResult(r) ==
    /\ run[r].pc = "after"
    /\ \/ Unanswered /\ End(r, "failed")
       \/ Answered /\ Goto(r, "report")
    /\ UNCHANGED <<box, space, backup, job, told>>

\* The closing snapshot records a version; nobody compares it.
After(r) ==
    /\ run[r].pc = "after"
    /\ \/ Unanswered /\ End(r, "failed")
       \/ Answered /\ End(r, "success")
    /\ UNCHANGED <<box, space, backup, job, told>>

\* The caller posts the job: success, or failed (aborted_pre_install tells an
\* abort).  An escaped exception passes the callers' handlers: no job.
Report(r) ==
    /\ run[r].pc = "report"
    /\ job' = [job EXCEPT ![r] = IF result[r] = "escaped" THEN "none"
                                 ELSE IF result[r] = "success" THEN "success"
                                 ELSE "failed"]
    /\ Goto(r, "done")
    /\ UNCHANGED <<box, space, backup, told, faults>>

-----------------------------------------------------------------------------
Apply(r) ==
    \/ Snapshot(r) \/ Check(r) \/ Backup(r) \/ Install(r)
    \/ ProbeDrop(r) \/ ProbeBack(r) \/ After(r) \/ Report(r)

Next ==
    \/ Reboot \/ DownloadFails \/ Return \/ PowerCut \/ BackupChanges
    \/ \E r \in Runs : Begin(r) \/ Apply(r)

Spec == Init /\ [][Next]_vars

\* A started run goes on (every step has a timeout); the router owes nothing.
FairSpec == Spec /\ \A r \in Runs : WF_vars(Apply(r))

-----------------------------------------------------------------------------
(* Properties                                                              *)

\* "aborted" is a promise: the router was not touched (apply.py:39-40,
\* docs/agent-protocol.md:158).  No run that is or will be reported as aborted
\* ever had its install command executed; nor had one that ends in an exception
\* nobody catches, of which no job tells anybody.
AbortIsHarmless ==
    \A r \in Runs : result[r] \in {"aborted", "escaped"} => r \notin told

\* Without a single SSH failure or power cut, success means the new version
\* runs, whatever other runs do and whether or not the download worked.
SuccessWithoutFaults ==
    faults = 0 => \A r \in Runs : result[r] = "success" => version = "new"

\* Every started run ends, although the router may never come back: the
\* deadline covers both loops of wait_for_reboot.
ApplyEnds == \A r \in Runs : run[r].pc # "idle" ~> run[r].pc = "done"

\* docs/agent-protocol.md:157: "status=success: install completed; before/after
\* versions captured."  A single failed probe of a router that is still up
\* counts as the reboot, and the two versions are not compared.
SuccessIsInstalled == \A r \in Runs : job[r] = "success" => version = "new"
=============================================================================
