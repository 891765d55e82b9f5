----------------------------- MODULE ExportGit -----------------------------
(***************************************************************************)
(* The export pipeline: capture a router's configuration, write and commit *)
(* it to the one local Git repository every thread of the agent shares,    *)
(* push the branch to the mirror, post the job (export.py, gitrepo.py, and *)
(* the job mapping of daemon.py and commands.py).                          *)
(*                                                                         *)
(* A thread is a device's own loop or the command thread; a device can be  *)
(* exported by both at once.  Commits are numbered; a configuration is the *)
(* text left after normalise_export.                                       *)
(***************************************************************************)
EXTENDS Naturals, Sequences, FiniteSets

CONSTANTS
    Devices,
    Threads,
    Serves,         \* the devices a thread exports, a function on Threads
    NoThread,       \* a lock is free
    NoDevice,       \* the device of a thread that exports none
    Configs,        \* normalised configurations
    NoFile,         \* a path that does not exist
    Torn,           \* a file whose write_text was cut short
    PushEnabled,    \* git.remote is configured with push = true
    MaxChanges,     \* bound: configuration changes on the routers
    MaxLog,         \* bound: commits
    MaxFaults       \* bound: failing writes and git commands, lost posts, crashes

ASSUME ConstantsAssumption ==
    /\ IsFiniteSet(Threads) /\ Serves \in [Threads -> SUBSET Devices]
    /\ NoThread \notin Threads
    /\ NoDevice \notin Devices
    /\ NoFile \notin Configs
    /\ Torn \notin Configs \cup {NoFile}
    /\ PushEnabled \in BOOLEAN
    /\ MaxChanges \in Nat /\ MaxLog \in Nat /\ MaxFaults \in Nat

Files == Configs \cup {NoFile, Torn}

VARIABLES
    router,     \* the running configuration of every device
    disk,       \* the working tree, one file per device
    index,      \* the staging area
    log,        \* commits on HEAD: the device named in the message, the tree
    remote,     \* how many commits the mirror's branch has
    thread,     \* export runs
    commitLock, pushLock,
    posted,     \* status of the drift job of every commit, or "none"
    lost,       \* history: commits whose job or push died with a fault
    broken,     \* history: devices whose staging a fault left half done
    changes, faults

vars == <<router, disk, index, log, remote, thread, commitLock, pushLock, posted,
          lost, broken, changes, faults>>

Commits == 1..MaxLog
Results == {"no change", "changed", "push failed", "error"}
Idle == [pc |-> "idle", dev |-> NoDevice, text |-> NoFile, commit |-> 0, base |-> 0,
         result |-> "error"]
Thread == [pc : {"idle", "captured", "write", "add", "commit", "rev-parse", "push",
                 "pushing", "report"},
           dev : Devices \cup {NoDevice}, text : Configs \cup {NoFile}, commit : 0..MaxLog,
           base : 0..MaxLog, result : Results]

Committed(d) == IF log = <<>> THEN NoFile ELSE log[Len(log)].tree[d]
Staging(t) == thread[t].pc \in {"write", "add", "commit", "rev-parse"}

\* Well-typed repository, threads and locks; each lock is held exactly by a
\* thread inside its critical section.
TypeOK ==
    /\ router \in [Devices -> Configs]
    /\ disk \in [Devices -> Files]
    /\ index \in [Devices -> Configs \cup {NoFile}]
    /\ log \in Seq([by : Devices, tree : [Devices -> Configs \cup {NoFile}]])
    /\ Len(log) <= MaxLog
    /\ remote \in 0..Len(log)
    /\ thread \in [Threads -> Thread]
    /\ \A t \in Threads : thread[t].pc # "idle" => thread[t].dev \in Serves[t]
    /\ \A t \in Threads : commitLock = t <=> Staging(t)
    /\ \A t \in Threads : pushLock = t <=> thread[t].pc = "pushing"
    /\ commitLock \in Threads \cup {NoThread}
    /\ pushLock \in Threads \cup {NoThread}
    /\ posted \in [Commits -> {"none", "warning", "failed"}]
    /\ lost \subseteq Commits
    /\ broken \subseteq Devices
    /\ changes \in 0..MaxChanges
    /\ faults \in 0..MaxFaults

Init ==
    /\ router \in [Devices -> Configs]
    /\ disk = [d \in Devices |-> NoFile]
    /\ index = [d \in Devices |-> NoFile]
    /\ log = <<>>
    /\ remote = 0
    /\ thread = [t \in Threads |-> Idle]
    /\ commitLock = NoThread /\ pushLock = NoThread
    /\ posted = [n \in Commits |-> "none"]
    /\ lost = {} /\ broken = {}
    /\ changes = 0 /\ faults = 0

repo == <<disk, index, log>>
locks == <<commitLock, pushLock>>
books == <<posted, lost, broken>>

\* Somebody reconfigures a router.
Reconfigure(d, v) ==
    /\ changes < MaxChanges
    /\ router[d] # v
    /\ router' = [router EXCEPT ![d] = v]
    /\ changes' = changes + 1
    /\ UNCHANGED <<repo, remote, thread, locks, books, faults>>

-----------------------------------------------------------------------------
(* ExportRunner.run                                                        *)

\* /export over SSH.  A failing capture raises before anything is touched.
\* The bound: every run under way may still add a commit.
Capture(t, d) ==
    /\ thread[t].pc = "idle"
    /\ d \in Serves[t]
    /\ Len(log) + Cardinality({u \in Threads : thread[u].pc # "idle"}) < MaxLog
    /\ thread' = [thread EXCEPT ![t] = [Idle EXCEPT !.pc = "captured", !.dev = d,
                                                    !.text = router[d]]]
    /\ UNCHANGED <<router, repo, remote, locks, books, changes, faults>>

AcquireNothing(t) ==
    /\ thread[t].pc = "captured"
    /\ thread' = [thread EXCEPT ![t].pc = "write"]
    /\ commitLock' = t
    /\ UNCHANGED <<router, repo, remote, pushLock, books, changes, faults>>

\* write_and_commit holds _commit_lock to its end.
Acquire(t) ==
    /\ thread[t].pc = "captured"
    /\ commitLock = NoThread
    /\ thread' = [thread EXCEPT ![t].pc = "write"]
    /\ commitLock' = t
    /\ UNCHANGED <<router, repo, remote, pushLock, books, changes, faults>>

LeaveLocked(t, result) ==
    /\ thread' = [thread EXCEPT ![t].pc = "report", ![t].result = result]
    /\ UNCHANGED commitLock

\* The lock is released and the run goes on to its report.
Leave(t, result) ==
    /\ thread' = [thread EXCEPT ![t].pc = "report", ![t].result = result]
    /\ commitLock' = NoThread

\* The file on disk already says what the router said: no commit.
SameOnDisk(t) ==
    /\ thread[t].pc = "write"
    /\ disk[thread[t].dev] = thread[t].text
    /\ Leave(t, "no change")
    /\ UNCHANGED <<router, repo, remote, pushLock, books, changes, faults>>

Write(t) ==
    LET d == thread[t].dev IN
    /\ thread[t].pc = "write"
    /\ disk[d] # thread[t].text
    /\ disk' = [disk EXCEPT ![d] = thread[t].text]
    /\ thread' = [thread EXCEPT ![t].pc = "add"]
    /\ UNCHANGED <<router, index, log, remote, locks, books, changes, faults>>

AddNothing(t) ==
    /\ thread[t].pc = "add"
    /\ thread' = [thread EXCEPT ![t].pc = "commit"]
    /\ UNCHANGED <<router, repo, remote, locks, books, changes, faults>>

\* `git add` of the one path.
Add(t) ==
    LET d == thread[t].dev IN
    /\ thread[t].pc = "add"
    /\ index' = [index EXCEPT ![d] = disk[d]]
    /\ thread' = [thread EXCEPT ![t].pc = "commit"]
    /\ UNCHANGED <<router, disk, log, remote, locks, books, changes, faults>>

\* `git diff --cached` finds the staging area equal to HEAD: no commit.
NothingStaged(t) ==
    /\ thread[t].pc = "commit"
    /\ \A d \in Devices : index[d] = Committed(d)
    /\ Leave(t, "no change")
    /\ broken' = broken \ {thread[t].dev}
    /\ UNCHANGED <<router, repo, remote, pushLock, posted, lost, changes, faults>>

\* `git commit` takes all that is staged, under this device's name.
Commit(t) ==
    LET d == thread[t].dev IN
    /\ thread[t].pc = "commit"
    /\ \E e \in Devices : index[e] # Committed(e)
    /\ log' = Append(log, [by |-> d, tree |-> index])
    /\ broken' = broken \ {d}
    /\ thread' = [thread EXCEPT ![t].pc = "rev-parse", ![t].commit = Len(log) + 1]
    /\ UNCHANGED <<router, disk, index, remote, locks, posted, lost, changes, faults>>

NeverPush(t) ==
    /\ thread[t].pc = "rev-parse"
    /\ Leave(t, "changed")
    /\ UNCHANGED <<router, repo, remote, pushLock, books, changes, faults>>

\* `git rev-parse HEAD`, numstat, and out of the lock; a push follows when a
\* commit was made and a remote is configured (_maybe_push).
CommitDone(t) ==
    /\ thread[t].pc = "rev-parse"
    /\ IF PushEnabled
         THEN /\ thread' = [thread EXCEPT ![t].pc = "push"]
              /\ commitLock' = NoThread
         ELSE Leave(t, "changed")
    /\ UNCHANGED <<router, repo, remote, pushLock, books, changes, faults>>

PushUnlocked(t) ==
    /\ thread[t].pc = "push"
    /\ pushLock' = t
    /\ thread' = [thread EXCEPT ![t].pc = "pushing", ![t].base = remote]
    /\ UNCHANGED <<router, repo, remote, commitLock, books, changes, faults>>

\* `git push` starts, alone, from what the mirror has now.
Push(t) ==
    /\ thread[t].pc = "push"
    /\ pushLock = NoThread
    /\ pushLock' = t
    /\ thread' = [thread EXCEPT ![t].pc = "pushing", ![t].base = remote]
    /\ UNCHANGED <<router, repo, remote, commitLock, books, changes, faults>>

\* ... and ends: HEAD as it was at some moment of the push, with every commit up
\* to it, is on the mirror; had the mirror's branch moved meanwhile, its ref
\* lock would have refused the update.
PushDone(t) ==
    LET ok == thread[t].base = remote IN
    /\ thread[t].pc = "pushing"
    /\ \/ ok /\ remote' \in {n \in thread[t].commit..Len(log) : remote <= n}
       \/ ~ok /\ UNCHANGED remote
    /\ pushLock' = NoThread
    /\ thread' = [thread EXCEPT ![t].pc = "report",
                                ![t].result = IF ok THEN "changed" ELSE "push failed"]
    /\ UNCHANGED <<router, repo, commitLock, books, changes, faults>>

ReportSuccessOnly(t) ==
    LET n == thread[t].commit IN
    /\ thread[t].pc = "report"
    /\ posted' = IF thread[t].result = "changed" THEN [posted EXCEPT ![n] = "warning"]
                                                 ELSE posted
    /\ thread' = [thread EXCEPT ![t] = Idle]
    /\ UNCHANGED <<router, repo, remote, locks, lost, broken, changes, faults>>

\* The job of the run: drift/warning, drift/failed after a failed push, or an
\* export job when there is no commit to speak of.
Report(t) ==
    LET n == thread[t].commit IN
    /\ thread[t].pc = "report"
    /\ posted' = IF thread[t].result \in {"changed", "push failed"}
                 THEN [posted EXCEPT ![n] = IF thread[t].result = "changed"
                                            THEN "warning" ELSE "failed"]
                 ELSE posted
    /\ thread' = [thread EXCEPT ![t] = Idle]
    /\ UNCHANGED <<router, repo, remote, locks, lost, broken, changes, faults>>

-----------------------------------------------------------------------------
(* Faults                                                                  *)

Fault ==
    /\ faults < MaxFaults
    /\ faults' = faults + 1

\* mkdir, read_text or write_text raises, no GitError: the lock is released and no
\* job is posted.  The file may be cut short, or written in full all the same;
\* one that was cut short within a character cannot even be read again.
WriteFails(t) ==
    LET d == thread[t].dev IN
    /\ thread[t].pc = "write"
    /\ \/ /\ Fault
          /\ \E left \in {Torn, thread[t].text} : disk' = [disk EXCEPT ![d] = left]
          /\ broken' = broken \cup {d}
       \/ Fault /\ UNCHANGED <<disk, broken>>
       \/ disk[d] = Torn /\ UNCHANGED <<disk, broken, faults>>
    /\ thread' = [thread EXCEPT ![t] = Idle]
    /\ commitLock' = NoThread
    /\ UNCHANGED <<router, index, log, remote, pushLock, posted, lost, changes>>

\* `git add` or `git commit` fails (GitError), or `git diff` fails, which
\* _has_staged_changes takes for "nothing staged".  The file stays written.
StagingFails(t) ==
    /\ Fault
    /\ \/ thread[t].pc \in {"add", "commit"} /\ Leave(t, "error")
       \/ thread[t].pc = "commit" /\ Leave(t, "no change")
    /\ broken' = broken \cup {thread[t].dev}
    /\ UNCHANGED <<router, repo, remote, pushLock, posted, lost, changes>>

\* The commit landed, but rev-parse fails: the run is reported as an error.
RevParseFails(t) ==
    /\ Fault
    /\ thread[t].pc = "rev-parse"
    /\ Leave(t, "error")
    /\ lost' = lost \cup {thread[t].commit}
    /\ UNCHANGED <<router, repo, remote, pushLock, posted, broken, changes>>

\* The mirror is unreachable or the push times out: GitPushError.  What was
\* pushed may have landed before git was killed.
PushFails(t) ==
    /\ Fault
    /\ thread[t].pc = "pushing"
    /\ \/ UNCHANGED remote
       \/ /\ thread[t].base = remote
          /\ remote' \in {n \in thread[t].commit..Len(log) : remote <= n}
    /\ pushLock' = NoThread
    /\ thread' = [thread EXCEPT ![t].pc = "report", ![t].result = "push failed"]
    /\ UNCHANGED <<router, repo, commitLock, books, changes>>

\* The job cannot be delivered: logged and forgotten.
PostFails(t) ==
    /\ Fault
    /\ thread[t].pc = "report"
    /\ lost' = lost \cup ({thread[t].commit} \ {0})
    /\ thread' = [thread EXCEPT ![t] = Idle]
    /\ UNCHANGED <<router, repo, remote, locks, posted, broken, changes>>

\* The agent dies; a file being written may be cut short.
Crash ==
    /\ Fault
    /\ thread' = [t \in Threads |-> Idle]
    /\ commitLock' = NoThread /\ pushLock' = NoThread
    /\ lost' = lost \cup ({thread[t].commit : t \in Threads} \ {0})
    /\ \E torn \in SUBSET {thread[t].dev : t \in {u \in Threads : thread[u].pc = "write"}} :
         /\ disk' = [d \in Devices |-> IF d \in torn THEN Torn ELSE disk[d]]
         /\ broken' = broken \cup torn \cup {thread[t].dev :
                          t \in {u \in Threads : thread[u].pc \in {"add", "commit"}}}
    /\ UNCHANGED <<router, index, log, remote, posted, changes>>

-----------------------------------------------------------------------------
Run(t) ==
    \/ \E d \in Devices : Capture(t, d)
    \/ Acquire(t) \/ SameOnDisk(t) \/ Write(t) \/ Add(t)
    \/ NothingStaged(t) \/ Commit(t) \/ CommitDone(t)
    \/ Push(t) \/ PushDone(t)
    \/ Report(t)

GoWrong(t) ==
    WriteFails(t) \/ StagingFails(t) \/ RevParseFails(t) \/ PushFails(t) \/ PostFails(t)

Next ==
    \/ \E d \in Devices, v \in Configs : Reconfigure(d, v)
    \/ \E t \in Threads : Run(t) \/ GoWrong(t)
    \/ Crash

Spec == Init /\ [][Next]_vars

-----------------------------------------------------------------------------
(* Properties                                                              *)

\* A commit made under a device's name changes that device's file and no
\* other (gitrepo.py:91-95), except what an earlier failure left staged.
CommitIsOwn ==
    [][\A t \in Threads, d \in Devices :
         Len(log') > Len(log) /\ log'[Len(log')].tree[d] # Committed(d)
            => d = log'[Len(log')].by \/ d \in broken]_vars

\* While no thread is staging, what lies on disk is what HEAD says, so that
\* "the file already matched on disk" means "it is committed".  Only a git
\* command or a process that failed half way makes an exception.
DiskIsCommitted ==
    \A d \in Devices :
        disk[d] # Committed(d) => d \in broken \/ \E t \in Threads : Staging(t) /\ thread[t].dev = d

\* Every commit is accounted for: its drift job is posted, its run is under
\* way, or the run or its post died with a fault.
DriftIsPosted ==
    \A n \in 1..Len(log) :
        posted[n] # "none" \/ n \in lost \/ \E t \in Threads : thread[t].commit = n

\* A drift job without a failure says the change is on the mirror too.
WarningIsMirrored ==
    PushEnabled => \A n \in 1..Len(log) : posted[n] = "warning" => n <= remote

\* A push fails only when something failed: two exports at once never make
\* each other's push fail (gitrepo.py:97-100).
NoFalsePushError ==
    faults = 0 => \A t \in Threads : thread[t].result # "push failed"

\* daemon.py:429-431: "A push failure means the offsite mirror is behind; treat
\* that as a job failure regardless of whether there was config drift."  A run
\* that finds no change does not push, so it reports success while the mirror
\* is still behind from an earlier push that failed and was reported (no run
\* was interrupted, and nobody else is exporting).
SuccessIsMirrored ==
    \A t \in Threads :
        /\ PushEnabled
        /\ thread[t].pc = "report"
        /\ thread[t].result = "no change"
        /\ lost = {}
        /\ \A u \in Threads \ {t} : thread[u].pc = "idle"
        => remote = Len(log)
=============================================================================
