-------------------------- MODULE BackupPipeline ---------------------------
(***************************************************************************)
(* One router's encrypted backups, from the router to the catalog: the     *)
(* agent saves, pulls, cleans up, hashes, rotates and uploads (backup.py,  *)
(* minder.py), the worker stores the body in R2 and a row in D1            *)
(* (ingest.ts).                                                            *)
(*                                                                         *)
(* A run is one BackupRunner.run.  The device's own loop and the command   *)
(* thread can run at once; a file is named after the second a run starts   *)
(* in, so two runs may share a name.  The content run r saves is r itself. *)
(***************************************************************************)
EXTENDS Naturals, FiniteSets

CONSTANTS
    Runs,           \* BackupRunner.run calls
    ThreadOf,       \* the agent thread of a run, a function on Runs
    NoRun,          \* no content: a file, body or row that does not exist
    Torn,           \* a file whose pull has not finished, or broke off
    Calls,          \* bound: upload attempts in flight at once
    NoCall,
    Retain,         \* backup.retention
    MaxTime,        \* bound: the clock, and with it the file names
    MaxFaults       \* bound: SSH failures, lost first attempts, kills of the agent

ASSUME ConstantsAssumption ==
    /\ IsFiniteSet(Runs) /\ NoRun \notin Runs
    /\ Torn \notin Runs \cup {NoRun}
    /\ NoCall \notin Calls
    /\ Retain \in Nat \ {0}
    /\ MaxTime \in Nat \ {0}
    /\ MaxFaults \in Nat

Threads == {ThreadOf[r] : r \in Runs}
Names == 1..MaxTime         \* minder-<device>-<second>.backup
Contents == Runs \cup {Torn}

VARIABLES
    clock,
    run,        \* the runs
    router,     \* files on the router
    local,      \* files in the agent's archive
    newer,      \* for each file of the archive, the files written since it was
    call,       \* upload attempts
    r2,         \* bodies in R2
    rows,       \* sha256 column of backup_files, by file name
    live,       \* the device's row exists
    litter,     \* history: names no run succeeded in removing from the router
    faults

vars == <<clock, run, router, local, newer, call, r2, rows, live, litter, faults>>
archive == <<local, newer>>
worker == <<call, r2, rows, live>>

IdleRun == [pc |-> "idle", name |-> 1, sha |-> NoRun, result |-> "none",
            uploaded |-> FALSE, call |-> NoCall, tries |-> 0,
            listed |-> {}]
IdleCall == [pc |-> "idle", name |-> 1, body |-> NoRun, sha |-> NoRun, ok |-> FALSE]

Run == [pc : {"idle", "save", "pull", "pulling", "cleanup", "hash", "list", "rotate", "upload",
              "waiting", "done"},
        name : Names, sha : Contents \cup {NoRun},
        result : {"none", "success", "failed", "crashed", "killed"}, uploaded : BOOLEAN,
        call : Calls \cup {NoCall}, tries : 0..2,
        listed : SUBSET Names]
Call == [pc : {"idle", "sent", "put", "insert", "answered"}, name : Names,
         body : Contents \cup {NoRun}, sha : Contents \cup {NoRun}, ok : BOOLEAN]

Files == {n \in Names : local[n] # NoRun}

\* Well-typed files, runs and attempts; the times of writing put the files of the
\* archive, and no others, in a total order.
TypeOK ==
    /\ clock \in Names
    /\ run \in [Runs -> Run]
    /\ \A r \in Runs : run[r].pc = "waiting" <=> run[r].call # NoCall
    /\ router \in [Names -> Runs \cup {NoRun}]
    /\ local \in [Names -> Contents \cup {NoRun}]
    /\ newer \in [Names -> SUBSET Names]
    /\ \A n \in Names : newer[n] # {} => n \in Files /\ newer[n] \subseteq Files \ {n}
    /\ \A m, n \in Files : m # n => (m \in newer[n] <=> n \notin newer[m])
    /\ \A n \in Names : \A m \in newer[n] : newer[m] \subseteq newer[n]
    /\ call \in [Calls -> Call]
    /\ r2 \in [Names -> Contents \cup {NoRun}]
    /\ rows \in [Names -> Contents \cup {NoRun}]
    /\ live \in BOOLEAN
    /\ litter \subseteq Names
    /\ faults \in 0..MaxFaults

Init ==
    /\ clock = 1
    /\ run = [r \in Runs |-> IdleRun]
    /\ router = [n \in Names |-> NoRun]
    /\ local = [n \in Names |-> NoRun]
    /\ newer = [n \in Names |-> {}]
    /\ call = [k \in Calls |-> IdleCall]
    /\ r2 = [n \in Names |-> NoRun]
    /\ rows = [n \in Names |-> NoRun]
    /\ live = TRUE
    /\ litter = {}
    /\ faults = 0

Tick ==
    /\ clock < MaxTime
    /\ clock' = clock + 1
    /\ UNCHANGED <<run, router, archive, worker, litter, faults>>

Fault ==
    /\ faults < MaxFaults
    /\ faults' = faults + 1

Goto(r, pc) == run' = [run EXCEPT ![r].pc = pc]
Fail(r, pc) == run' = [run EXCEPT ![r].pc = pc, ![r].result = "failed", ![r].sha = NoRun]
Done(s, result, uploaded) ==
    [s EXCEPT !.pc = "done", !.result = result, !.uploaded = uploaded, !.sha = NoRun,
              !.call = NoCall, !.tries = 0, !.listed = {}]

-----------------------------------------------------------------------------
(* BackupRunner.run                                                        *)

Begin(r) ==
    /\ run[r].pc = "idle"
    /\ \A s \in Runs \ {r} : ThreadOf[s] = ThreadOf[r] => run[s].pc \in {"idle", "done"}
    /\ run' = [run EXCEPT ![r].pc = "save", ![r].name = clock]
    /\ UNCHANGED <<clock, router, archive, worker, litter, faults>>

\* /system backup save; on a TransportError the file may be there or not.
Save(r) ==
    LET saved == [router EXCEPT ![run[r].name] = r] IN
    /\ run[r].pc = "save"
    /\ \/ router' = saved /\ Goto(r, "pull") /\ UNCHANGED faults
       \/ router' \in {router, saved} /\ Fail(r, "cleanup") /\ Fault
    /\ UNCHANGED <<clock, archive, worker, litter>>

WrittenInPlace(n, v) ==
    /\ local' = [local EXCEPT ![n] = v]
    /\ newer' = [m \in Names |-> IF m \in Files \ {n} THEN newer[m] \cup {n} ELSE newer[m]]

\* The archive after file n was written to and now holds v: n is the newest.
Written(n, v) ==
    /\ local' = [local EXCEPT ![n] = v]
    /\ newer' = [m \in Names |-> IF m \in Files \ {n} THEN newer[m] \cup {n} ELSE {}]

\* sftp.get truncates the local file before it asks for the remote one.
PullBegin(r) ==
    LET n == run[r].name IN
    /\ run[r].pc = "pull"
    /\ Written(n, Torn)
    /\ IF router[n] = NoRun
         THEN Fail(r, "cleanup")
         ELSE run' = [run EXCEPT ![r].pc = "pulling", ![r].sha = router[n]]
    /\ UNCHANGED <<clock, router, worker, litter, faults>>

\* A part of the remote file arrives, which makes the local one the newest again.
\* (run[r].sha holds the remote content meanwhile.)
PullWrites(r) ==
    LET n == run[r].name IN
    /\ run[r].pc = "pulling"
    /\ n \in Files
    /\ Written(n, Torn)
    /\ UNCHANGED <<clock, run, router, worker, litter, faults>>

\* The copy is complete, unless another run is writing the same local file; when
\* another run's rotation took that file, sftp.get fails on its closing stat.
PullEnd(r) ==
    LET n == run[r].name
        shared == \E s \in Runs \ {r} : run[s].pc = "pulling" /\ run[s].name = n IN
    /\ run[r].pc = "pulling"
    /\ \/ /\ n \in Files
          /\ \E v \in {run[r].sha} \cup (IF shared THEN {Torn} ELSE {}) : Written(n, v)
          /\ run' = [run EXCEPT ![r].pc = "cleanup", ![r].sha = NoRun]
       \/ n \notin Files /\ Fail(r, "cleanup") /\ UNCHANGED archive
    /\ UNCHANGED <<clock, router, worker, litter, faults>>

\* The session cannot be opened, or it breaks and leaves what it wrote so far.
PullFails(r) ==
    /\ Fault
    /\ run[r].pc \in {"pull", "pulling"}
    /\ Fail(r, "cleanup")
    /\ UNCHANGED <<clock, router, archive, worker, litter>>

CleanupAfterSuccess(r) ==
    LET n == run[r].name
        ok == run[r].result = "none" IN
    /\ run[r].pc = "cleanup"
    /\ Goto(r, IF ok THEN "hash" ELSE "done")
    /\ \/ /\ router' = IF ok THEN [router EXCEPT ![n] = NoRun] ELSE router
          /\ UNCHANGED <<litter, faults>>
       \/ Fault /\ litter' = litter \cup {n} /\ UNCHANGED router
    /\ UNCHANGED <<clock, archive, worker>>

\* The finally clause removes the router's file, whatever happened before; a
\* failing removal is only logged.
Cleanup(r) ==
    LET n == run[r].name IN
    /\ run[r].pc = "cleanup"
    /\ Goto(r, IF run[r].result = "none" THEN "hash" ELSE "done")
    /\ \/ router' = [router EXCEPT ![n] = NoRun] /\ UNCHANGED <<litter, faults>>
       \/ Fault /\ litter' = litter \cup {n} /\ UNCHANGED router
    /\ UNCHANGED <<clock, archive, worker>>

\* stat and sha256 of the local file; another run's rotation may have taken it.
Hash(r) ==
    LET n == run[r].name IN
    /\ run[r].pc = "hash"
    /\ IF local[n] = NoRun
         THEN run' = [run EXCEPT ![r] = Done(@, "crashed", FALSE)]
         ELSE run' = [run EXCEPT ![r].pc = "list", ![r].sha = local[n]]
    /\ UNCHANGED <<clock, router, archive, worker, litter, faults>>

\* _rotate first lists the *.backup files.
List(r) ==
    /\ run[r].pc = "list"
    /\ run' = [run EXCEPT ![r].pc = "rotate", ![r].listed = Files]
    /\ UNCHANGED <<clock, router, archive, worker, litter, faults>>

\* The archive without the files in gone.
Without(gone) ==
    /\ local' = [n \in Names |-> IF n \in gone THEN NoRun ELSE local[n]]
    /\ newer' = [n \in Names |-> IF n \in gone THEN {} ELSE newer[n] \ gone]

\* The stat of a listed file that another run's rotation took meanwhile raises.
Missed(r) ==
    /\ run' = [run EXCEPT ![r] = Done(@, "crashed", FALSE)]
    /\ UNCHANGED archive

RotateTooMany(r) ==
    LET L == run[r].listed IN
    /\ run[r].pc = "rotate"
    /\ \/ ~(L \subseteq Files) /\ Missed(r)
       \/ /\ L \subseteq Files
          /\ Without({n \in L : Cardinality(newer[n] \cap L) >= Retain - 1})
          /\ run' = [run EXCEPT ![r].pc = "upload", ![r].listed = {}]
    /\ UNCHANGED <<clock, router, worker, litter, faults>>

\* It keeps the `retain` most recently written files of its list and removes the
\* others.
Rotate(r) ==
    LET L == run[r].listed IN
    /\ run[r].pc = "rotate"
    /\ \/ ~(L \subseteq Files) /\ Missed(r)
       \/ /\ L \subseteq Files
          /\ Without({n \in L : Cardinality(newer[n] \cap L) >= Retain})
          /\ run' = [run EXCEPT ![r].pc = "upload", ![r].listed = {}]
    /\ UNCHANGED <<clock, router, worker, litter, faults>>

RecentIsOldest(n) == n \in Files /\ \A m \in Files : n \notin newer[m]

\* find_recent_backup, by which an update finds the backup it requires: the most
\* recently written *.backup file (apply.py:88), as long as that is young enough.
Recent(n) == n \in Files /\ newer[n] = {}

-----------------------------------------------------------------------------
(* MinderClient.upload_backup: at most two attempts                        *)

Finish(r, uploaded) ==
    run' = [run EXCEPT ![r] = Done(@, "success", uploaded)]

\* Every attempt reads the file anew; a missing file ends the upload, which is
\* never fatal.
Send(r, k, tries) ==
    LET n == run[r].name IN
    IF local[n] = NoRun
    THEN Finish(r, FALSE) /\ UNCHANGED call
    ELSE /\ run' = [run EXCEPT ![r].pc = "waiting", ![r].call = k, ![r].tries = tries]
         /\ call' = [call EXCEPT ![k] = [pc |-> "sent", name |-> n, body |-> local[n],
                                         sha |-> run[r].sha, ok |-> FALSE]]

Upload(r, k) ==
    /\ run[r].pc = "upload"
    /\ call[k].pc = "idle"
    /\ Send(r, k, 1)
    /\ UNCHANGED <<clock, router, archive, r2, rows, live, litter, faults>>

\* A transport error or a 5xx; the first attempt may still be served later.
Retry(r, k) ==
    /\ run[r].pc = "waiting"
    /\ run[r].tries = 1
    /\ call[k].pc = "idle"
    /\ Fault
    /\ Send(r, k, 2)
    /\ UNCHANGED <<clock, router, archive, r2, rows, live, litter>>

GiveUpCheerfully(r) ==
    /\ run[r].pc = "waiting"
    /\ run[r].tries = 2
    /\ Finish(r, TRUE)
    /\ UNCHANGED <<clock, router, archive, worker, litter, faults>>

\* The second attempt fails as well (the bound counts the first): the error is
\* reported in the job, the backup still is a success.
GiveUp(r) ==
    /\ run[r].pc = "waiting"
    /\ run[r].tries = 2
    /\ Finish(r, FALSE)
    /\ UNCHANGED <<clock, router, archive, worker, litter, faults>>

\* A 2xx carries the id the job reports; a 4xx is an upload_error.
Uploaded(r) ==
    LET k == run[r].call IN
    /\ run[r].pc = "waiting"
    /\ call[k].pc = "answered"
    /\ Finish(r, call[k].ok)
    /\ call' = [call EXCEPT ![k] = IdleCall]
    /\ UNCHANGED <<clock, router, archive, r2, rows, live, litter, faults>>

\* An attempt nobody waits for is never answered, or its answer is not read.
Forget(k) ==
    /\ call[k].pc # "idle"
    /\ \A r \in Runs : run[r].call # k
    /\ call' = [call EXCEPT ![k] = IdleCall]
    /\ UNCHANGED <<clock, run, router, archive, r2, rows, live, litter, faults>>

-----------------------------------------------------------------------------
(* PUT /v1/ingest/backups/:device/:filename                                *)

Answer(k, ok) == call' = [call EXCEPT ![k].pc = "answered", ![k].ok = ok]

\* The device, the hash of the body, and what the catalog already has.
Check(k) ==
    LET q == call[k] IN
    /\ q.pc = "sent"
    /\ \/ ~live /\ Answer(k, FALSE)
       \/ live /\ q.body # q.sha /\ Answer(k, FALSE)
       \/ live /\ q.body = q.sha /\ rows[q.name] # NoRun
               /\ Answer(k, rows[q.name] = q.body)
       \/ live /\ q.body = q.sha /\ rows[q.name] = NoRun
               /\ call' = [call EXCEPT ![k].pc = "put"]
    /\ UNCHANGED <<clock, run, router, archive, r2, rows, live, litter, faults>>

PutUnawaited(k) ==
    /\ call[k].pc = "put"
    /\ call' = [call EXCEPT ![k].pc = "insert"]
    /\ UNCHANGED <<clock, run, router, archive, r2, rows, live, litter, faults>>

\* BACKUPS.put overwrites what the key holds.
Put(k) ==
    /\ call[k].pc = "put"
    /\ r2' = [r2 EXCEPT ![call[k].name] = call[k].body]
    /\ call' = [call EXCEPT ![k].pc = "insert"]
    /\ UNCHANGED <<clock, run, router, archive, rows, live, litter, faults>>

\* INSERT; on the UNIQUE key the row of the other upload is the answer, with no
\* look at its sha256.  The foreign key of a deleted device ends in a 500.
Insert(k) ==
    LET n == call[k].name IN
    /\ call[k].pc = "insert"
    /\ Answer(k, live)
    /\ rows' = IF live /\ rows[n] = NoRun THEN [rows EXCEPT ![n] = call[k].body] ELSE rows
    /\ UNCHANGED <<clock, run, router, archive, r2, live, litter, faults>>

\* DELETE /v1/admin/devices/:id cascades to the catalog; R2 keeps the bodies.
DeleteDevice ==
    /\ live
    /\ live' = FALSE
    /\ rows' = [n \in Names |-> NoRun]
    /\ UNCHANGED <<clock, run, router, archive, call, r2, litter, faults>>

\* The agent is killed: no finally clause runs.  What it had sent stays sent.
Crash ==
    LET running == {r \in Runs : run[r].pc \notin {"idle", "done"}} IN
    /\ Fault
    /\ run' = [r \in Runs |-> IF r \in running
                               THEN Done(run[r], "killed", FALSE) ELSE run[r]]
    /\ litter' = litter \cup {n \in {run[r].name : r \in running} : router[n] # NoRun}
    /\ UNCHANGED <<clock, router, archive, worker>>

-----------------------------------------------------------------------------
Agent(r) ==
    \/ Begin(r) \/ Save(r) \/ PullBegin(r) \/ PullWrites(r) \/ PullEnd(r) \/ PullFails(r)
    \/ Cleanup(r) \/ Hash(r) \/ List(r) \/ Rotate(r)
    \/ \E k \in Calls : Upload(r, k) \/ Retry(r, k)
    \/ GiveUp(r) \/ Uploaded(r)

Serve(k) == Check(k) \/ Put(k) \/ Insert(k) \/ Forget(k)

Next ==
    \/ Tick
    \/ \E r \in Runs : Agent(r)
    \/ \E k \in Calls : Serve(k)
    \/ Crash
    \/ DeleteDevice

Spec == Init /\ [][Next]_vars

-----------------------------------------------------------------------------
(* Properties                                                              *)

\* Two runs that started in the same second.
Collided(n) == Cardinality({r \in Runs : run[r].pc # "idle" /\ run[r].name = n}) > 1

\* What a job says was uploaded can be downloaded, and is what the run saved:
\* row and body are there until the device is deleted, whatever attempt of the
\* upload came through, twice or late.
UploadIsStored ==
    \A r \in Runs : run[r].uploaded /\ live =>
        LET n == run[r].name IN
        /\ rows[n] # NoRun /\ r2[n] # NoRun
        /\ Collided(n) \/ (rows[n] = r /\ r2[n] = r)

\* A catalogued file always has its body: the 410 of the download route is for
\* bodies that were removed, never for an upload seen half way.
RowHasBody == \A n \in Names : rows[n] # NoRun => r2[n] # NoRun

\* Rotation never takes the last whole file: while every pull so far worked, an
\* archive that ever had a whole backup has one, also when one thread rotates
\* while the other's newer file is still arriving.  This takes room for one file
\* per thread; and a pull that breaks off or is killed voids it, for its torn file
\* counts as one of the backups to keep.
ArchiveKeepsWhole ==
    /\ Cardinality(Threads) <= Retain
    /\ \A r \in Runs : run[r].result \notin {"failed", "killed"} /\ ~Collided(run[r].name)
    /\ \E r \in Runs : run[r].result = "success"
    => \E n \in Names : local[n] \in Runs

\* A run finds its file gone when it comes to hash it, or a file it listed when it
\* comes to sort them (backup.py:160 and :199: a FileNotFoundError is no BackupError
\* and leaves no job), only after at least as many other runs as the archive keeps
\* files came to write theirs.
RunKeepsItsFile ==
    \A r \in Runs : run[r].result = "crashed" =>
        Cardinality({s \in Runs \ {r} : run[s].pc \notin {"idle", "save"}}) >= Retain

\* What an update takes for its recent backup (README.md:404: "Confirm recent
\* successful backup/export.") is whole, unless its pull goes on, or broke off and
\* the same thread has not made a newer backup since.
GateSeesWhole ==
    \A n \in Names : Recent(n) /\ local[n] = Torn =>
        \/ Collided(n)
        \/ \E r \in Runs :
            /\ run[r].name = n
            /\ \/ run[r].pc = "pulling"
               \/ /\ run[r].result \in {"failed", "killed"}
                  /\ \A s \in Runs : ThreadOf[s] = ThreadOf[r] /\ run[s].name > n
                        => run[s].result # "success"

\* No run leaves its file on the router, even when save or pull failed; the only
\* exceptions are a removal that failed itself and an agent that was killed.
RouterIsClean ==
    \A n \in Names : router[n] # NoRun =>
        \/ n \in litter
        \/ \E r \in Runs : run[r].name = n /\ run[r].pc \notin {"idle", "done", "save"}

\* 0003_backup_files.sql:15: sha256 is "of the encrypted body, matches the agent's
\* local copy".  Two uploads of one name with different bodies may both find no
\* row: the second put wins in R2, the first INSERT wins in D1.
BodyMatchesCatalog ==
    \A n \in Names :
        /\ rows[n] # NoRun
        /\ \A k \in Calls : call[k].pc = "idle"
        => rows[n] = r2[n]
=============================================================================
