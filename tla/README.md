# Verification of MikroTik Minder

TLA+ models, model-checking runs and machine-checked proofs for MikroTik Minder: a Cloudflare Worker with
D1 and R2 (`src/worker`, the control plane) and a Python agent on the operator's network (`src/agent`) that
talks to MikroTik routers over SSH and the RouterOS API. Line numbers below are of the commit in `src/`.

Contents: [1 the system](#1-the-system), [2 modules](#2-modules-and-how-they-correspond-to-the-code),
[3 runs](#3-runs), [4 fairness](#4-fairness), [5 findings](#5-where-code-and-documents-disagree),
[6 proofs](#6-what-is-proved), [7 limits](#7-what-is-not-modelled), [8 plan](#8-plan),
[9 how to run](#9-how-to-run-it).

## 1 The system

Two programs that share nothing but HTTP calls. The agent polls and reports; the worker never calls the agent.

```
 cron (1/min) --> sweep ------------------.
                                          v
 agent  heartbeat, job, backup PUT --> worker: D1 (devices, jobs, alerts, commands, backup_files), R2 (bodies)
 agent  <-- GET commands / POST result --/   ^
   |                                         | admin routes
 routers, local archive, Git repo --> mirror operator
```

### 1.1 Control plane (TypeScript, `src/worker/src`)

Every request and every cron event is an async function of its own; two of them interleave at each `await`, that
is, at each D1 or R2 statement. One D1 statement is atomic; no handler uses a transaction. An isolate may be
evicted between two statements.

| Component | State | Operations | Hard behaviour | Correct means |
|---|---|---|---|---|
| heartbeat ingest (`routes/ingest.ts`) | `devices.last_status`, `last_seen_at`; `alerts` | find or create the device, update it, announce a recovery | SELECT, INSERT and UPDATE interleave with sweeps and with other heartbeats | one row per name; a recovery is announced; the last word on a device is true |
| dead-man sweep (`scheduled.ts`) | the same tables; `lost` in memory | select stale devices, guarded UPDATE each, then the alerts | sweeps overlap each other and heartbeats; all rows are flipped before the first alert is written | no live device is marked down, one alert per silence, no silent `down`, no forgotten silence |
| job ingest and alert mapping (`routes/ingest.ts`) | `jobs`, `alerts` | store a job, fire the alert its kind and status call for | a repeated post is stored twice; job and alert are two statements | an acknowledged report has its job and its alert |
| command dispatch (`routes/admin.ts`, `routes/ingest.ts`) | `commands` | enqueue, claim, result, one-shot download, cascade | polls and reports are lost, late or sent twice | at most one run and one outcome per command, a true outcome, a secret body served once |
| backup catalog (`routes/ingest.ts`, `routes/admin.ts`) | `backup_files` (D1), bodies (R2) | PUT with sha256, list, download, delete | two stores without a transaction; two uploads of one name | row and body exist together and agree |
| alerts and delivery (`notify.ts`, `routes/admin.ts`) | `alerts`, `alert_routes` | store, deliver under `waitUntil`, add and remove routes | an isolate may end after the INSERT; one rejection ends the wait for all targets | a stored alert reaches each route that wants it; a sink that fails costs the others nothing; a removed route stays quiet |
| authentication (`auth.ts`) | `agents.token_hash`, `enabled` | bearer check, disable, rotate | a token is revoked while calls are in flight | a revoked token changes nothing from then on |

### 1.2 Agent (Python threads, `src/agent/src/mikrotik_minder_agent`)

One thread per device (`daemon.py`), one thread for commands, a shared Git repository, a shared archive directory.

| Component | State | Operations | Hard behaviour | Correct means |
|---|---|---|---|---|
| device loop (`daemon.py`) | `last_*` timestamps per device | probe, heartbeat, then export, update check, inventory, backup when due | the heartbeat waits for the jobs before it; the command thread writes the same timestamps; a job may fail, raise or hang | no more lies between two heartbeats than one tick and one wait; no job starves or is done twice; the loop survives |
| command thread (`daemon.py`, `commands.py`) | the batch it works off | poll, dispatch, report | crash inside a batch; an executor, or a report, that raises half way; git that never returns | `succeeded` is reported only of work that was done; no command is worked on twice |
| HTTP client (`minder.py`) | none | any call, tried at most twice | an abandoned attempt may still be served | callers see at most one answer |
| export and Git (`export.py`, `gitrepo.py`) | working tree, index, HEAD, mirror | capture, write, add, commit, push | all threads share one index and one branch; each `git` may fail | a commit holds its own device's change; a drift is neither lost nor claimed mirrored when it is not |
| backup (`backup.py`) | router file, archive | save, pull, clean up, hash, rotate, upload | loop and command thread back up one device at once | nothing stays on the router; rotation leaves a good backup; uploaded means downloadable |
| update (`apply.py`) | none; the router's version | pre-checks, install, wait for the reboot, snapshot | the install command answers nothing reliable; the router may never come back | "aborted" means untouched, "success" means installed; the run ends |
| inventory, ping, update check | none | one read-only probe, one job | - | - |
| configuration, CLI, transports, parsers, normaliser | none | pure functions and library calls | text formats | - |

How they meet: heartbeats and sweeps share a `devices` row (module `DeadMan`); a command travels from an operator
through two tables' rows and an agent thread to a router and back (`CommandDispatch`); a device's loop and the command
thread share its timestamps (`AgentSchedule`); exports of all devices meet in one repository (`ExportGit`); a backup
travels from the router through the archive into R2 and D1 (`BackupPipeline`), and the gate of an update reads that
archive; two update runs meet on one router (`UpdateApply`); what all of them report becomes jobs, alerts and messages
to the operators' channels (`JobAlerts`).

The hazards, one line of code each, are listed in `PROJECT.json` with the property that covers each, or why none does.

## 2 Modules and how they correspond to the code

The map in `PROJECT.json` names the source lines of every definition. In every module one action is one atomic
step of the code: one D1 or R2 statement, one `git` or SSH command, one HTTP attempt, one critical section's entry.
Definitions named like `SweepFlipAnySeen` next to `SweepFlip` are deliberate mutations of the action that follows
them: they are used by no specification and show, when substituted, that a property notices the bug.
Variables marked "history" record facts for the properties; no guard of the program's steps reads them.

| Module | Part of the system |
|---|---|
| `DeadMan` (`MCDeadMan`, `DeadManProofs`) | heartbeat ingest, dead-man sweep, admin routes of devices |
| `CommandContract` | what command dispatch promises an operator (abstract) |
| `CommandDispatch` (`MCCommandDispatch`, `CommandDispatchProofs`) | admin and ingest routes of commands, agent command thread, HTTP client; implements `CommandContract` |
| `AgentSchedule` (`MCAgentSchedule`, `AgentScheduleProofs`) | a device's loop, its jobs' schedule, what the command thread shares with it |
| `JobAlerts` (`MCJobAlerts`, `JobAlertsProofs`) | client's job posts, `POST /jobs`, alert mapping, delivery, routes |
| `ExportGit` (`MCExportGit`, `ExportGitProofs`) | export runs of all threads, repository, mirror, drift jobs |
| `UpdateApply` (`UpdateApplyProofs`) | `apply_update`, router, job |
| `BackupPipeline` (`MCBackupPipeline`, `BackupPipelineProofs`, `BackupArchiveProofs`) | `BackupRunner.run`, archive, upload, `PUT /backups`, R2 and D1; the file an update's gate finds |

**DeadMan.** `live`, `nameOf`, `status`, `seen`, `limit` are columns of `devices`; `missed` and `newest` summarise
`alerts`. A heartbeat request `hb[h]` is at `insert` (its SELECT found no row), `update` or `announce`; a sweep
`sw[w]` holds the devices still to UPDATE (`todo`), those it flipped (`lost`) and the `last_seen_at` its SELECT read
(`snap`). `HbFind`/`HbMiss`, `HbInsert`, `HbUpdate`, `HbAnnounce` are the statements of `POST /heartbeat`;
`SweepSelect`, `SweepFlip`, `SweepAnnounce` those of `runScheduledSweep`; `AdminRegister`, `AdminRetune`,
`AdminDelete` the admin routes. `HbAbort`, `SweepAbort`, `SweepAlertFails` are a D1 error or an evicted isolate. A
`now` is read before the statement it goes into takes effect: `HbUpdate` writes any instant since the request
came in, `SweepSelect` any instant up to the clock.

**CommandDispatch.** `status`, `device`, `kind`, `due`, `created`, `artifact` are columns of `commands`; `agent[a]` is
the agent's command thread; `call[k]` one HTTP attempt. `Poll`, `TakeBatch`, `StartWork`, `RefuseWork`, `NextCommand` are
the thread. The work of a command is one unit, and what it did to the router is the history `effect[c]`, apart from what is
reported: the runner returns with an outcome (`Return`), its job is posted and the result sent (`Send`); or it
raises, before or after the router was touched, or posting its job does (`Raise`), and `failed` is reported; or reporting
a success raises, and the same command is reported again as failed (`ReportRaises`, `commands.py:76-79`). `presumed` is an
update whose reboot was only thought to have happened, the finding `update_success`. `GetStuck` is a thread that waits
for ever, in git or for its locks, or that an exception other than `MinderError` took out of the poll loop
(`daemon.py:187`); only a `Kill` of the process ends that. `Retry` and `GiveUp` are the client's second attempt and its
failure; `Claim`, `CheckArtifact`, `Record` the worker's statements; `Deny` the authentication. An attempt its client has
given up stays in flight and may be served at any later time, or `Vanish`. The refinement mapping of
`ImplementsContract` is `stage <- status`, `worked <- ran`, `served <- served`.

**ExportGit.** `disk`, `index`, `log`, `remote` are the working tree, the staging area, HEAD's history and the mirror's
branch. `Acquire` to `CommitDone` is `write_and_commit` under `_commit_lock`; `Push`/`PushDone` is `push` under
`_push_lock` (two steps, so that an unlocked push could race); `Report` posts the job that
`daemon.py` or `commands.py` derives from the result. A configuration is what `normalise_export` leaves. `WriteFails` is an
`OSError` of the file operations (`gitrepo.py:182-188`): the file is as it was, or whole, or `Torn`, the lock is
released, and since that error is no `ExportError`, the run ends without a job. `PushFails` may have reached the mirror.
`broken` is the history of the devices whose disk such a fault, or a failing `git`, parted from HEAD: `DiskIsCommitted` excepts them, and a
later export of the same text finds "no change" there (`StagingFails`, `WriteFails`, `Crash`).

**UpdateApply.** One step per SSH command or probe. The router downloads, fails to, reboots, returns or never does
(`Reboot`, `DownloadFails`, `Return`, `PowerCut`). `Polls` is the number of probes that fit before the deadline that
both loops of `wait_for_reboot` share.

**BackupPipeline.** `router`, `local`, `r2`, `rows` are the file on the router, in the archive, in R2, and the sha256 of
its catalog row, by file name; a name is the second the run started in. A content is the run that saved it, or
`Torn` (a file being written, or cut short). `newer[n]` are the files of the archive written since file `n` was: the order of
modification times, by which `find_recent_backup` chooses a file for an update (`Recent`) and `_rotate` sorts. That lists the
files (`List`) and then removes those with `Retain` or more newer ones in its list (`Rotate`); when another rotation took a listed
file meanwhile, its `stat` raises, and the run ends `crashed`, without a job (`Missed`). Opening a file and each part that arrives (`PullBegin`,
`PullWrites`, `PullEnd`) make it the newest. A pull whose local file another run's rotation took meanwhile fails: `sftp.get` ends
with a `stat` of it. A hash is the content it is of.

**AgentSchedule.** One device. `at` is where its loop is: `stagger` (the startup offset), `wait` (the wait between two
ticks), `probe`, `report` (ping, heartbeat, health check), `jobs` (a due check), `work` and `post` (the job and its
report), `ended`. Probes, reports and jobs last as long as they like: an SSH or HTTP call has a timeout, but `git` has
none (but for its push), nor has the wait for the locks that all device threads share (`gitrepo.py:138, 179, 217-237`), so an
export may never end (`Exporting`). The code has therefore no bound on the time between two heartbeats, and the model claims
none. What it bounds is what lies between them: `timer` and the histories `beat` and `rest` count, of each step, only
the time it is allowed (`MaxProbe`, `MaxReport`, `MaxJob`); what it overruns passes (`Pass`), makes timestamps age, and is
not counted. `tick.ok` says whether the probe was answered, `tick.due` which kinds were overdue at `finished`, `tick.pos`
which job is next. `age[k]` is the time since `last_<k>` was written, up to the interval, which is all the code compares.
`Start`, `Succeed`, `Posted`, `Fail` and `Raise` are a job and how it ends, `Take`, `Work`, `Refuse` and `Stamp` the
command thread, which stamps after it has reported. `Exit` is a kill and also the graceful stop, which interrupts the
same threads between two steps. `beat`, `rest` and `done` are history: since a heartbeat was sent, since a job was
tried or put off, since it succeeded. A job is put off (`PutOff`) when the router does not answer, when an exception ends the
tick before its turn (`Missed`), and when a command's stamp says it was done, also that of a `sensitive_export`.

**JobAlerts.** `client[p]` is a `send_job` call, tried twice; `req[a]` the place of an attempt in `POST /jobs`; `jobs`, `alerts`
and `route` are rows. `AlertOf` is the mapping of `ingest.ts:136-199`. `stage[a]` is the delivery of alert `a` under
`waitUntil`: `todo` holds the targets still to call, `open` the calls whose `alert_deliveries` row is still to be
inserted. `orphan` are attempts whose device was deleted under them, which the foreign key then refuses. A statement that
throws has had no effect, and a `fetch` ends, well or badly. `Others` stands for alerts that come from the dead-man switch
and from the test route. `muted` and `hit` are history.

## 3 Runs

A run that passes explores its whole bounded state space. A run marked *violation* checks what a document or comment
of the repository says and finds the counterexample described in section 5.

| Run | Instance | Shows |
|---|---|---|
| `deadman_overlap` | 1 name, 2 keys, 2 heartbeats and 2 sweeps in flight, statuses ok and down, thresholds 2 and 3, delay 1, clock 4, 1 fault, fair cron | `TypeOK` (with the uniqueness of names), `DownMeansSilent`, `OneAlertPerSilence`, `DownIsAnnounced`, `SilenceIsAlerted` |
| `deadman_recovery` | violation | `RecoveryAnnounced` |
| `command_dispatch` | 2 agents with a device each, one of them configured, 2 commands, 2 attempts in flight, 2 faults | `RunOnce`, `OutcomeIsTrue` (nothing reported as `succeeded` that was not done), `ServedOnce`, `WorkIsDue`, refinement of `CommandContract` |
| `command_live` | 1 agent, 2 commands, batch limit 1, 2 faults, fair agent and worker | `DueIsClaimed` |
| `export_git` | a device's loop and the command thread, 2 devices, 2 configurations, 5 commits, 2 faults | `CommitIsOwn`, `DiskIsCommitted`, `DriftIsPosted`, `WarningIsMirrored`, `NoFalsePushError` |
| `export_mirror` | violation | `SuccessIsMirrored` |
| `update_apply` | 2 overlapping runs, 3 probes, 2 faults | `AbortIsHarmless`, `SuccessWithoutFaults`, `ApplyEnds` |
| `update_success` | violation | `SuccessIsInstalled` |
| `backup_pipeline` | 3 runs of 2 threads, 2 attempts in flight, retention 2, 3 seconds, 1 fault | `UploadIsStored`, `RowHasBody`, `ArchiveKeepsWhole`, `RunKeepsItsFile`, `GateSeesWhole`, `RouterIsClean` |
| `backup_collision` | violation | `BodyMatchesCatalog` |
| `agent_schedule` | exports every 2, update checks and backups every 3 units, beat 1, offset 1, 1 unit counted of a job and of a probe, all four commands, loop fair but in exports | `HeartbeatInTime`, `OnCadence`, `NoDuplicateWork`, `KeepsProbing` |
| `job_alerts` | 1 post, 1 other alert, 1 route with a severity filter and the bot, drift and failed exports, 2 faults, fair delivery | `AckedIsAlerted`, `TwiceOnlyIfLost`, `MutedStaysQuiet`, `SinkFailureIsContained`, `AlertReachesRoutes` |

Every passing run of a module but `command_live` checks the module's `TypeOK` as well.

Why the bounds are enough:

- *DeadMan.* The races are between two actors on one row: two sweeps, a sweep and a heartbeat, two first heartbeats.
  Two of each make all pairs; the third party (an admin route) is always enabled. With threshold 2 a device is silent
  three ticks after it was heard, so a clock of 4 has a silence, its alert and a heartbeat that ends it; two thresholds
  let an admin change the one that counts. Two keys let a name be deleted and registered again while requests still
  hold the old key. With threshold 2 only, a clock of 5 (398,810 states), and with one heartbeat a clock of 7, which
  has two silences of one device (163,174 states), pass too. `DeadManProofs` removes every one of these bounds for
  the safety properties.
- *CommandDispatch.* A call is tried twice, so two attempts are the first one that is late and its repetition; two
  commands are the smallest batch of which one can be lost. Two faults allow a lost first attempt and then a crash, a
  revoked token, a deleted device, a stuck thread, a report that raises or a failed second attempt. A batch limit of 1 with two commands makes the
  order of the claim matter. `CommandDispatchProofs` removes the bounds for everything but `DueIsClaimed`.
- *ExportGit.* The command thread and one loop share one device and compete over another; five commits are a first and
  a changed version of both plus one. Two faults allow, e.g., a torn write or a failing `git commit` and then a crash.
  `ExportGitProofs` removes these bounds for all the properties.
- *UpdateApply.* Three probes are: still up, gone, back. Two faults are an unanswered install and an unanswered probe.
  `UpdateApplyProofs` removes these bounds for the two safety properties.
- *BackupPipeline.* Three names over a retention of two make rotation happen, also of a file that another run has not
  hashed yet; the two threads can share a second, and the two attempts can carry different bodies of one name. The loop's
  two runs let a good backup follow a broken one. `BackupPipelineProofs` and
  `BackupArchiveProofs` remove the bounds for all the properties.
- *AgentSchedule.* Three kinds with two intervals are due alone and together, before and behind one another, and a tick is
  longer than either interval. `Cap` 15 is above every value the properties compare, as `ConstantsAssumption`
  demands. `AgentScheduleProofs` removes the bounds for everything but `KeepsProbing`, all four kinds included.
- *JobAlerts.* One post has two attempts, which is where one alert becomes two; posts share nothing else. The route's
  filter lets the failed export through and the drift not, as the defaults do. Two faults are a lost answer and a
  failure of a statement or an isolate. `JobAlertsProofs` removes the bounds for the safety properties.

`CHECK_DEADLOCK FALSE` stands where the bounded world stops: the clock ends (DeadMan), the commits are used up
(ExportGit), all runs are done (BackupPipeline), all posts and deliveries are over (JobAlerts). The other runs check deadlock.

Symmetry is used only in runs without liveness properties, over sets whose members the specification treats alike:
commands, attempts, configurations, and the loop's two backup runs.

## 4 Fairness

- *DeadMan* (`FairSpec`): a sweep whose `now` is up to date keeps starting, and a started sweep goes on. The cron is
  `* * * * *` (`worker/wrangler.toml:11`). Nothing is assumed of heartbeats, operators and faults: a fault
  may always strike, but only `MaxFaults` times.
- *CommandDispatch* (`FairSpec`): each agent's thread goes on while it is not stuck, and the worker serves an attempt
  that reaches it. The thread's SSH and HTTP calls have timeouts; git and its locks have none, and the poll loop catches
  `MinderError` only (`daemon.py:187`): that is what `GetStuck` is for, from which nothing is promised, and `DueIsClaimed`
  names it as an exception. A process that died is restarted by its supervisor. One weak fairness condition covers the whole thread: which of several commands it takes first is
  not assumed. Lost attempts, crashes, revocations and operators owe nothing; the clock need not advance.
- *AgentSchedule* (`FairSpec`): time passes, and the loop takes the steps it can take, except in an export: its SSH, API and
  HTTP calls have timeouts and its waits end, but git and the repository's locks have none. `KeepsProbing` accordingly
  says that the loop keeps probing or never comes back from an export. Jobs may fail or raise every time. Commands, kills
  and restarts owe nothing.
- *JobAlerts* (`FairSpec`): a delivery goes on. That `waitUntil` keeps the isolate long enough and that a `fetch` ends is an
  assumption about the platform: the calls of `notify.ts:121` and `:163` set no timeout of their own. A fault, or the cut
  after a rejected record, may come first. Clients, handlers and operators owe nothing.
- *UpdateApply* (`FairSpec`): a started run goes on, since every probe has a timeout. The router owes nothing.

## 5 Where code and documents disagree

| Run | The document says | The code does |
|---|---|---|
| `deadman_recovery` | `docs/agent-protocol.md:35`: a heartbeat that moves a device from `down` to anything else emits `heartbeat_recovered` | `ingest.ts:66` decides on the status its SELECT read; a sweep between SELECT and UPDATE makes it miss the recovery |
| `export_mirror` | `daemon.py:429-430`, `docs/agent-protocol.md:92`: a failed push is a failure whether or not there was drift | `export.py:96` does not push without a commit, so the run after a failed push reports success while the mirror is behind |
| `update_success` | `docs/agent-protocol.md:157`: success means the install completed | any failing probe counts as the reboot and the two versions are never compared (`apply.py:156`) |
| `backup_collision` | `worker/migrations/0003_backup_files.sql:15`: sha256 is that of the stored body | two bodies under one name: the later `put` wins in R2, the earlier INSERT in D1 (`ingest.ts:433`) |

None of them is assumed away in the properties that pass: those state exactly what remains true.

Further differences, met while modelling, for which no run was made. Those about wording only are read off the code; the
others are behaviours the models contain.

- Commands. `daemon.py:179-180` says that a stuck command stays visible until the next successful poll; but a poll takes
  `pending` rows only, nothing writes `expired`, and what a lost answer, a restart or a failed report left `claimed`
  stays so for ever (in `CommandDispatch`: no action leads away from there). `docs/agent-protocol.md:144` says updates are
  applied "never by the daemon"; `commands.py` applies them in the daemon on request.
- Alerts. `docs/agent-protocol.md:66` gives drift the severity `warning`, `ingest.ts:156` fires it with `info`, and a route
  created with the default minimum, `warning` (`admin.ts:174`), never hears of a drift. `docs/agent-protocol.md:200` has
  every delivery attempt to a route recorded; the record is inserted after the call, and may fail or be refused.
- Schedule. `agent/README.md:122` says each kind of work runs "on its own cadence". A job that fails is tried again each
  tick. An exception that is not the job's own also skips the jobs behind it: one raised in each tick (an `OSError` of
  `gitrepo.py:188`, on a full disk) starves them. A `sensitive_export` command puts the next drift export off, although it commits
  nothing (`daemon.py:229-240`): repeated within the interval it does so for ever. And an export that hangs in git
  stops its device's probes and heartbeats altogether, which the worker then reports as a silent device.
  `AgentSchedule` contains all of these; `OnCadence` and `KeepsProbing` name them as their exceptions. `config.py:82` says that 0 turns a job off; a device's own 0 falls back to the default.
- Updates. `README.md:404` wants a recent successful backup confirmed; `find_recent_backup` (`apply.py:83`) takes
  any `*.backup` file, also one that is still being pulled or whose pull broke off. `GateSeesWhole` states when. A file
  rotated away between the listing and its `stat` ends the update run with an exception before the router is touched.
- Catalog and downloads. Deleting a device leaves its bodies in R2 without a row. The download of an artifact purges it in
  the statement that reads it: when that answer is lost, so is the artifact.

## 6 What is proved

`DeadManProofs` proves, for every set of names, keys, requests and sweeps, every threshold, every clock bound and
every number of faults:

| Theorem | States |
|---|---|
| `TypeCorrect` | `Spec => []TypeOK`, with `UNIQUE (agent_id, name)` of `devices` |
| `NoFalseDown` | `Spec => []DownMeansSilent`: a sweep marks only a device that is silent for longer than the shortest threshold |
| `NoDoubleAlert` | `Spec => []OneAlertPerSilence`: no silence is announced twice |
| `NoSilentDown` | `Spec => []DownIsAnnounced`: what a sweep marked is announced, about to be, or its alert died with a fault |

Assumptions: `ConstantsAssumption` (well-formed constants) and `DelayAssumption`, `2 * MaxDelay <= MinLimit`: a
heartbeat request is served within half of the shortest threshold. The latter is a fact about deployment and
not about the code: a threshold is `interval + grace`, the admin route refuses an interval below 30 s, the default
is 4200 s, and a Worker request lives for seconds. It cannot be dropped: a request that read `now`, slept for a
whole threshold and then wrote it would make a device look silent that had been heard from, and its late
`heartbeat_recovered` would follow the alert of the next silence.

The argument. `TypeCorrect` is inductive by itself. The three safety properties are not, so `IInv` adds what the
code's guards really keep:

- `Young`: a request in flight is no older than `MaxDelay`.
- `Issued`: keys held by requests, sweeps and alerts were issued; a key is never issued again, so nothing old
  can refer to a new row.
- `Overdue`: what a sweep works on was overdue when it looked, and the clock only grows.
- `Pending`: a silence about to be announced belongs to one sweep, was not announced, and its row is already `down` or
  has a new `last_seen_at`. This is where the guarded UPDATE (`last_seen_at IS ? AND last_status != 'down'`,
  `scheduled.ts:41-44`) is used: without either conjunct the step of `SweepFlip` fails.
- `Announced`: an announced silence is likewise settled, hence no later sweep can flip the row for it again.
- `Marked`: a row a sweep flipped is live, `down` and overdue.
- `Recovering`: a request that still has to announce a recovery wrote `last_seen_at` recently, so no sweep has flipped
  the row since. This is where `DelayAssumption` is used.

`IInvInit`, `IInvStep` (one case per action) and the implications give the theorems.

`CommandDispatchProofs` proves, for every number of agents, devices, commands, HTTP attempts in flight and faults, every
ownership and every batch limit (`ConstantsAssumption` is all it assumes):

| Theorem | States |
|---|---|
| `TypeCorrect` | `Spec => []TypeOK`, with the link between a thread and its own attempt |
| `AtMostOneRun` | `Spec => []RunOnce` |
| `NoFalseOutcome` | `Spec => []OutcomeIsTrue`: what is recorded as `succeeded` was done, or is an update presumed done; `failed` may have been done |
| `AtMostOneDownload` | `Spec => []ServedOnce` |
| `WorkByItsOwner` | `Spec => []WorkIsDue` |
| `KeepsContract` | `Spec => ImplementsContract`: the code's steps are the contract's, or stutters |

The argument. `TypeOK` is split into `Net` (threads and attempts) and `Tables`; it is inductive. None of the safety
properties is: that a command runs once depends on where its id is. `IInv` is the life of a command, in
parts that name the place it is in:

- `Pristine`: a command that was not handed out has no history.
- `Paired`: an attempt carries the command its thread is busy with, and a batch on its way has a polling thread, with an
  empty batch of its own, that waits for exactly that attempt.
- `Batches`: a command in a batch, taken or on its way, is not `pending` any more and was never run. With ownership this
  makes the batch unique, which is why starting work cannot start it twice. The `status = 'pending'` of the claim
  (`ingest.ts:220-228`) is used here.
- `Works`: a command being worked on was started once; when its work is over, what is to be reported is `Honest`: a success
  is of work done, or presumed done.
- `Reports`: a reported command is `Spent`, in no batch and not being worked on, and the report is `Honest`. That holds of
  every attempt still in flight, those their thread gave up included.
- `Settled`: a stored outcome is that of a spent command, and honest.
- `OneCopy`: an artifact is that of a successful command not yet downloaded; a download happens only after the outcome,
  so a late report meets the `status = 'claimed'` of the UPDATE and cannot put the body back.

`Sound(c)` collects what `IInv` says of one command. `TouchedStep` reduces each action to the commands it touches, and
there is one lemma per action. `ContractStep` uses `IInv` where the contract asks more than the code's guards show: that
work starts on a command not worked on yet, that `succeeded` follows work, that what is downloaded was not served.

`UpdateApplyProofs` proves, for every number of overlapping runs, probes and faults:

| Theorem | States |
|---|---|
| `TypeCorrect` | `Spec => []TypeOK`; `Upgrading` (an install runs on the old version only) makes it inductive |
| `AbortedIsUntouched` | `Spec => []AbortIsHarmless`, from `Committed`: past the install command a run can neither abort nor end with an exception nobody reports (`UpdateCheckError`, `apply.py:222`) |
| `SuccessIsReal` | `Spec => []SuccessWithoutFaults`, from `Faultless`: while nothing failed a router that reboots does so to install, and a run past its first failed probe has seen that reboot |

`ExportGitProofs` proves, for every number of devices, threads, configurations, commits and faults, with and without a
mirror, every property of `export_git`:

| Theorem | States |
|---|---|
| `TypeCorrect` | `Spec => []TypeOK`: each lock is held exactly by the thread inside its section |
| `CommitsAreOwn` | `Spec => CommitIsOwn`: a commit changes the file of its own device only |
| `NoChangeIsCommitted` | `Spec => []DiskIsCommitted`: no drift is left on disk and out of HEAD, but by a failing write, git command or process |
| `NoSilentCommit` | `Spec => []DriftIsPosted`: each commit is reported, about to be, or its report was lost |
| `SuccessReachedMirror` | `Spec => []WarningIsMirrored`: a drift reported as pushed is on the mirror |
| `PushesDoNotCollide` | `Spec => []NoFalsePushError`: without faults no push fails |

`IInv` follows a run through its places: `Carrying` is what it holds there (in the commit section the file, then the
index, are what it wrote; in the push section the mirror has not moved since the push began), `Honest` what it may report,
`Tidy` that disk, index and HEAD of a device differ only inside its own staging, and `Room` that the bounded log
still takes the commits under way, so that the bound on the log never blocks a run. `LocksFollow` is the one lemma on
both locks. The proof needs finitely many threads, because `Room` counts them.

`BackupPipelineProofs` proves, for every finite set of runs, every number of attempts and faults, and every retention:

| Theorem | States |
|---|---|
| `NoRowWithoutBody` | `Spec => []RowHasBody` |
| `UploadedIsKept` | `Spec => []UploadIsStored` |
| `RouterLeftClean` | `Spec => []RouterIsClean` |

The argument is `Sound(n, v)`: whatever lies under the name `n`, on the router, in the archive, in an attempt under way, in
R2 or in D1, is what the one run of that name saved, unless two runs share the name. `RunOK` says it of a run, `CallOK` of
an attempt, late ones included, `NameOK` of the stores. `CallOK` also says that an attempt that is about to insert has
put its body, and that one answered well has its row.

`BackupArchiveProofs` builds on it and proves, under the same assumptions, what depends on the order of the archive:

| Theorem | States |
|---|---|
| `TypeCorrect` | `Spec => []TypeOK`: the archive's files, and no others, are in a total order of writing |
| `FilesLastLongEnough` | `Spec => []RunKeepsItsFile`: a run loses its unhashed file, or one it listed, only when as many other runs as there are places came to write theirs, at any time before. It bounds the case and does not exclude it: once the archive is full, one rotation in the other thread may do it |
| `GateFindsWhole` | `Spec => []GateSeesWhole`: what an update takes for its backup is whole, or its pull goes on or broke off |
| `WholeBackupStays` | `Spec => []ArchiveKeepsWhole`: rotation never takes the last whole file |

The argument has three layers, each inductive given those before it (and `IInv` of `BackupPipelineProofs`).

- `TInv`, the threads: of two runs of one thread one is over, and it is the one of the earlier second (`InTurn`); a run that has a
  result is at its end or cleans up (`Ended`).
- `AInv`, the archive: `Order` is the order of writing. Every file is that of a run that opened it (`FileOK`). `KeptOK` says that the
  file of a run that wrote one, and every file it listed, is there unless `Rivals`, the other runs that came to write, are at
  least `Retain`. When a rotation takes a file, at least `Retain` files are newer (`StaleAreOld`). These and the file itself
  have different runs, only one of which can be the run in question; the others are its rivals (`NewerAreRivals`,
  `GoneOnlyForRivals`).
- `WInv`, the contents: a torn file is one that still arrives, or its run failed or was killed, or two runs share it (`TornOK`);
  a run that wrote under a later second in the same thread wrote later (`LaterIsNewer`), and the two give `GateSeesWhole`. A
  rotation that took all files newer than one would have to take the newest of all, which there is (`Newest`) and it does not. For
  `ArchiveKeepsWhole` neither "a whole file exists" nor "the newest file is whole" is inductive. `WholeOK` is: there is a
  whole file of which only files still arriving are newer (`Whole`). These files are of different threads, and of threads other than
  that of the run that rotates, so fewer than `Retain` are newer when no more than `Retain` threads write, and the rotation
  keeps that file (`RoomForWhole`). A pull that ends makes its own file the newest, and whole.

`AgentScheduleProofs` proves, for every interval, offset and allowance of a step:

| Theorem | States |
|---|---|
| `TypeCorrect` | `Spec => []TypeOK`: no place of the loop counts for more than it is allowed |
| `HeartbeatMeetsThreshold` | `Spec => []HeartbeatInTime`: between two heartbeats lies no more than `Period`, one wait and one tick, overruns not counted |
| `NoJobStarves` | `Spec => []OnCadence`: a job that is not put off is tried within its interval, `Period` and `Tick`, overruns not counted |
| `NothingTwice` | `Spec => NoDuplicateWork` |

None of them assumes that a step ends in time: they hold of what is counted, which is one wait, one probe, one report and one
run of each job, in that order, whatever each of them takes. An operator who knows how long exports last in their
repository gets a bound in seconds from them; the code alone gives none.

`Beats` bounds the time since the last heartbeat at each place of the loop by what the places before it count for.
`CadenceInv` does so for each job: `Tried` says that a timestamp is no younger than the last try, so that a job that was not
overdue at the probe was tried within its interval; `Rests` that this, and the time the tick has counted since, is
also true of a job the tick has already looked at; `Unlooked` that a tick that has not reported has looked at none. `Stamped` says
that a timestamp is no older than the success it stands for, unless the command thread has not written it yet: that gap is
the exception in `NoDuplicateWork`.

`JobAlertsProofs` proves, for every number of posts, other alerts, routes and faults, and every filter:

| Theorem | States |
|---|---|
| `TypeCorrect` | `Spec => []TypeOK` |
| `AckIsTrue` | `Spec => []AckedIsAlerted` |
| `NoRepeatedAlert` | `Spec => []TwiceOnlyIfLost` |
| `NoCallToTheGone` | `Spec => []MutedStaysQuiet` |
| `SinksAreIndependent` | `Spec => []SinkFailureIsContained` |

`IInv` adds to the types the life of an attempt (`Filed`: its job, then its alert, and no delivery before), of a client's
call (`Answered`: a second attempt follows a failure or a lost answer) and of a delivery (`Delivered`).

Only model-checked: liveness (`SilenceIsAlerted`, `DueIsClaimed`, `ApplyEnds`, `KeepsProbing`, `AlertReachesRoutes`), because
the prover handles neither ENABLED nor fairness. Every safety property of a passing run is a theorem. No module declares a
RECURSIVE operator.

## 7 What is not modelled

- `DELETE /backups/:id` and the read-only list and download routes of the catalog. The latter change nothing. The former
  removes a row and its body on an operator's word: what `UploadIsStored` and `RowHasBody` say holds until then,
  as it does until the device is deleted.
- Hashing and comparison of tokens, creation of agents, the admin token: one set `admitted` stands for them.
- Inventory, ping and update check: `AgentSchedule` has when they run and how they end, `JobAlerts` the jobs they post; what they
  read from the router is parsing.
- Parsing of RouterOS output, normalisation, formatting of alert messages, configuration files, the Helm chart, images
  and CI: no protocol state. What the models need of them are constants or an SSH command that is answered or not.
- Statements that are one step in the models and several in the code, because no property tells them apart: `requireAgent`'s
  token SELECT and the handler's first statement (a revocation between the two is lost); in `PUT /backups` the SELECTs and
  the read of the body (`Check`), and the INSERT and the SELECT of its catch block (`Insert`); in `POST /jobs` the device's
  SELECT and INSERT (`Find`); `push`'s `ensure_initialised`, which takes the commit lock once more (`gitrepo.py:132`), and its
  push; the `stat`s and `unlink`s of one rotation (`Rotate`), between which a file about to be removed may receive a
  part, and so become the newest, a moment before it goes.
- A `/system backup save` that times out (`ssh.py:142-146`), and that the router completes after the `/file remove` of the same
  run: its file stays on the router, in the code as well. `Save` decides at once whether the file exists, so
  `RouterIsClean` does not speak of it.
- Exceptions that escape their callers' handlers without effect on what the properties say: `find_recent_backup`'s `stat`
  (`apply.py:84`), an `OSError` of `open_sftp` (`ssh.py:161`), which the models end as a failed run; and the abort of an
  update check that was answered but found nothing available (`apply.py:225`), which like the others is decided before
  the install command.
- An unset Slack bot channel, for which `deliverToSlackBot` returns early: the bot of `JobAlerts` is configured.
- Real time. A tick is a unit in which thresholds are compared; HTTP and SSH timeouts are the nondeterminism of
  `Retry`, `GiveUp`, `Unanswered` and the `...Fails` actions.
- D1 as more than one database: replication and read sessions are not used by the code.

## 8 Plan

Done: the dead-man switch, command dispatch with its contract, updates, exports, backups, the device loop and the alerts,
each with proofs.

Worth adding, in this order:

1. `BackupPipeline` and `UpdateApply` in one module: `GateSeesWhole` says what the gate of an update reads; the composition
   would say it of the install itself, a shell's run of another process included.
2. The deletion of a catalog row against a concurrent upload of the same name.
3. Two captures of one device in the wrong order (`export.py:74`): a property needs a promise about order, which no
   document makes.

## 9 How to run it

```
cd tla
tlasany DeadMan.tla                                # parse
tlc -workers 2 -config DeadMan.cfg MCDeadMan.tla   # one run; PROJECT.json lists module and cfg of each
tlapm DeadManProofs.tla                            # check the proofs; each proof module takes one to four minutes
```

Every passing run ends within three minutes with two workers. Each property has a mutant in `PROJECT.json`: a
definition and its faulty form, which stands above it in the module. Substituting it must make the run fail.
