--------------------------- MODULE AgentSchedule ---------------------------
(***************************************************************************)
(* One device of the agent (daemon.py): the loop that probes it, reports   *)
(* its heartbeat and then runs the interval jobs that are due, and the     *)
(* command thread, which does the same work on request and shares the      *)
(* timestamps last_export and last_backup with the loop.                   *)
(*                                                                         *)
(* A timestamp is kept as its age: the time since it was written, as long  *)
(* as that is less than its interval.  Nothing of this survives the        *)
(* process.                                                                *)
(*                                                                         *)
(* Probes, reports and jobs may last as long as they like, and an export,  *)
(* whose git commands and locks have no timeout, may never end.  The       *)
(* histories beat and rest count of every such step only the time that it  *)
(* is allowed (MaxProbe, MaxReport, MaxJob): what it overruns is left out. *)
(***************************************************************************)
EXTENDS Integers, Sequences

CONSTANTS
    Interval,   \* of each job kind; 0: the job is off
    Beat,       \* heartbeat interval
    Offset,     \* startup_offset of the device
    MaxProbe,   \* allowed to a probe, over all its transports
    MaxReport,  \* allowed to ping, heartbeat and health_check together
    MaxJob,     \* allowed to an interval job, its own report included
    Cap         \* bound: beat and rest saturate here

\* The order in which a tick looks at the jobs.
Order == <<"export", "update_check", "inventory", "backup">>
Kinds == {"export", "update_check", "inventory", "backup"}
On == {k \in Kinds : Interval[k] # 0}
Commands == {"export", "sensitive_export", "backup", "update_apply"}

\* What a tick is allowed, and what lies between two heartbeats or probes.
Tick == MaxProbe + MaxReport + Len(Order) * MaxJob
Period == Tick + Beat

ASSUME ConstantsAssumption ==
    /\ Interval \in [Kinds -> Nat]
    /\ Beat \in Nat \ {0} /\ Offset \in Nat
    /\ MaxProbe \in Nat /\ MaxReport \in Nat /\ MaxJob \in Nat
    /\ Cap \in Nat /\ Offset + Tick < Cap
    /\ \A k \in Kinds : Interval[k] + Period + Tick < Cap

VARIABLES
    alive,      \* the process runs
    at,         \* where the device's loop is; "ended" when its thread is gone
    timer,      \* time spent there
    tick,       \* what a tick knows: did the router answer, what is due, next job
    age,        \* age of last_<kind>, or Never: 0.0
    cmd,        \* what the command thread does, and with which command
    beat,       \* history: time since a heartbeat was sent, or the try of it raised
    rest,       \* history: time since the loop tried a kind, or it was put off
    done        \* history: time since a kind last succeeded in this process

vars == <<alive, at, timer, tick, age, cmd, beat, rest, done>>

Never == -1
Idle == [pc |-> "idle", kind |-> "export"]
Blank == [ok |-> FALSE, due |-> {}, pos |-> 1]
\* What a place is allowed; the loop's own waits last exactly that.
Limit == [wait |-> Beat, stagger |-> Offset, probe |-> MaxProbe, report |-> MaxReport,
          jobs |-> 0, work |-> MaxJob, post |-> MaxJob]

\* Well-typed; no place of the loop counts for more than it is allowed.
TypeOK ==
    /\ alive \in BOOLEAN
    /\ at \in DOMAIN Limit \cup {"ended"}
    /\ timer \in 0..Cap
    /\ at # "ended" => timer <= Limit[at]
    /\ tick \in [ok : BOOLEAN, due : SUBSET On, pos : 1..Len(Order) + 1]
    /\ at \in {"work", "post"} => tick.pos <= Len(Order)
    /\ age \in [On -> -1..Cap] /\ done \in [On -> -1..Cap]
    /\ beat \in 0..Cap /\ rest \in [On -> 0..Cap]
    /\ cmd \in [pc : {"idle", "work", "report"}, kind : Commands]

Init ==
    /\ alive = TRUE /\ at = "stagger" /\ timer = 0
    /\ tick = Blank /\ cmd = Idle /\ beat = 0
    /\ age = [k \in On |-> Never] /\ done = [k \in On |-> Never]
    /\ rest = [k \in On |-> 0]

Older(t) == IF t < Cap THEN t + 1 ELSE Cap
Aged(k, t) == IF t \in 0..(Interval[k] - 1) THEN t + 1 ELSE t

PassFreely ==
    /\ at # "ended"
    /\ timer' = Older(timer)
    /\ beat' = Older(beat)
    /\ rest' = [k \in On |-> Older(rest[k])]
    /\ age' = [k \in On |-> Aged(k, age[k])]
    /\ done' = [k \in On |-> Aged(k, done[k])]
    /\ UNCHANGED <<alive, at, tick, cmd>>

\* Time passes: the loop's own waits end in time, and what another step takes
\* beyond its allowance is not counted.
Pass ==
    /\ at # "ended"
    /\ at \in {"stagger", "wait", "jobs"} => timer < Limit[at]
    /\ IF timer < Limit[at]
         THEN /\ timer' = timer + 1
              /\ beat' = Older(beat)
              /\ rest' = [k \in On |-> Older(rest[k])]
         ELSE UNCHANGED <<timer, beat, rest>>
    /\ age' = [k \in On |-> Aged(k, age[k])]
    /\ done' = [k \in On |-> Aged(k, done[k])]
    /\ UNCHANGED <<alive, at, tick, cmd>>

Goto(pc, t) == at' = pc /\ timer' = 0 /\ tick' = t

PutOff(S) == rest' = [k \in On |-> IF k \in S THEN 0 ELSE rest[k]]

-----------------------------------------------------------------------------
(* The device's loop                                                       *)

\* The stagger offset, or the wait between two ticks, is over.
Wake ==
    /\ at \in {"stagger", "wait"}
    /\ timer = Limit[at]
    /\ Goto("probe", Blank)
    /\ UNCHANGED <<alive, age, cmd, beat, rest, done>>

\* What _export_due and its siblings will say of a timestamp read at `finished`.
Overdue == {k \in On : age[k] = Never \/ age[k] >= Interval[k]}

\* The transports are tried in turn; `finished` is now.
Probe(answered) ==
    /\ at = "probe"
    /\ Goto("report", [ok |-> answered, due |-> Overdue, pos |-> 1])
    /\ PutOff(IF answered THEN {} ELSE On)
    /\ UNCHANGED <<alive, age, cmd, beat, done>>

ReportAnswered ==
    /\ at = "report"
    /\ beat' = IF tick.ok THEN 0 ELSE beat
    /\ IF tick.ok THEN Goto("jobs", tick) ELSE Goto("wait", Blank)
    /\ UNCHANGED <<alive, age, cmd, rest, done>>

\* The ping and _report: the heartbeat was sent, or the worker not reached; a
\* router that did not answer is not bothered with heavier jobs.
Report ==
    /\ at = "report"
    /\ beat' = 0
    /\ IF tick.ok THEN Goto("jobs", tick) ELSE Goto("wait", Blank)
    /\ UNCHANGED <<alive, age, cmd, rest, done>>

\* A timestamp written after the probe is younger than any interval.
Due(k) == k \in tick.due

\* The next job of the tick that is due starts; those before it were not.
Start(i) ==
    /\ at = "jobs"
    /\ i \in tick.pos..Len(Order)
    /\ Due(Order[i])
    /\ \A j \in tick.pos..(i - 1) : ~Due(Order[j])
    /\ Goto("work", [tick EXCEPT !.pos = i])
    /\ UNCHANGED <<alive, age, cmd, beat, rest, done>>

\* Nothing that is left is due: the tick is over.
EndTick ==
    /\ at = "jobs"
    /\ \A i \in tick.pos..Len(Order) : ~Due(Order[i])
    /\ Goto("wait", Blank)
    /\ UNCHANGED <<alive, age, cmd, beat, rest, done>>

\* The job succeeds: its timestamp is written, then its report is posted.
Succeed ==
    /\ at = "work"
    /\ LET k == Order[tick.pos] IN
        /\ age' = [age EXCEPT ![k] = 0]
        /\ done' = [done EXCEPT ![k] = 0]
        /\ rest' = [rest EXCEPT ![k] = 0]
        /\ tick' = [tick EXCEPT !.due = @ \ {k}]
    /\ at' = "post"
    /\ UNCHANGED <<alive, timer, cmd, beat>>

\* The report is posted, or its loss is logged.
Posted ==
    /\ at = "post"
    /\ Goto("jobs", [tick EXCEPT !.pos = @ + 1])
    /\ UNCHANGED <<alive, age, cmd, beat, rest, done>>

FailForGood ==
    /\ at = "work"
    /\ rest' = [rest EXCEPT ![Order[tick.pos]] = 0]
    /\ Goto("wait", Blank)
    /\ UNCHANGED <<alive, age, cmd, beat, done>>

\* The job ends in its own kind of error: it stays due for the next tick.
Fail ==
    /\ at = "work"
    /\ rest' = [rest EXCEPT ![Order[tick.pos]] = 0]
    /\ Goto("jobs", [tick EXCEPT !.pos = @ + 1])
    /\ UNCHANGED <<alive, age, cmd, beat, done>>

RaiseFatal ==
    /\ at \in {"probe", "report", "work", "post"}
    /\ Goto("ended", Blank)
    /\ beat' = 0
    /\ rest' = [k \in On |-> 0]
    /\ UNCHANGED <<alive, age, cmd, done>>

\* The job a tick is in, and those it has not come to.
Missed == LET first == IF at = "post" THEN tick.pos + 1 ELSE tick.pos
          IN  {Order[i] : i \in first..Len(Order)}

\* Any other exception ends the tick and puts off the jobs it had not come to;
\* the loop catches it and goes on with the next tick.
Raise ==
    /\ at \in {"probe", "report", "work", "post"}
    /\ Goto("wait", Blank)
    /\ beat' = IF at \in {"work", "post"} THEN beat ELSE 0
    /\ PutOff(Missed)
    /\ UNCHANGED <<alive, age, cmd, done>>

-----------------------------------------------------------------------------
(* The command thread                                                      *)

\* The timestamp a successful command advances.
Stamps(c) == CASE c \in {"export", "sensitive_export"} -> {"export"}
               [] c = "backup" -> {"backup"}
               [] OTHER -> {}

Take(c) ==
    /\ alive /\ cmd.pc = "idle"
    /\ cmd' = [pc |-> "work", kind |-> c]
    /\ UNCHANGED <<alive, at, timer, tick, age, beat, rest, done>>

\* The work succeeded; the job and the outcome are still to be posted.
Work ==
    /\ cmd.pc = "work"
    /\ cmd' = [cmd EXCEPT !.pc = "report"]
    /\ done' = [k \in On |-> IF k \in Stamps(cmd.kind) THEN 0 ELSE done[k]]
    /\ UNCHANGED <<alive, at, timer, tick, age, beat, rest>>

\* The work failed: execute_command returns FALSE, nothing is stamped.
Refuse ==
    /\ cmd.pc = "work"
    /\ cmd' = Idle
    /\ UNCHANGED <<alive, at, timer, tick, age, beat, rest, done>>

StampNothing ==
    /\ cmd.pc = "report"
    /\ cmd' = Idle
    /\ UNCHANGED <<alive, at, timer, tick, age, beat, rest, done>>

\* After the reports, the timestamp becomes the time it is by then, and the job
\* of the loop is put off: also by a sensitive_export, which commits nothing.
Stamp ==
    /\ cmd.pc = "report"
    /\ cmd' = Idle
    /\ age' = [k \in On |-> IF k \in Stamps(cmd.kind) THEN 0 ELSE age[k]]
    /\ tick' = [tick EXCEPT !.due = @ \ Stamps(cmd.kind)]
    /\ PutOff(Stamps(cmd.kind))
    /\ UNCHANGED <<alive, at, timer, beat, done>>

-----------------------------------------------------------------------------
(* The process                                                             *)

\* A DeviceState and its threads are those of a process that has done nothing.
Forget ==
    /\ timer' = 0 /\ tick' = Blank /\ cmd' = Idle /\ beat' = 0
    /\ age' = [k \in On |-> Never] /\ done' = [k \in On |-> Never]
    /\ rest' = [k \in On |-> 0]

\* SIGTERM or a crash: the threads are daemon threads and die where they are.
Exit == alive /\ alive' = FALSE /\ at' = "ended" /\ Forget

Restart == ~alive /\ alive' = TRUE /\ at' = "stagger" /\ Forget

Loop ==
    \/ Wake
    \/ \E answered \in BOOLEAN : Probe(answered)
    \/ Report
    \/ \E i \in 1..Len(Order) : Start(i)
    \/ Succeed
    \/ Posted
    \/ Fail
    \/ EndTick
    \/ Raise

CommandThread ==
    \/ \E c \in Commands : Take(c)
    \/ Work
    \/ Refuse
    \/ Stamp

Next == Pass \/ Loop \/ CommandThread \/ Exit \/ Restart

Spec == Init /\ [][Next]_vars

\* In an export: git has no timeout, nor has the wait for the repository's locks.
Exporting == at = "work" /\ Order[tick.pos] = "export"

\* Time passes, and the loop's thread takes the steps it can take, for its SSH
\* and HTTP calls have timeouts; it need not come back from an export.  Operators,
\* commands and restarts owe nothing.
FairSpec == Spec /\ WF_vars(Pass) /\ WF_vars(~Exporting /\ Loop)

-----------------------------------------------------------------------------
(* Properties                                                              *)

\* The worker's dead-man switch can be met: however many jobs are due, slow or
\* failing, no more than one wait, one probe, one report and one run of each job
\* lies between two heartbeats.  What a step overruns its allowance by, as an
\* export in git may, comes on top; so does a probe or report that raised.
HeartbeatInTime == beat <= Period \/ beat <= Offset + MaxProbe + MaxReport

\* No job starves of the others: it is tried within its interval and two ticks
\* (at first, within the stagger offset and one), unless it was put off, which
\* only does a router that did not answer, an exception in the tick before its
\* turn, or the stamp of a command (agent/README.md:122: "each on its own
\* cadence").  Overruns of the jobs come on top.
OnCadence ==
    \A k \in On : rest[k] <= Interval[k] + Period + Tick \/ rest[k] <= Offset + Tick

\* No work is done twice for nothing (daemon.py:193-194): the loop starts a job
\* only when neither thread did it successfully within its interval, unless the
\* command thread is still reporting that very work.
NoDuplicateWork ==
    [][\A k \in On :
            (at = "jobs" /\ at' = "work" /\ k = Order[tick'.pos])
                => \/ done[k] = Never
                   \/ done[k] >= Interval[k]
                   \/ cmd.pc = "report" /\ k \in Stamps(cmd.kind)]_vars

\* No exception and no failing job ends a device's loop: it keeps probing for
\* as long as the process lives (daemon.py:169-170), unless it never comes back
\* from an export.
KeepsProbing == []<>(at = "probe" \/ ~alive) \/ <>[]Exporting
=============================================================================
