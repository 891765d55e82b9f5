-------------------------- MODULE CommandDispatch --------------------------
(***************************************************************************)
(* Operator commands from end to end: the admin route that enqueues them   *)
(* (admin.ts), the poll that claims them and the route that takes their    *)
(* result (ingest.ts), the agent's one command thread (daemon.py,          *)
(* commands.py) and its HTTP client, which tries every call at most twice  *)
(* (minder.py).                                                            *)
(*                                                                         *)
(* One element of Calls is one HTTP attempt.  An attempt its client gave   *)
(* up is not dead: it may still reach the worker, and be served, after the *)
(* second attempt was.                                                     *)
(***************************************************************************)
EXTENDS Naturals, FiniteSets

CONSTANTS
    Cmds,           \* command ids
    Devices,        \* device ids
    Agents,         \* agent ids
    Owner,          \* devices.agent_id, a function on Devices
    Configured,     \* devices whose name is in their agent's own config
    Calls,          \* bound: HTTP attempts in flight at once
    NoCmd, NoDevice, NoAgent, NoCall,
    BatchLimit,     \* LIMIT of the claim (20 in the code)
    MaxTime,        \* bound: the clock stops here
    MaxFaults       \* bound: lost attempts, crashes, revocations, deletions

ASSUME ConstantsAssumption ==
    /\ NoCmd \notin Cmds
    /\ NoDevice \notin Devices
    /\ NoAgent \notin Agents
    /\ NoCall \notin Calls
    /\ Owner \in [Devices -> Agents]
    /\ Configured \subseteq Devices
    /\ BatchLimit \in Nat \ {0}
    /\ MaxTime \in Nat
    /\ MaxFaults \in Nat

Kinds == {"plain", "sensitive_export"}      \* plain: backup, export, update_apply
Outcomes == {"succeeded", "failed"}
\* "presumed": an update whose reboot was only thought to have happened.
Effects == {"undone", "done", "presumed"}
Time == 0..MaxTime

VARIABLES
    clock,      \* nowSeconds()
    devices,    \* rows of `devices`
    status,     \* commands.status; "none": never inserted, "gone": cascaded
    device,     \* commands.device_id
    kind,       \* commands.kind
    due,        \* commands.scheduled_for (NULL is 0: due at once)
    created,    \* commands.created_at
    artifact,   \* commands whose artifact IS NOT NULL
    admitted,   \* agents whose token is accepted
    agent,      \* the command thread of every agent
    call,       \* HTTP attempts
    ran,        \* history: times the work of a command was started
    effect,     \* history: what that work did, whatever is reported of it
    served,     \* history: times an artifact left the worker
    faults      \* faults so far

row == <<device, kind, due, created>>
history == <<ran, effect, served>>
vars == <<clock, devices, status, row, artifact, admitted, agent, call, history,
          faults>>

IdleCall == [pc |-> "idle", agent |-> NoAgent, cmd |-> NoCmd, outcome |-> "failed",
             reply |-> {}]
\* The thread is between two polls, or between two commands of `todo`.
ReadyAgent(todo) == [pc |-> "ready", todo |-> todo, cur |-> NoCmd,
                     outcome |-> "failed", call |-> NoCall, tries |-> 0]
DownAgent == [pc |-> "down", todo |-> {}, cur |-> NoCmd,
              outcome |-> "failed", call |-> NoCall, tries |-> 0]
PollingAgent(k) == [pc |-> "polling", todo |-> {}, cur |-> NoCmd,
                    outcome |-> "failed", call |-> k, tries |-> 1]
WorkingAgent(todo, c) == [pc |-> "working", todo |-> todo, cur |-> c,
                          outcome |-> "failed", call |-> NoCall, tries |-> 0]
\* The work is over, its outcome o is decided and its job is being posted.
WorkedAgent(todo, c, o) == [pc |-> "worked", todo |-> todo, cur |-> c,
                            outcome |-> o, call |-> NoCall, tries |-> 0]
StuckAgent == [DownAgent EXCEPT !.pc = "stuck"]
ReportingAgent(todo, c, o, k) == [pc |-> "reporting", todo |-> todo, cur |-> c,
                                  outcome |-> o, call |-> k, tries |-> 1]

Call == [pc : {"idle", "sent", "checked", "answered"}, agent : Agents \cup {NoAgent},
         cmd : Cmds \cup {NoCmd}, outcome : Outcomes, reply : SUBSET Cmds]
Agent == [pc : {"down", "ready", "polling", "working", "worked", "reporting", "stuck"},
          todo : SUBSET Cmds, cur : Cmds \cup {NoCmd}, outcome : Outcomes,
          call : Calls \cup {NoCall}, tries : 0..2]

\* Well-typed tables, threads and attempts; a thread waits for an answer
\* exactly when it has an attempt of its own in flight.
TypeOK ==
    /\ clock \in Time
    /\ devices \subseteq Devices
    /\ status \in [Cmds -> {"none", "pending", "claimed", "gone"} \cup Outcomes]
    /\ device \in [Cmds -> Devices \cup {NoDevice}]
    /\ kind \in [Cmds -> Kinds]
    /\ due \in [Cmds -> Time]
    /\ created \in [Cmds -> Time]
    /\ artifact \subseteq Cmds
    /\ admitted \subseteq Agents
    /\ agent \in [Agents -> Agent]
    /\ call \in [Calls -> Call]
    /\ \A a \in Agents :
         /\ agent[a].pc \in {"polling", "reporting"} <=> agent[a].call # NoCall
         /\ agent[a].pc \in {"working", "worked", "reporting"} <=> agent[a].cur # NoCmd
         /\ agent[a].call # NoCall => call[agent[a].call].agent = a
    /\ \A k \in Calls : call[k].pc = "idle" <=> call[k].agent = NoAgent
    /\ ran \in [Cmds -> Nat]
    /\ effect \in [Cmds -> Effects]
    /\ served \in [Cmds -> Nat]
    /\ faults \in 0..MaxFaults

Init ==
    /\ clock = 0
    /\ devices = Devices
    /\ status = [c \in Cmds |-> "none"]
    /\ device = [c \in Cmds |-> NoDevice]
    /\ kind = [c \in Cmds |-> "plain"]
    /\ due = [c \in Cmds |-> 0]
    /\ created = [c \in Cmds |-> 0]
    /\ artifact = {}
    /\ admitted = Agents
    /\ agent = [a \in Agents |-> ReadyAgent({})]
    /\ call = [k \in Calls |-> IdleCall]
    /\ ran = [c \in Cmds |-> 0]
    /\ effect = [c \in Cmds |-> "undone"]
    /\ served = [c \in Cmds |-> 0]
    /\ faults = 0

Tick ==
    /\ clock < MaxTime
    /\ clock' = clock + 1
    /\ UNCHANGED <<devices, status, row, artifact, admitted, agent, call, history,
                   faults>>

-----------------------------------------------------------------------------
(* /v1/admin                                                               *)

\* POST /commands: the device is looked up, then the row inserted; the foreign
\* key makes the two one step.
Enqueue(c, d, k, at) ==
    /\ status[c] = "none"
    /\ d \in devices
    /\ status' = [status EXCEPT ![c] = "pending"]
    /\ device' = [device EXCEPT ![c] = d]
    /\ kind' = [kind EXCEPT ![c] = k]
    /\ due' = [due EXCEPT ![c] = at]
    /\ created' = [created EXCEPT ![c] = clock]
    /\ UNCHANGED <<clock, devices, artifact, admitted, agent, call, history, faults>>

DownloadKeeping(c) ==
    /\ c \in artifact
    /\ served' = [served EXCEPT ![c] = @ + 1]
    /\ UNCHANGED <<clock, devices, status, row, artifact, admitted, agent, call, ran,
                   effect, faults>>

\* GET /commands/:id/artifact: one UPDATE purges the body and returns it.
Download(c) ==
    /\ c \in artifact
    /\ artifact' = artifact \ {c}
    /\ served' = [served EXCEPT ![c] = @ + 1]
    /\ UNCHANGED <<clock, devices, status, row, admitted, agent, call, ran, effect,
                   faults>>

\* DELETE /devices/:id cascades to the device's commands.
DeleteDevice(d) ==
    LET dead == {c \in Cmds : device[c] = d} IN
    /\ d \in devices
    /\ faults < MaxFaults
    /\ faults' = faults + 1
    /\ devices' = devices \ {d}
    /\ status' = [c \in Cmds |-> IF c \in dead THEN "gone" ELSE status[c]]
    /\ artifact' = artifact \ dead
    /\ UNCHANGED <<clock, row, admitted, agent, call, history>>

\* POST /agents/:id/disable, or rotate-token while the agent has the old one.
Revoke(a) ==
    /\ a \in admitted
    /\ faults < MaxFaults
    /\ faults' = faults + 1
    /\ admitted' = admitted \ {a}
    /\ UNCHANGED <<clock, devices, status, row, artifact, agent, call, history>>

\* POST /agents/:id/rotate-token enables the agent; its config gets the token.
Admit(a) ==
    /\ a \notin admitted
    /\ admitted' = admitted \cup {a}
    /\ UNCHANGED <<clock, devices, status, row, artifact, agent, call, history,
                   faults>>

-----------------------------------------------------------------------------
(* The agent's HTTP client: send, read the answer, try once more, give up   *)

Heard(k) == \E a \in Agents : agent[a].call = k

\* An answer nobody waits for is lost.
Answered(k, outcome, reply) ==
    IF Heard(k) THEN [call[k] EXCEPT !.pc = "answered", !.outcome = outcome,
                                     !.reply = reply]
                ELSE IdleCall

Request(a, c, outcome) ==
    [pc |-> "sent", agent |-> a, cmd |-> c, outcome |-> outcome, reply |-> {}]

\* Letting go of an attempt: what the worker already answered is dropped, what
\* it has not served yet stays on its way.
Released(k) ==
    IF call[k].pc = "answered" THEN [call EXCEPT ![k] = IdleCall] ELSE call

\* A transport error or a 5xx on the first attempt: the same request again.
Retry(a, k) ==
    LET g == agent[a] IN
    /\ g.call # NoCall
    /\ g.tries = 1
    /\ call[k].pc = "idle"
    /\ faults < MaxFaults
    /\ faults' = faults + 1
    /\ agent' = [agent EXCEPT ![a].call = k, ![a].tries = 2]
    /\ call' = [Released(g.call) EXCEPT ![k] = Request(a, g.cur, g.outcome)]
    /\ UNCHANGED <<clock, devices, status, row, artifact, admitted, history>>

GiveUpHolding(a) ==
    LET g == agent[a] IN
    /\ g.call # NoCall
    /\ g.tries = 2
    /\ faults < MaxFaults
    /\ faults' = faults + 1
    /\ agent' = [agent EXCEPT ![a].pc = "ready"]
    /\ call' = Released(g.call)
    /\ UNCHANGED <<clock, devices, status, row, artifact, admitted, history>>

\* The second attempt fails: MinderError.  A poll counts as empty, a result
\* report is logged and forgotten (daemon.py:187, commands.py:315-316).
GiveUp(a) ==
    LET g == agent[a] IN
    /\ g.call # NoCall
    /\ g.tries = 2
    /\ faults < MaxFaults
    /\ faults' = faults + 1
    /\ agent' = [agent EXCEPT ![a] = ReadyAgent(g.todo)]
    /\ call' = Released(g.call)
    /\ UNCHANGED <<clock, devices, status, row, artifact, admitted, history>>

\* An abandoned attempt never arrives, or its isolate is evicted.
Vanish(k) ==
    /\ call[k].pc \in {"sent", "checked"}
    /\ ~Heard(k)
    /\ call' = [call EXCEPT ![k] = IdleCall]
    /\ UNCHANGED <<clock, devices, status, row, artifact, admitted, agent, history,
                   faults>>

-----------------------------------------------------------------------------
(* The agent's command thread                                              *)

\* GET /v1/ingest/commands, 30 s after the previous batch was worked off.
Poll(a, k) ==
    /\ agent[a].pc = "ready"
    /\ agent[a].todo = {}
    /\ call[k].pc = "idle"
    /\ agent' = [agent EXCEPT ![a] = PollingAgent(k)]
    /\ call' = [call EXCEPT ![k] = Request(a, NoCmd, "failed")]
    /\ UNCHANGED <<clock, devices, status, row, artifact, admitted, history, faults>>

\* The answer to a poll: the batch, or nothing when it was an error.
TakeBatch(a) ==
    LET k == agent[a].call IN
    /\ agent[a].pc = "polling"
    /\ call[k].pc = "answered"
    /\ agent' = [agent EXCEPT ![a] = ReadyAgent(call[k].reply)]
    /\ call' = Released(k)
    /\ UNCHANGED <<clock, devices, status, row, artifact, admitted, history, faults>>

\* The next command of the batch starts its work on the router.  (A pipeline the
\* agent is not configured for is work that fails at once.)
StartWork(a, c) ==
    /\ agent[a].pc = "ready"
    /\ c \in agent[a].todo
    /\ device[c] \in Configured
    /\ agent' = [agent EXCEPT ![a] = WorkingAgent(agent[a].todo \ {c}, c)]
    /\ ran' = [ran EXCEPT ![c] = @ + 1]
    /\ UNCHANGED <<clock, devices, status, row, artifact, admitted, call, effect,
                   served, faults>>

\* A command for a device the agent does not know fails without any work.
RefuseWork(a, c, k) ==
    /\ agent[a].pc = "ready"
    /\ c \in agent[a].todo
    /\ device[c] \notin Configured
    /\ call[k].pc = "idle"
    /\ agent' = [agent EXCEPT
                    ![a] = ReportingAgent(agent[a].todo \ {c}, c, "failed", k)]
    /\ call' = [call EXCEPT ![k] = Request(a, c, "failed")]
    /\ UNCHANGED <<clock, devices, status, row, artifact, admitted, history, faults>>

\* The executor has its result: e is what was done, o what it makes of it.
Settle(a, e, o) ==
    /\ effect' = [effect EXCEPT ![agent[a].cur] = e]
    /\ agent' = [agent EXCEPT ![a] = WorkedAgent(agent[a].todo, agent[a].cur, o)]

ReturnCheerfully(a) ==
    /\ agent[a].pc = "working"
    /\ \/ Settle(a, "done", "succeeded") /\ UNCHANGED faults
       \/ kind[agent[a].cur] = "plain" /\ Settle(a, "undone", "succeeded") /\ UNCHANGED faults
    /\ UNCHANGED <<clock, devices, status, row, artifact, admitted, call, ran, served>>

\* The runner returns: all was done; or an export whose push failed, which is
\* reported as failed; or an update that took a lost probe for the reboot.
Return(a) ==
    /\ agent[a].pc = "working"
    /\ \/ Settle(a, "done", "succeeded") /\ UNCHANGED faults
       \/ kind[agent[a].cur] = "plain" /\ Settle(a, "undone", "failed") /\ UNCHANGED faults
       \/ /\ kind[agent[a].cur] = "plain" /\ Settle(a, "presumed", "succeeded")
          /\ faults < MaxFaults /\ faults' = faults + 1
    /\ UNCHANGED <<clock, devices, status, row, artifact, admitted, call, ran, served>>

\* The runner raises, an error of its own or any other, or posting the job does:
\* "failed" is reported.  What the router had done by then stays done.
Raise(a, k) ==
    LET c == agent[a].cur IN
    /\ call[k].pc = "idle"
    /\ \/ agent[a].pc = "working" /\ \E e \in {"undone", "done"} : effect' = [effect EXCEPT ![c] = e]
       \/ agent[a].pc = "worked" /\ UNCHANGED effect
    /\ agent' = [agent EXCEPT ![a] = ReportingAgent(agent[a].todo, c, "failed", k)]
    /\ call' = [call EXCEPT ![k] = Request(a, c, "failed")]
    /\ UNCHANGED <<clock, devices, status, row, artifact, admitted, ran, served, faults>>

\* The job is posted or its loss logged; then the result is sent, with the body
\* when a sensitive_export succeeded.
Send(a, k) ==
    LET g == agent[a] IN
    /\ g.pc = "worked"
    /\ call[k].pc = "idle"
    /\ agent' = [agent EXCEPT ![a] = ReportingAgent(g.todo, g.cur, g.outcome, k)]
    /\ call' = [call EXCEPT ![k] = Request(a, g.cur, g.outcome)]
    /\ UNCHANGED <<clock, devices, status, row, artifact, admitted, history, faults>>

\* Reporting a success raises something that is no MinderError: execute_command
\* reports the same command once more, as failed.
ReportRaises(a, k) ==
    LET g == agent[a] IN
    /\ g.pc = "reporting"
    /\ g.outcome = "succeeded"
    /\ call[k].pc = "idle"
    /\ faults < MaxFaults
    /\ faults' = faults + 1
    /\ agent' = [agent EXCEPT ![a] = ReportingAgent(g.todo, g.cur, "failed", k)]
    /\ call' = [Released(g.call) EXCEPT ![k] = Request(a, g.cur, "failed")]
    /\ UNCHANGED <<clock, devices, status, row, artifact, admitted, history>>

\* The answer to a result report; a 4xx is logged and forgotten as well.
NextCommand(a) ==
    LET k == agent[a].call IN
    /\ agent[a].pc = "reporting"
    /\ call[k].pc = "answered"
    /\ agent' = [agent EXCEPT ![a] = ReadyAgent(agent[a].todo)]
    /\ call' = Released(k)
    /\ UNCHANGED <<clock, devices, status, row, artifact, admitted, history, faults>>

\* The process dies, or is told to stop: the rest of the batch is forgotten.
Crash(a) ==
    /\ agent[a].pc \notin {"down", "stuck"}
    /\ faults < MaxFaults
    /\ faults' = faults + 1
    /\ agent' = [agent EXCEPT ![a] = DownAgent]
    /\ call' = IF agent[a].call = NoCall THEN call ELSE Released(agent[a].call)
    /\ UNCHANGED <<clock, devices, status, row, artifact, admitted, history>>

\* The thread waits for ever (git and its locks have no timeout), or it is gone:
\* an exception left the poll loop.  The process lives on without it.
GetStuck(a) ==
    LET g == agent[a] IN
    /\ g.pc \in {"polling", "working", "reporting"}
    /\ faults < MaxFaults
    /\ faults' = faults + 1
    /\ agent' = [agent EXCEPT ![a] = StuckAgent]
    /\ call' = IF g.call = NoCall THEN call ELSE Released(g.call)
    /\ UNCHANGED <<clock, devices, status, row, artifact, admitted, history>>

\* Somebody notices and kills the process.
Kill(a) ==
    /\ agent[a].pc = "stuck"
    /\ agent' = [agent EXCEPT ![a] = DownAgent]
    /\ UNCHANGED <<clock, devices, status, row, artifact, admitted, call, history,
                   faults>>

Restart(a) ==
    /\ agent[a].pc = "down"
    /\ agent' = [agent EXCEPT ![a] = ReadyAgent({})]
    /\ UNCHANGED <<clock, devices, status, row, artifact, admitted, call, history,
                   faults>>

-----------------------------------------------------------------------------
(* The worker's two routes                                                 *)

\* requireAgent: an unknown or disabled token gets a 401.
Deny(k) ==
    /\ call[k].pc = "sent"
    /\ call[k].agent \notin admitted
    /\ call' = [call EXCEPT ![k] = Answered(k, "failed", {})]
    /\ UNCHANGED <<clock, devices, status, row, artifact, admitted, agent, history,
                   faults>>

ClaimableTwice(a) ==
    {c \in Cmds : /\ status[c] \in {"pending", "claimed"}
                  /\ Owner[device[c]] = a
                  /\ due[c] <= clock}

ClaimableAnywhere(a) == {c \in Cmds : status[c] = "pending" /\ due[c] <= clock}

ClaimableScheduled(a) ==
    {c \in Cmds : /\ status[c] = "pending"
                  /\ Owner[device[c]] = a
                  /\ due[c] \in 1..clock}

\* The rows the claim may take: pending, of this agent, and due.
Claimable(a) ==
    {c \in Cmds : status[c] = "pending" /\ Owner[device[c]] = a /\ due[c] <= clock}

\* ORDER BY created_at LIMIT: the oldest, as many as fit; seconds tie.
Oldest(S, B) ==
    /\ B \subseteq S
    /\ \/ B = S /\ Cardinality(S) <= BatchLimit
       \/ Cardinality(S) > BatchLimit /\ Cardinality(B) = BatchLimit
    /\ \A c \in B, e \in S \ B : created[c] <= created[e]

\* One UPDATE ... RETURNING turns the batch `claimed` and is the answer.
Claim(k, B) ==
    LET a == call[k].agent IN
    /\ call[k].pc = "sent"
    /\ call[k].cmd = NoCmd
    /\ a \in admitted
    /\ Oldest(Claimable(a), B)
    /\ status' = [c \in Cmds |-> IF c \in B THEN "claimed" ELSE status[c]]
    /\ call' = [call EXCEPT ![k] = Answered(k, "succeeded", B)]
    /\ UNCHANGED <<clock, devices, row, artifact, admitted, agent, history, faults>>

WithBody(k) == call[k].outcome = "succeeded" /\ kind[call[k].cmd] = "sensitive_export"

Open(k) ==
    /\ status[call[k].cmd] = "claimed"
    /\ Owner[device[call[k].cmd]] = call[k].agent

\* A result with an artifact first SELECTs the claimed command and its kind.
CheckArtifact(k) ==
    /\ call[k].pc = "sent"
    /\ call[k].cmd # NoCmd
    /\ call[k].agent \in admitted
    /\ WithBody(k)
    /\ call' = [call EXCEPT ![k] = IF Open(k) THEN [@ EXCEPT !.pc = "checked"]
                                              ELSE Answered(k, "failed", {})]
    /\ UNCHANGED <<clock, devices, status, row, artifact, admitted, agent, history,
                   faults>>

RecordUnguarded(k) ==
    LET c == call[k].cmd IN
    /\ c # NoCmd
    /\ \/ call[k].pc = "sent" /\ ~WithBody(k) /\ call[k].agent \in admitted
       \/ call[k].pc = "checked"
    /\ status[c] \notin {"none", "gone"}
    /\ status' = [status EXCEPT ![c] = call[k].outcome]
    /\ artifact' = IF WithBody(k) THEN artifact \cup {c} ELSE artifact \ {c}
    /\ call' = [call EXCEPT ![k] = Answered(k, "succeeded", {})]
    /\ UNCHANGED <<clock, devices, row, admitted, agent, history, faults>>

\* The UPDATE stores status and artifact where the command is still claimed.
Record(k) ==
    LET c == call[k].cmd IN
    /\ c # NoCmd
    /\ \/ call[k].pc = "sent" /\ ~WithBody(k) /\ call[k].agent \in admitted
       \/ call[k].pc = "checked"
    /\ IF Open(k)
         THEN /\ status' = [status EXCEPT ![c] = call[k].outcome]
              /\ artifact' = IF WithBody(k) THEN artifact \cup {c} ELSE artifact \ {c}
              /\ call' = [call EXCEPT ![k] = Answered(k, "succeeded", {})]
         ELSE /\ call' = [call EXCEPT ![k] = Answered(k, "failed", {})]
              /\ UNCHANGED <<status, artifact>>
    /\ UNCHANGED <<clock, devices, row, admitted, agent, history, faults>>

-----------------------------------------------------------------------------
Client(a) ==
    \/ \E k \in Calls : Poll(a, k)
    \/ TakeBatch(a)
    \/ \E c \in Cmds : StartWork(a, c)
    \/ \E c \in Cmds, k \in Calls : RefuseWork(a, c, k)
    \/ Return(a)
    \/ \E k \in Calls : Raise(a, k)
    \/ \E k \in Calls : Send(a, k)
    \/ NextCommand(a)
    \/ Restart(a)

ClientFault(a) ==
    \/ \E k \in Calls : Retry(a, k)
    \/ GiveUp(a)
    \/ \E k \in Calls : ReportRaises(a, k)
    \/ GetStuck(a)
    \/ Kill(a)
    \/ Crash(a)

Worker(k) ==
    \/ Deny(k)
    \/ \E B \in SUBSET Cmds : Claim(k, B)
    \/ CheckArtifact(k)
    \/ Record(k)

Operator ==
    \/ \E c \in Cmds, d \in Devices, k \in Kinds, at \in Time : Enqueue(c, d, k, at)
    \/ \E c \in Cmds : Download(c)
    \/ \E d \in Devices : DeleteDevice(d)
    \/ \E a \in Agents : Revoke(a) \/ Admit(a)

Next ==
    \/ Tick
    \/ \E a \in Agents : Client(a) \/ ClientFault(a)
    \/ \E k \in Calls : Worker(k) \/ Vanish(k)
    \/ Operator

Spec == Init /\ [][Next]_vars

\* The agent process is restarted by its supervisor and its thread goes on unless
\* it got stuck; the worker serves what reaches it.  Operators, lost attempts,
\* crashes and whoever might kill a stuck process owe nothing.
FairSpec ==
    /\ Spec
    /\ \A a \in Agents : WF_vars(Client(a))
    /\ \A k \in Calls : WF_vars(Worker(k))

-----------------------------------------------------------------------------
(* Properties                                                              *)

Contract == INSTANCE CommandContract WITH stage <- status, worked <- ran

\* The tables and the agents together keep the promises of CommandContract:
\* one hand-out, one run, one outcome, no outcome `succeeded` without work,
\* one download, whatever is lost, late or sent twice.
ImplementsContract == Contract!Spec

\* However late or often a poll arrives, no command is worked on twice
\* (the comment at ingest.ts:216-218).
RunOnce == \A c \in Cmds : ran[c] <= 1

\* An operator who reads `succeeded` may rely on it: whatever raised half way,
\* whichever of several reports arrived, the work was done, except for an update
\* that was only presumed to be (UpdateApply).  `failed` promises nothing: the
\* work may have been done when its report was not.
OutcomeIsTrue ==
    \A c \in Cmds : status[c] = "succeeded" =>
        effect[c] = "done" \/ (kind[c] = "plain" /\ effect[c] = "presumed")

\* A sensitive body leaves the worker once, although its report may be sent
\* again after the operator already purged it (the comment at admin.ts:284-285).
ServedOnce == \A c \in Cmds : served[c] <= 1

\* Work starts in the hands of the device's own agent, not before its time.
WorkIsDue ==
    \A a \in Agents : agent[a].cur # NoCmd =>
        Owner[device[agent[a].cur]] = a /\ due[agent[a].cur] <= clock

\* A due command does not stay pending while its agent is admitted and its
\* thread is not stuck: lost polls and restarts delay the claim, and so does a
\* full batch of older commands.
DueIsClaimed ==
    \A c \in Cmds : (status[c] = "pending" /\ due[c] <= clock)
                        ~> \/ status[c] # "pending"
                           \/ Owner[device[c]] \notin admitted
                           \/ agent[Owner[device[c]]].pc = "stuck"
=============================================================================
