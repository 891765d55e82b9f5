----------------------- MODULE CommandDispatchProofs -----------------------
(***************************************************************************)
(* Type correctness and the safety of command dispatch, and that it        *)
(* implements CommandContract, for every number of agents, devices,        *)
(* commands, HTTP attempts and faults.                                     *)
(***************************************************************************)
EXTENDS CommandDispatch, TLAPS

-----------------------------------------------------------------------------
(* Threads and attempts                                                    *)

\* The part of TypeOK that the threads and their attempts share.
Net ==
    /\ agent \in [Agents -> Agent]
    /\ call \in [Calls -> Call]
    /\ \A a \in Agents :
         /\ agent[a].pc \in {"polling", "reporting"} <=> agent[a].call # NoCall
         /\ agent[a].pc \in {"working", "worked", "reporting"} <=> agent[a].cur # NoCmd
         /\ agent[a].call # NoCall => call[agent[a].call].agent = a
    /\ \A k \in Calls : call[k].pc = "idle" <=> call[k].agent = NoAgent

\* A thread that is consistent with itself.
Coherent(g) ==
    /\ g \in Agent
    /\ g.pc \in {"polling", "reporting"} <=> g.call # NoCall
    /\ g.pc \in {"working", "worked", "reporting"} <=> g.cur # NoCmd

\* What a free attempt is.
LEMMA IdleTyped ==
  /\ IdleCall \in Call /\ IdleCall.pc = "idle" /\ IdleCall.agent = NoAgent
  /\ IdleCall.cmd = NoCmd /\ IdleCall.reply = {}
  BY DEF IdleCall, Call, Outcomes

\* A thread between two polls, or between two commands, is consistent.
LEMMA ReadyTyped ==
  ASSUME NEW S \in SUBSET Cmds
  PROVE  /\ Coherent(ReadyAgent(S))
         /\ ReadyAgent(S).pc = "ready" /\ ReadyAgent(S).todo = S
         /\ ReadyAgent(S).call = NoCall /\ ReadyAgent(S).cur = NoCmd
  BY DEF ReadyAgent, Agent, Outcomes, Coherent

\* So is a thread whose process died,
LEMMA DownTyped ==
  /\ Coherent(DownAgent) /\ DownAgent.pc = "down"
  /\ DownAgent.call = NoCall /\ DownAgent.todo = {} /\ DownAgent.cur = NoCmd
  BY DEF DownAgent, Agent, Outcomes, Coherent

\* one that waits for the answer to its poll,
LEMMA PollingTyped ==
  ASSUME NEW k \in Calls
  PROVE  /\ Coherent(PollingAgent(k))
         /\ PollingAgent(k).pc = "polling" /\ PollingAgent(k).todo = {}
         /\ PollingAgent(k).call = k /\ PollingAgent(k).cur = NoCmd
  BY ConstantsAssumption DEF PollingAgent, Agent, Outcomes, Coherent

\* one that works on a command,
LEMMA WorkingTyped ==
  ASSUME NEW S \in SUBSET Cmds, NEW c \in Cmds
  PROVE  /\ Coherent(WorkingAgent(S, c))
         /\ WorkingAgent(S, c).pc = "working" /\ WorkingAgent(S, c).todo = S
         /\ WorkingAgent(S, c).call = NoCall /\ WorkingAgent(S, c).cur = c
  BY ConstantsAssumption DEF WorkingAgent, Agent, Outcomes, Coherent

\* one whose work is over,
LEMMA WorkedTyped ==
  ASSUME NEW S \in SUBSET Cmds, NEW c \in Cmds, NEW o \in Outcomes
  PROVE  /\ Coherent(WorkedAgent(S, c, o))
         /\ WorkedAgent(S, c, o).pc = "worked" /\ WorkedAgent(S, c, o).todo = S
         /\ WorkedAgent(S, c, o).call = NoCall /\ WorkedAgent(S, c, o).cur = c
         /\ WorkedAgent(S, c, o).outcome = o
  BY ConstantsAssumption DEF WorkedAgent, Agent, Coherent

\* one that is stuck,
LEMMA StuckTyped ==
  /\ Coherent(StuckAgent) /\ StuckAgent.pc = "stuck"
  /\ StuckAgent.call = NoCall /\ StuckAgent.todo = {} /\ StuckAgent.cur = NoCmd
  BY DEF StuckAgent, DownAgent, Agent, Outcomes, Coherent

\* and one that waits for the answer to its report.
LEMMA ReportingTyped ==
  ASSUME NEW S \in SUBSET Cmds, NEW c \in Cmds, NEW o \in Outcomes, NEW k \in Calls
  PROVE  /\ Coherent(ReportingAgent(S, c, o, k))
         /\ ReportingAgent(S, c, o, k).pc = "reporting" /\ ReportingAgent(S, c, o, k).todo = S
         /\ ReportingAgent(S, c, o, k).call = k /\ ReportingAgent(S, c, o, k).cur = c
         /\ ReportingAgent(S, c, o, k).outcome = o
  BY ConstantsAssumption DEF ReportingAgent, Agent, Outcomes, Coherent

\* A new attempt carries what it was made of and no answer.
LEMMA RequestTyped ==
  ASSUME NEW a \in Agents, NEW c \in Cmds \cup {NoCmd}, NEW o \in Outcomes
  PROVE  /\ Request(a, c, o) \in Call
         /\ Request(a, c, o).pc = "sent" /\ Request(a, c, o).agent = a
         /\ Request(a, c, o).cmd = c /\ Request(a, c, o).outcome = o
         /\ Request(a, c, o).reply = {}
  BY DEF Request, Call

\* Letting go of an attempt frees at most that attempt.
LEMMA ReleasedTyped ==
  ASSUME Net, NEW k \in Calls
  PROVE  /\ Released(k) \in [Calls -> Call]
         /\ \A j \in Calls : Released(k)[j] = IF j = k /\ call[k].pc = "answered"
                                                THEN IdleCall ELSE call[j]
  BY IdleTyped DEF Net, Released

\* An answer keeps the attempt's owner and command, or frees the attempt.
LEMMA AnsweredTyped ==
  ASSUME Net, NEW k \in Calls, NEW o \in Outcomes, NEW R \in SUBSET Cmds
  PROVE  /\ Answered(k, o, R) \in Call
         /\ \/ /\ Heard(k)
               /\ Answered(k, o, R).pc = "answered"
               /\ Answered(k, o, R).agent = call[k].agent
               /\ Answered(k, o, R).cmd = call[k].cmd
               /\ Answered(k, o, R).reply = R
            \/ ~Heard(k) /\ Answered(k, o, R) = IdleCall
<1> DEFINE r == [call[k] EXCEPT !.pc = "answered", !.outcome = o, !.reply = R]
<1>1. call[k] \in Call
  BY DEF Net
<1>2. /\ r \in Call /\ r.pc = "answered" /\ r.agent = call[k].agent /\ r.cmd = call[k].cmd
      /\ r.reply = R
  BY <1>1 DEF Call
<1>3. Answered(k, o, R) = IF Heard(k) THEN r ELSE IdleCall
  BY DEF Answered
<1>4. QED
  BY <1>2, <1>3, IdleTyped

\* An attempt is answered, or dropped because nobody waits for it.
LEMMA NetAnswer ==
  ASSUME Net, NEW k \in Calls, NEW o \in Outcomes, NEW R \in SUBSET Cmds,
         call[k].pc # "idle", UNCHANGED agent,
         call' = [call EXCEPT ![k] = Answered(k, o, R)]
  PROVE  Net'
<1>1. /\ Answered(k, o, R) \in Call
      /\ \/ /\ Heard(k)
            /\ Answered(k, o, R).pc = "answered"
            /\ Answered(k, o, R).agent = call[k].agent
         \/ ~Heard(k) /\ Answered(k, o, R) = IdleCall
  BY AnsweredTyped
<1>2. call[k].agent # NoAgent
  BY DEF Net
<1>3. \A j \in Calls : call'[j] = IF j = k THEN Answered(k, o, R) ELSE call[j]
  BY DEF Net
<1>4. \A b \in Agents : agent[b].call # NoCall => agent[b].call \in Calls
  BY DEF Net, Agent
<1>5. \A b \in Agents : agent[b].call # NoCall => call'[agent[b].call].agent = b
  BY <1>1, <1>3, <1>4 DEF Net, Heard
<1>6. \A j \in Calls : call'[j].pc = "idle" <=> call'[j].agent = NoAgent
  BY <1>1, <1>2, <1>3, IdleTyped DEF Net
<1>7. call' \in [Calls -> Call]
  BY <1>1 DEF Net
<1>8. QED
  BY <1>5, <1>6, <1>7 DEF Net

-----------------------------------------------------------------------------
(* What every step does to threads and attempts                            *)

\* Only thread a moves; only attempt k changes.
ThreadMoves(a) == \A b \in Agents \ {a} : agent'[b] = agent[b]
CallChanges(k) == \A j \in Calls \ {k} : call'[j] = call[j]

\* A thread with no attempt in flight starts one.
LEMMA StartCall ==
  ASSUME Net, NEW a \in Agents, NEW k \in Calls,
         agent[a].call = NoCall, call[k].pc = "idle",
         agent' \in [Agents -> Agent], ThreadMoves(a), Coherent(agent'[a]), agent'[a].call = k,
         call' \in [Calls -> Call], CallChanges(k), call'[k].pc = "sent", call'[k].agent = a
  PROVE  Net'
<1>1. \A j \in Calls : call'[j].pc = "idle" <=> call'[j].agent = NoAgent
  BY ConstantsAssumption DEF Net, CallChanges
<1>2. \A b \in Agents : agent[b].call # NoCall => agent[b].call # k /\ agent[b].call \in Calls
  BY ConstantsAssumption DEF Net, Agent
<1>3. \A b \in Agents \ {a} : agent'[b].call # NoCall => call'[agent'[b].call].agent = b
  BY <1>2 DEF Net, CallChanges, ThreadMoves
<1>4. QED
  BY <1>1, <1>3 DEF Net, Coherent, ThreadMoves

\* A poll starts an attempt of the polling thread.
LEMMA PollNet ==
  ASSUME Net, NEW a \in Agents, NEW k \in Calls, Poll(a, k)
  PROVE  /\ Net' /\ ThreadMoves(a) /\ CallChanges(k)
         /\ agent'[a] = PollingAgent(k)
         /\ call'[k] = Request(a, NoCmd, "failed")
<1>1. agent[a].call = NoCall /\ call[k].pc = "idle"
  BY DEF Poll, Net
<1>2. /\ agent' \in [Agents -> Agent] /\ ThreadMoves(a) /\ agent'[a] = PollingAgent(k)
  BY PollingTyped DEF Poll, Net, ThreadMoves, Coherent
<1>3. "failed" \in Outcomes
  BY DEF Outcomes
<1>4. Request(a, NoCmd, "failed") \in Call
  BY <1>3, RequestTyped
<1>5. /\ call' \in [Calls -> Call] /\ CallChanges(k)
      /\ call'[k] = Request(a, NoCmd, "failed")
  BY <1>4 DEF Poll, Net, CallChanges
<1>6. /\ Coherent(agent'[a]) /\ agent'[a].call = k
      /\ call'[k].pc = "sent" /\ call'[k].agent = a
  BY <1>2, <1>3, <1>5, PollingTyped, RequestTyped
<1>7. QED
  BY <1>1, <1>2, <1>5, <1>6, StartCall

\* A refused command starts its report.
LEMMA RefuseNet ==
  ASSUME Net, NEW a \in Agents, NEW c \in Cmds, NEW k \in Calls, RefuseWork(a, c, k)
  PROVE  /\ Net' /\ ThreadMoves(a) /\ CallChanges(k)
         /\ agent'[a] = ReportingAgent(agent[a].todo \ {c}, c, "failed", k)
         /\ call'[k] = Request(a, c, "failed")
<1>1. agent[a] \in Agent /\ agent[a].call = NoCall /\ call[k].pc = "idle"
  BY DEF RefuseWork, Net
<1>2. agent[a].todo \ {c} \in SUBSET Cmds /\ "failed" \in Outcomes
  BY <1>1 DEF Agent, Outcomes
<1>3. Coherent(ReportingAgent(agent[a].todo \ {c}, c, "failed", k))
  BY <1>2, ReportingTyped
<1>4. /\ agent' \in [Agents -> Agent] /\ ThreadMoves(a)
      /\ agent'[a] = ReportingAgent(agent[a].todo \ {c}, c, "failed", k)
  BY <1>3 DEF RefuseWork, Net, ThreadMoves, Coherent
<1>5. Request(a, c, "failed") \in Call
  BY <1>2, RequestTyped
<1>6. /\ call' \in [Calls -> Call] /\ CallChanges(k)
      /\ call'[k] = Request(a, c, "failed")
  BY <1>5 DEF RefuseWork, Net, CallChanges
<1>7. /\ Coherent(agent'[a]) /\ agent'[a].call = k
      /\ call'[k].pc = "sent" /\ call'[k].agent = a
  BY <1>2, <1>4, <1>6, ReportingTyped, RequestTyped
<1>8. QED
  BY <1>1, <1>4, <1>6, <1>7, StartCall

\* A thread with no attempt in flight starts a report.
LEMMA ReportNet ==
  ASSUME Net, NEW a \in Agents, NEW S \in SUBSET Cmds, NEW c \in Cmds, NEW o \in Outcomes,
         NEW k \in Calls, agent[a].call = NoCall, call[k].pc = "idle",
         agent' = [agent EXCEPT ![a] = ReportingAgent(S, c, o, k)],
         call' = [call EXCEPT ![k] = Request(a, c, o)]
  PROVE  /\ Net' /\ ThreadMoves(a) /\ CallChanges(k)
         /\ agent'[a].pc = "reporting" /\ agent'[a].todo = S
         /\ agent'[a].call = k /\ agent'[a].cur = c /\ agent'[a].outcome = o
         /\ call'[k].pc = "sent" /\ call'[k].agent = a /\ call'[k].cmd = c
         /\ call'[k].outcome = o /\ call'[k].reply = {}
<1> DEFINE g == ReportingAgent(S, c, o, k)
           q == Request(a, c, o)
<1>1. /\ Coherent(g) /\ g \in Agent /\ g.pc = "reporting" /\ g.todo = S /\ g.call = k /\ g.cur = c
      /\ g.outcome = o
  BY ReportingTyped DEF Coherent
<1>2. /\ q \in Call /\ q.pc = "sent" /\ q.agent = a /\ q.cmd = c /\ q.outcome = o /\ q.reply = {}
  BY RequestTyped
<1>3. agent' = [agent EXCEPT ![a] = g] /\ call' = [call EXCEPT ![k] = q]
  OBVIOUS
<1> HIDE DEF g, q
<1>4. agent' \in [Agents -> Agent] /\ ThreadMoves(a) /\ agent'[a] = g
  BY <1>1, <1>3 DEF Net, ThreadMoves
<1>5. call' \in [Calls -> Call] /\ CallChanges(k) /\ call'[k] = q
  BY <1>2, <1>3 DEF Net, CallChanges
<1>6. Net'
  BY <1>1, <1>2, <1>4, <1>5, StartCall
<1>7. QED
  BY <1>1, <1>2, <1>4, <1>5, <1>6

\* An executor that has its result keeps its hands on its command.
LEMMA SettleNet ==
  ASSUME Net, NEW a \in Agents, NEW e \in Effects, NEW o \in Outcomes,
         agent[a].pc = "working", Settle(a, e, o), UNCHANGED call
  PROVE  /\ Net' /\ ThreadMoves(a)
         /\ agent'[a].pc = "worked" /\ agent'[a].todo = agent[a].todo
         /\ agent'[a].call = NoCall /\ agent'[a].cur = agent[a].cur /\ agent'[a].outcome = o
<1> DEFINE g == WorkedAgent(agent[a].todo, agent[a].cur, o)
<1>1. /\ agent[a] \in Agent /\ agent[a].cur # NoCmd
  BY DEF Net
<1>2. agent[a].todo \in SUBSET Cmds /\ agent[a].cur \in Cmds
  BY <1>1 DEF Agent
<1>3. /\ Coherent(g) /\ g \in Agent /\ g.pc = "worked" /\ g.todo = agent[a].todo /\ g.call = NoCall
      /\ g.cur = agent[a].cur /\ g.outcome = o
  BY <1>2, WorkedTyped DEF Coherent
<1>4. agent' = [agent EXCEPT ![a] = g]
  BY DEF Settle
<1> HIDE DEF g
<1>5. agent' \in [Agents -> Agent] /\ ThreadMoves(a) /\ agent'[a] = g
  BY <1>3, <1>4 DEF Net, ThreadMoves
<1>6. Net'
  BY <1>3, <1>5 DEF Net, Coherent, ThreadMoves
<1>7. QED
  BY <1>3, <1>5, <1>6

\* What attempts look like once thread a has let go of attempt k.
LetGo(k) ==
    \A j \in Calls : call'[j] = IF j = k /\ call[k].pc = "answered" THEN IdleCall ELSE call[j]

\* A thread lets go of its attempt, if it had one.
LEMMA StopCall ==
  ASSUME Net, NEW a \in Agents,
         agent' \in [Agents -> Agent], ThreadMoves(a), Coherent(agent'[a]), agent'[a].call = NoCall,
         call' \in [Calls -> Call], LetGo(agent[a].call)
  PROVE  Net'
<1>1. \A j \in Calls : call'[j].pc = "idle" <=> call'[j].agent = NoAgent
  BY IdleTyped DEF Net, LetGo
<1>2. \A b \in Agents : agent[b].call # NoCall => agent[b].call \in Calls
  BY DEF Net, Agent
<1>3. \A b \in Agents \ {a} : agent[b].call # NoCall => agent[b].call # agent[a].call
  BY DEF Net
<1>4. \A b \in Agents \ {a} : agent'[b].call # NoCall => call'[agent'[b].call].agent = b
  BY <1>2, <1>3 DEF Net, LetGo, ThreadMoves
<1>5. QED
  BY <1>1, <1>4 DEF Net, Coherent, ThreadMoves

\* Giving up leaves the thread ready with the rest of its batch.
LEMMA GiveUpNet ==
  ASSUME Net, NEW a \in Agents, GiveUp(a)
  PROVE  /\ Net' /\ ThreadMoves(a) /\ LetGo(agent[a].call)
         /\ agent'[a] = ReadyAgent(agent[a].todo)
<1>1. /\ agent[a] \in Agent /\ agent[a].todo \in SUBSET Cmds /\ agent[a].call \in Calls
  BY DEF GiveUp, Net, Agent
<1>2. Coherent(ReadyAgent(agent[a].todo)) /\ ReadyAgent(agent[a].todo).call = NoCall
  BY <1>1, ReadyTyped
<1>3. /\ agent' \in [Agents -> Agent] /\ ThreadMoves(a)
      /\ agent'[a] = ReadyAgent(agent[a].todo)
  BY <1>2 DEF GiveUp, Net, ThreadMoves, Coherent
<1>4. call' \in [Calls -> Call] /\ LetGo(agent[a].call)
  BY <1>1, ReleasedTyped DEF GiveUp, LetGo
<1>5. QED
  BY <1>2, <1>3, <1>4, StopCall

\* The answer to a poll becomes the thread's batch.
LEMMA TakeBatchNet ==
  ASSUME Net, NEW a \in Agents, TakeBatch(a)
  PROVE  /\ Net' /\ ThreadMoves(a) /\ LetGo(agent[a].call) /\ agent[a].call \in Calls
         /\ agent'[a] = ReadyAgent(call[agent[a].call].reply)
<1>1. /\ agent[a] \in Agent /\ agent[a].call \in Calls
  BY DEF TakeBatch, Net, Agent
<1>2. call[agent[a].call].reply \in SUBSET Cmds
  BY <1>1 DEF Net, Call
<1>3. /\ Coherent(ReadyAgent(call[agent[a].call].reply))
      /\ ReadyAgent(call[agent[a].call].reply).call = NoCall
  BY <1>2, ReadyTyped
<1>4. /\ agent' \in [Agents -> Agent] /\ ThreadMoves(a)
      /\ agent'[a] = ReadyAgent(call[agent[a].call].reply)
  BY <1>3 DEF TakeBatch, Net, ThreadMoves, Coherent
<1>5. call' \in [Calls -> Call] /\ LetGo(agent[a].call)
  BY <1>1, ReleasedTyped DEF TakeBatch, LetGo
<1>6. QED
  BY <1>1, <1>3, <1>4, <1>5, StopCall

\* The answer to a report leaves the thread ready with the rest of its batch.
LEMMA NextCommandNet ==
  ASSUME Net, NEW a \in Agents, NextCommand(a)
  PROVE  /\ Net' /\ ThreadMoves(a) /\ LetGo(agent[a].call)
         /\ agent'[a] = ReadyAgent(agent[a].todo)
<1>1. /\ agent[a] \in Agent /\ agent[a].todo \in SUBSET Cmds /\ agent[a].call \in Calls
  BY DEF NextCommand, Net, Agent
<1>2. Coherent(ReadyAgent(agent[a].todo)) /\ ReadyAgent(agent[a].todo).call = NoCall
  BY <1>1, ReadyTyped
<1>3. /\ agent' \in [Agents -> Agent] /\ ThreadMoves(a)
      /\ agent'[a] = ReadyAgent(agent[a].todo)
  BY <1>2 DEF NextCommand, Net, ThreadMoves, Coherent
<1>4. call' \in [Calls -> Call] /\ LetGo(agent[a].call)
  BY <1>1, ReleasedTyped DEF NextCommand, LetGo
<1>5. QED
  BY <1>2, <1>3, <1>4, StopCall

\* A crash leaves nothing of the thread but the attempts on their way.
LEMMA CrashNet ==
  ASSUME Net, NEW a \in Agents, Crash(a)
  PROVE  /\ Net' /\ ThreadMoves(a) /\ LetGo(agent[a].call)
         /\ agent'[a] = DownAgent
<1>1. agent[a] \in Agent /\ agent[a].call \in Calls \cup {NoCall}
  BY DEF Net, Agent
<1>2. /\ agent' \in [Agents -> Agent] /\ ThreadMoves(a) /\ agent'[a] = DownAgent
  BY DownTyped DEF Crash, Net, ThreadMoves, Coherent
<1>3. call' \in [Calls -> Call] /\ LetGo(agent[a].call)
  <2>1. CASE agent[a].call = NoCall
    BY <2>1, ConstantsAssumption DEF Crash, LetGo, Net
  <2>2. CASE agent[a].call # NoCall
    BY <1>1, <2>2, ReleasedTyped DEF Crash, LetGo
  <2>3. QED
    BY <2>1, <2>2
<1>4. QED
  BY <1>2, <1>3, DownTyped, StopCall

\* So does getting stuck,
LEMMA StuckNet ==
  ASSUME Net, NEW a \in Agents, GetStuck(a)
  PROVE  /\ Net' /\ ThreadMoves(a) /\ LetGo(agent[a].call)
         /\ agent'[a] = StuckAgent
<1>1. agent[a] \in Agent /\ agent[a].call \in Calls \cup {NoCall}
  BY DEF Net, Agent
<1>2. /\ agent' \in [Agents -> Agent] /\ ThreadMoves(a) /\ agent'[a] = StuckAgent
  BY StuckTyped DEF GetStuck, Net, ThreadMoves, Coherent
<1>3. call' \in [Calls -> Call] /\ LetGo(agent[a].call)
  <2>1. CASE agent[a].call = NoCall
    BY <2>1, ConstantsAssumption DEF GetStuck, LetGo, Net
  <2>2. CASE agent[a].call # NoCall
    BY <1>1, <2>2, ReleasedTyped DEF GetStuck, LetGo
  <2>3. QED
    BY <2>1, <2>2
<1>4. QED
  BY <1>2, <1>3, StuckTyped, StopCall

\* and being killed then.
LEMMA KillNet ==
  ASSUME Net, NEW a \in Agents, Kill(a)
  PROVE  Net' /\ ThreadMoves(a) /\ agent'[a] = DownAgent
<1>1. /\ agent' \in [Agents -> Agent] /\ ThreadMoves(a) /\ agent'[a] = DownAgent
  BY DownTyped DEF Kill, Net, ThreadMoves, Coherent
<1>2. call' = call
  BY DEF Kill
<1>3. QED
  BY <1>1, <1>2, DownTyped DEF Net, Coherent, ThreadMoves

\* A restart leaves the thread ready with empty hands.
LEMMA RestartNet ==
  ASSUME Net, NEW a \in Agents, Restart(a)
  PROVE  Net' /\ ThreadMoves(a) /\ agent'[a] = ReadyAgent({})
<1>1. Coherent(ReadyAgent({})) /\ ReadyAgent({}).call = NoCall
  BY ReadyTyped
<1>2. /\ agent' \in [Agents -> Agent] /\ ThreadMoves(a) /\ agent'[a] = ReadyAgent({})
  BY <1>1 DEF Restart, Net, ThreadMoves, Coherent
<1>3. call' = call
  BY DEF Restart
<1>4. QED
  BY <1>1, <1>2, <1>3 DEF Net, Coherent, ThreadMoves

\* The command taken up leaves the batch.
LEMMA StartWorkNet ==
  ASSUME Net, NEW a \in Agents, NEW c \in Cmds, StartWork(a, c)
  PROVE  /\ Net' /\ ThreadMoves(a)
         /\ agent'[a] = WorkingAgent(agent[a].todo \ {c}, c)
<1>1. agent[a] \in Agent /\ agent[a].todo \ {c} \in SUBSET Cmds
  BY DEF Net, Agent
<1>2. /\ Coherent(WorkingAgent(agent[a].todo \ {c}, c))
      /\ WorkingAgent(agent[a].todo \ {c}, c).call = NoCall
  BY <1>1, WorkingTyped
<1>3. /\ agent' \in [Agents -> Agent] /\ ThreadMoves(a)
      /\ agent'[a] = WorkingAgent(agent[a].todo \ {c}, c)
  BY <1>2 DEF StartWork, Net, ThreadMoves, Coherent
<1>4. call' = call
  BY DEF StartWork
<1>5. QED
  BY <1>2, <1>3, <1>4 DEF Net, Coherent, ThreadMoves

\* An abandoned attempt is freed.
LEMMA VanishNet ==
  ASSUME Net, NEW k \in Calls, Vanish(k)
  PROVE  /\ Net' /\ CallChanges(k) /\ call'[k] = IdleCall /\ agent' = agent
<1>1. /\ call' \in [Calls -> Call] /\ CallChanges(k) /\ call'[k] = IdleCall /\ agent' = agent
  BY IdleTyped DEF Vanish, Net, CallChanges
<1>2. \A b \in Agents : agent[b].call # k
  BY DEF Vanish, Heard
<1>3. \A b \in Agents : agent[b].call # NoCall => call'[agent[b].call].agent = b
  <2>1. \A b \in Agents : agent[b].call # NoCall => agent[b].call \in Calls
    BY DEF Net, Agent
  <2>2. QED
    BY <1>1, <1>2, <2>1 DEF Net, CallChanges
<1>4. \A j \in Calls : call'[j].pc = "idle" <=> call'[j].agent = NoAgent
  BY <1>1, IdleTyped DEF Net, CallChanges
<1>5. QED
  BY <1>1, <1>3, <1>4 DEF Net

\* The first attempt is let go of, and the same request is sent again.
LEMMA RetryNet ==
  ASSUME Net, NEW a \in Agents, NEW k \in Calls, Retry(a, k)
  PROVE  /\ Net' /\ ThreadMoves(a)
         /\ agent'[a].pc = agent[a].pc /\ agent'[a].todo = agent[a].todo
         /\ agent'[a].cur = agent[a].cur /\ agent'[a].outcome = agent[a].outcome
         /\ agent'[a].call = k /\ k # agent[a].call
         /\ call'[k] = Request(a, agent[a].cur, agent[a].outcome)
         /\ \A j \in Calls \ {k} : call'[j] = IF j = agent[a].call /\ call[j].pc = "answered"
                                              THEN IdleCall ELSE call[j]
<1> DEFINE g == [agent[a] EXCEPT !.call = k, !.tries = 2]
           q == Request(a, agent[a].cur, agent[a].outcome)
           old == agent[a].call
<1>1. agent[a] \in Agent /\ old \in Calls
  BY DEF Retry, Net, Agent
<1>2. agent[a].cur \in Cmds \cup {NoCmd} /\ agent[a].outcome \in Outcomes
  BY <1>1 DEF Agent
<1>3. /\ g \in Agent /\ g.pc = agent[a].pc /\ g.todo = agent[a].todo
      /\ g.cur = agent[a].cur /\ g.outcome = agent[a].outcome /\ g.call = k
  <2> DEFINE h == [agent[a] EXCEPT !.call = k]
  <2>1. /\ h \in Agent /\ h.pc = agent[a].pc /\ h.todo = agent[a].todo
        /\ h.cur = agent[a].cur /\ h.outcome = agent[a].outcome /\ h.call = k
    BY <1>1 DEF Agent
  <2>2. g = [h EXCEPT !.tries = 2]
    OBVIOUS
  <2> HIDE DEF h, g
  <2>3. QED
    BY <2>1, <2>2 DEF Agent
<1>4. agent' = [agent EXCEPT ![a] = g]
  BY DEF Retry, Net
<1>5. call[k].pc = "idle" /\ call[old].pc # "idle" /\ k # NoCall
  BY <1>1, ConstantsAssumption DEF Retry, Net
<1>6. Coherent(g)
  <2>1. agent[a].pc \in {"polling", "reporting"}
    BY DEF Retry, Net
  <2>2. QED
    BY <1>3, <1>5, <2>1 DEF Net, Coherent
<1>7. /\ q \in Call /\ q.pc = "sent" /\ q.agent = a
  BY <1>2, RequestTyped
<1>8. call' = [Released(old) EXCEPT ![k] = q]
  BY DEF Retry
<1>9. /\ Released(old) \in [Calls -> Call]
      /\ \A j \in Calls : Released(old)[j] = IF j = old /\ call[old].pc = "answered"
                                               THEN IdleCall ELSE call[j]
  BY <1>1, ReleasedTyped
<1>10. /\ call' \in [Calls -> Call] /\ call'[k] = q
       /\ \A j \in Calls \ {k} : call'[j] = IF j = old /\ call[j].pc = "answered"
                                            THEN IdleCall ELSE call[j]
  BY <1>7, <1>8, <1>9
<1>11. \A j \in Calls : call'[j].pc = "idle" <=> call'[j].agent = NoAgent
  BY <1>7, <1>10, IdleTyped, ConstantsAssumption DEF Net
<1>12. \A b \in Agents \ {a} : agent[b].call # NoCall =>
          agent[b].call \in Calls /\ agent[b].call # k /\ agent[b].call # old
  BY <1>5, ConstantsAssumption DEF Net, Agent, Retry
<1>13. \A b \in Agents \ {a} : agent[b].call # NoCall => call'[agent[b].call].agent = b
  BY <1>10, <1>12 DEF Net
<1>14. agent' \in [Agents -> Agent] /\ ThreadMoves(a) /\ agent'[a] = g
  BY <1>3, <1>4 DEF Net, ThreadMoves
<1> HIDE DEF g, q
<1>15. Net'
  BY <1>3, <1>6, <1>7, <1>10, <1>11, <1>13, <1>14 DEF Net, Coherent, ThreadMoves
<1>16. QED
  BY <1>3, <1>5, <1>10, <1>14, <1>15 DEF q

\* A report that raised is let go of, and another one is sent.
LEMMA ReportRaisesNet ==
  ASSUME Net, NEW a \in Agents, NEW k \in Calls, ReportRaises(a, k)
  PROVE  /\ Net' /\ ThreadMoves(a)
         /\ agent'[a].pc = "reporting" /\ agent'[a].todo = agent[a].todo
         /\ agent'[a].cur = agent[a].cur /\ agent'[a].outcome = "failed"
         /\ agent'[a].call = k /\ k # agent[a].call
         /\ call'[k] = Request(a, agent[a].cur, "failed")
         /\ \A j \in Calls \ {k} : call'[j] = IF j = agent[a].call /\ call[j].pc = "answered"
                                              THEN IdleCall ELSE call[j]
<1> DEFINE g == ReportingAgent(agent[a].todo, agent[a].cur, "failed", k)
           q == Request(a, agent[a].cur, "failed")
           old == agent[a].call
<1>1. agent[a] \in Agent /\ old \in Calls /\ agent[a].cur # NoCmd /\ "failed" \in Outcomes
  BY DEF ReportRaises, Net, Agent, Outcomes
<1>2. agent[a].cur \in Cmds /\ agent[a].todo \in SUBSET Cmds
  BY <1>1 DEF Agent
<1>3. /\ Coherent(g) /\ g \in Agent /\ g.pc = "reporting" /\ g.todo = agent[a].todo
      /\ g.cur = agent[a].cur /\ g.outcome = "failed" /\ g.call = k
  BY <1>1, <1>2, ReportingTyped DEF Coherent
<1>4. agent' = [agent EXCEPT ![a] = g]
  BY DEF ReportRaises
<1>5. call[k].pc = "idle" /\ call[old].pc # "idle" /\ k # NoCall
  BY <1>1, ConstantsAssumption DEF ReportRaises, Net
<1>6. /\ q \in Call /\ q.pc = "sent" /\ q.agent = a
  BY <1>1, <1>2, RequestTyped
<1>7. call' = [Released(old) EXCEPT ![k] = q]
  BY DEF ReportRaises
<1>8. /\ Released(old) \in [Calls -> Call]
      /\ \A j \in Calls : Released(old)[j] = IF j = old /\ call[old].pc = "answered"
                                               THEN IdleCall ELSE call[j]
  BY <1>1, ReleasedTyped
<1> HIDE DEF g, q
<1>9. /\ call' \in [Calls -> Call] /\ call'[k] = q
      /\ \A j \in Calls \ {k} : call'[j] = IF j = old /\ call[j].pc = "answered"
                                           THEN IdleCall ELSE call[j]
  BY <1>6, <1>7, <1>8
<1>10. \A j \in Calls : call'[j].pc = "idle" <=> call'[j].agent = NoAgent
  BY <1>6, <1>9, IdleTyped, ConstantsAssumption DEF Net
<1>11. \A b \in Agents \ {a} : agent[b].call # NoCall =>
          agent[b].call \in Calls /\ agent[b].call # k /\ agent[b].call # old
  BY <1>1, <1>5, ConstantsAssumption DEF Net, Agent
<1>12. \A b \in Agents \ {a} : agent[b].call # NoCall => call'[agent[b].call].agent = b
  BY <1>9, <1>11 DEF Net
<1>13. agent' \in [Agents -> Agent] /\ ThreadMoves(a) /\ agent'[a] = g
  BY <1>3, <1>4 DEF Net, ThreadMoves
<1>14. Net'
  BY <1>3, <1>6, <1>9, <1>10, <1>12, <1>13 DEF Net, Coherent, ThreadMoves
<1>15. QED
  BY <1>3, <1>5, <1>9, <1>13, <1>14 DEF q

\* The worker answers an attempt, or notes that its artifact was checked.
LEMMA DenyNet ==
  ASSUME Net, NEW k \in Calls, Deny(k)
  PROVE  /\ Net' /\ agent' = agent /\ CallChanges(k)
         /\ call'[k] = Answered(k, "failed", {})
<1>1. /\ "failed" \in Outcomes /\ agent' = agent /\ call[k].pc # "idle" /\ {} \in SUBSET Cmds
      /\ call' = [call EXCEPT ![k] = Answered(k, "failed", {})]
  BY DEF Deny, Outcomes
<1>2. Net'
  BY <1>1, NetAnswer
<1>3. QED
  BY <1>1, <1>2 DEF Net, CallChanges

\* A claim answers with its batch.
LEMMA ClaimNet ==
  ASSUME Net, NEW k \in Calls, NEW B \in SUBSET Cmds, Claim(k, B)
  PROVE  /\ Net' /\ agent' = agent /\ CallChanges(k)
         /\ call'[k] = Answered(k, "succeeded", B)
<1>1. /\ "succeeded" \in Outcomes /\ agent' = agent /\ call[k].pc # "idle"
      /\ call' = [call EXCEPT ![k] = Answered(k, "succeeded", B)]
  BY DEF Claim, Outcomes
<1>2. Net'
  BY <1>1, NetAnswer
<1>3. QED
  BY <1>1, <1>2 DEF Net, CallChanges

\* The SELECT before an artifact either answers or lets the report go on.
LEMMA CheckNet ==
  ASSUME Net, NEW k \in Calls, CheckArtifact(k)
  PROVE  /\ Net' /\ agent' = agent /\ CallChanges(k)
         /\ \/ call'[k] = Answered(k, "failed", {})
            \/ /\ call'[k].pc = "checked" /\ call'[k].cmd = call[k].cmd
               /\ call'[k].outcome = call[k].outcome /\ call'[k].reply = call[k].reply
               /\ call'[k].agent = call[k].agent
<1>1. /\ "failed" \in Outcomes /\ {} \in SUBSET Cmds
      /\ agent' = agent /\ call[k].pc = "sent" /\ call[k].pc # "idle" /\ call[k] \in Call
  BY DEF CheckArtifact, Outcomes, Net
<1>2. CASE call' = [call EXCEPT ![k] = Answered(k, "failed", {})]
  <2>1. Net'
    BY <1>1, <1>2, NetAnswer
  <2>2. QED
    BY <1>1, <1>2, <2>1 DEF Net, CallChanges
<1>3. CASE call' = [call EXCEPT ![k] = [call[k] EXCEPT !.pc = "checked"]]
  <2> DEFINE q == [call[k] EXCEPT !.pc = "checked"]
  <2>1. /\ q \in Call /\ q.pc = "checked" /\ q.cmd = call[k].cmd
        /\ q.outcome = call[k].outcome /\ q.reply = call[k].reply /\ q.agent = call[k].agent
    BY <1>1 DEF Call
  <2>2. call' \in [Calls -> Call] /\ call'[k] = q /\ CallChanges(k)
    BY <1>3, <2>1 DEF Net, CallChanges
  <2> HIDE DEF q
  <2>3. \A j \in Calls : call'[j].agent = call[j].agent /\ (call'[j].pc = "idle" <=> call[j].pc = "idle")
    BY <1>1, <2>1, <2>2 DEF CallChanges
  <2>4. \A b \in Agents : agent[b].call # NoCall => agent[b].call \in Calls
    BY DEF Net, Agent
  <2>5. Net'
    BY <1>1, <2>2, <2>3, <2>4 DEF Net
  <2>6. QED
    BY <1>1, <2>1, <2>2, <2>5
<1>4. QED
  BY <1>2, <1>3 DEF CheckArtifact, Net

\* A report is always answered.
LEMMA RecordNet ==
  ASSUME Net, NEW k \in Calls, Record(k)
  PROVE  /\ Net' /\ agent' = agent /\ CallChanges(k)
         /\ \/ call'[k] = Answered(k, "failed", {})
            \/ call'[k] = Answered(k, "succeeded", {})
<1>1. /\ {} \in SUBSET Cmds /\ agent' = agent /\ call[k].pc # "idle"
  BY DEF Record, Outcomes
<1>2. PICK o \in Outcomes : call' = [call EXCEPT ![k] = Answered(k, o, {})]
  BY DEF Record, Outcomes
<1>3. Net'
  BY <1>1, <1>2, NetAnswer
<1>4. QED
  BY <1>1, <1>2, <1>3 DEF Net, CallChanges, Outcomes

-----------------------------------------------------------------------------
(* Type correctness                                                        *)

\* The rest of TypeOK: the worker's tables and the histories.
Tables ==
    /\ clock \in Time
    /\ devices \subseteq Devices
    /\ status \in [Cmds -> {"none", "pending", "claimed", "gone"} \cup Outcomes]
    /\ device \in [Cmds -> Devices \cup {NoDevice}]
    /\ kind \in [Cmds -> Kinds]
    /\ due \in [Cmds -> Time]
    /\ created \in [Cmds -> Time]
    /\ artifact \subseteq Cmds
    /\ admitted \subseteq Agents
    /\ ran \in [Cmds -> Nat]
    /\ effect \in [Cmds -> Effects]
    /\ served \in [Cmds -> Nat]
    /\ faults \in 0..MaxFaults

\* A fault stays within the bound.
LEMMA FaultTyped ==
  ASSUME Tables, faults < MaxFaults, faults' = faults + 1
  PROVE  faults' \in 0..MaxFaults
  BY ConstantsAssumption DEF Tables

\* TypeOK is the two halves.
LEMMA TypeParts == TypeOK <=> Net /\ Tables
  BY DEF TypeOK, Net, Tables

\* The first state is well typed.
LEMMA TypeInit == Init => TypeOK
<1> SUFFICES ASSUME Init
             PROVE  TypeOK
  OBVIOUS
<1>1. Tables
  BY ConstantsAssumption DEF Init, Tables, Time, Kinds, Effects
<1>2. Coherent(ReadyAgent({})) /\ ReadyAgent({}).call = NoCall
  BY ReadyTyped
<1>3. agent \in [Agents -> Agent] /\ call \in [Calls -> Call]
  BY <1>2, IdleTyped DEF Init, Coherent
<1>4. \A a \in Agents : agent[a] = ReadyAgent({})
  BY DEF Init
<1>5. \A k \in Calls : call[k] = IdleCall
  BY DEF Init
<1>6. Net
  BY <1>2, <1>3, <1>4, <1>5, IdleTyped DEF Net, Coherent
<1>7. QED
  BY <1>1, <1>6, TypeParts

\* Every step keeps both halves of TypeOK.
LEMMA TypeStep == TypeOK /\ [Next]_vars => TypeOK'
<1> SUFFICES ASSUME Net, Tables, [Next]_vars
             PROVE  Net' /\ Tables'
  BY DEF TypeOK, Net, Tables
<1>1. CASE Tick
  BY <1>1, ConstantsAssumption DEF Tick, Net, Tables, row, history, Time
<1>2. ASSUME NEW a \in Agents, Client(a)
      PROVE  Net' /\ Tables'
  <2>1. ASSUME NEW k \in Calls, Poll(a, k)
        PROVE  Net' /\ Tables'
    BY <2>1, PollNet DEF Poll, Tables, row, history
  <2>2. CASE TakeBatch(a)
    BY <2>2, TakeBatchNet DEF TakeBatch, Tables, row, history
  <2>3. ASSUME NEW c \in Cmds, StartWork(a, c)
        PROVE  Net' /\ Tables'
    <3>1. ran' \in [Cmds -> Nat]
      BY <2>3 DEF StartWork, Tables
    <3>2. QED
      BY <2>3, <3>1, StartWorkNet DEF StartWork, Tables, row
  <2>4. ASSUME NEW c \in Cmds, NEW k \in Calls, RefuseWork(a, c, k)
        PROVE  Net' /\ Tables'
    BY <2>4, RefuseNet DEF RefuseWork, Tables, row, history
  <2>5. CASE Return(a)
    <3>1. PICK e \in Effects, o \in Outcomes : Settle(a, e, o)
      BY <2>5 DEF Return, Effects, Outcomes
    <3>2. effect' \in [Cmds -> Effects]
      BY <3>1 DEF Settle, Tables
    <3>3. Net'
      BY <2>5, <3>1, SettleNet DEF Return
    <3>4. faults' \in 0..MaxFaults
      BY <2>5, FaultTyped DEF Return, Tables
    <3>5. QED
      BY <2>5, <3>2, <3>3, <3>4 DEF Return, Tables, row
  <2>9. ASSUME NEW k \in Calls, Raise(a, k)
        PROVE  Net' /\ Tables'
    <3>1. /\ agent[a] \in Agent /\ agent[a].cur # NoCmd /\ agent[a].call = NoCall
          /\ "failed" \in Outcomes
      BY <2>9 DEF Raise, Net, Outcomes
    <3>2. agent[a].cur \in Cmds /\ agent[a].todo \in SUBSET Cmds
      BY <3>1 DEF Agent
    <3>3. Net'
      BY <2>9, <3>1, <3>2, ReportNet DEF Raise
    <3>4. effect' \in [Cmds -> Effects]
      BY <2>9 DEF Raise, Tables, Effects
    <3>5. QED
      BY <2>9, <3>3, <3>4 DEF Raise, Tables, row
  <2>10. ASSUME NEW k \in Calls, Send(a, k)
         PROVE  Net' /\ Tables'
    <3>1. agent[a] \in Agent /\ agent[a].cur # NoCmd /\ agent[a].call = NoCall
      BY <2>10 DEF Send, Net
    <3>2. agent[a].cur \in Cmds /\ agent[a].todo \in SUBSET Cmds /\ agent[a].outcome \in Outcomes
      BY <3>1 DEF Agent
    <3>3. Net'
      BY <2>10, <3>1, <3>2, ReportNet DEF Send
    <3>4. QED
      BY <2>10, <3>3 DEF Send, Tables, row, history
  <2>6. CASE NextCommand(a)
    BY <2>6, NextCommandNet DEF NextCommand, Tables, row, history
  <2>7. CASE Restart(a)
    BY <2>7, RestartNet DEF Restart, Tables, row, history
  <2>8. QED
    BY <1>2, <2>1, <2>2, <2>3, <2>4, <2>5, <2>6, <2>7, <2>9, <2>10 DEF Client
<1>3. ASSUME NEW a \in Agents, ClientFault(a)
      PROVE  Net' /\ Tables'
  <2>1. ASSUME NEW k \in Calls, Retry(a, k)
        PROVE  Net' /\ Tables'
    BY <2>1, RetryNet, FaultTyped DEF Retry, Tables, row, history
  <2>2. CASE GiveUp(a)
    BY <2>2, GiveUpNet, FaultTyped DEF GiveUp, Tables, row, history
  <2>3. CASE Crash(a)
    BY <2>3, CrashNet, FaultTyped DEF Crash, Tables, row, history
  <2>4. ASSUME NEW k \in Calls, ReportRaises(a, k)
        PROVE  Net' /\ Tables'
    BY <2>4, ReportRaisesNet, FaultTyped DEF ReportRaises, Tables, row, history
  <2>5. CASE GetStuck(a)
    BY <2>5, StuckNet, FaultTyped DEF GetStuck, Tables, row, history
  <2>6. CASE Kill(a)
    BY <2>6, KillNet DEF Kill, Tables, row, history
  <2>7. QED
    BY <1>3, <2>1, <2>2, <2>3, <2>4, <2>5, <2>6 DEF ClientFault
<1>4. ASSUME NEW k \in Calls, Worker(k)
      PROVE  Net' /\ Tables'
  <2>1. CASE Deny(k)
    BY <2>1, DenyNet DEF Deny, Tables, row, history
  <2>2. ASSUME NEW B \in SUBSET Cmds, Claim(k, B)
        PROVE  Net' /\ Tables'
    BY <2>2, ClaimNet DEF Claim, Tables, row, history
  <2>3. CASE CheckArtifact(k)
    BY <2>3, CheckNet DEF CheckArtifact, Tables, row, history
  <2>4. CASE Record(k)
    <3>1. call[k].cmd \in Cmds /\ call[k].outcome \in Outcomes
      BY <2>4 DEF Record, Net, Call
    <3>2. status' \in [Cmds -> {"none", "pending", "claimed", "gone"} \cup Outcomes]
          /\ artifact' \subseteq Cmds
      BY <2>4, <3>1 DEF Record, Tables
    <3>3. QED
      BY <2>4, <3>2, RecordNet DEF Record, Tables, row, history
  <2>5. QED
    BY <1>4, <2>1, <2>2, <2>3, <2>4 DEF Worker
<1>5. ASSUME NEW k \in Calls, Vanish(k)
      PROVE  Net' /\ Tables'
  BY <1>5, VanishNet DEF Vanish, Tables, row, history
<1>6. CASE Operator
  <2>1. ASSUME NEW c \in Cmds, NEW d \in Devices, NEW k \in Kinds, NEW at \in Time,
               Enqueue(c, d, k, at)
        PROVE  Net' /\ Tables'
    BY <2>1 DEF Enqueue, Net, Tables, history
  <2>2. ASSUME NEW c \in Cmds, Download(c)
        PROVE  Net' /\ Tables'
    BY <2>2 DEF Download, Net, Tables, row
  <2>3. ASSUME NEW d \in Devices, DeleteDevice(d)
        PROVE  Net' /\ Tables'
    BY <2>3, ConstantsAssumption DEF DeleteDevice, Net, Tables, row, history
  <2>4. ASSUME NEW a \in Agents, Revoke(a) \/ Admit(a)
        PROVE  Net' /\ Tables'
    BY <2>4, ConstantsAssumption DEF Revoke, Admit, Net, Tables, row, history
  <2>5. QED
    BY <1>6, <2>1, <2>2, <2>3, <2>4 DEF Operator
<1>7. CASE UNCHANGED vars
  BY <1>7 DEF vars, Net, Tables, row, history
<1>8. QED
  BY <1>1, <1>2, <1>3, <1>4, <1>5, <1>6, <1>7 DEF Next

\* Tables, threads and attempts stay well typed, and a thread waits for an
\* answer exactly while an attempt of its own is in flight (minder.py:202-239).
THEOREM TypeCorrect == Spec => []TypeOK
  BY TypeInit, TypeStep, PTL DEF Spec

-----------------------------------------------------------------------------
(* The inductive invariant of dispatch                                     *)

\* The life of a command: it waits in one batch, then it is worked on, then it
\* is spent: only its report is still under way.
Mine(a, c) == Owner[device[c]] = a /\ due[c] <= clock
Unsettled(c) == status[c] \in {"claimed", "gone"}
Waiting(a, c) == Mine(a, c) /\ Unsettled(c) /\ ran[c] = 0
Running(a, c) == Mine(a, c) /\ Unsettled(c) /\ ran[c] = 1
Spent(c) ==
    /\ status[c] \notin {"none", "pending"}
    /\ \A a \in Agents : c \notin agent[a].todo /\ (agent[a].pc \in {"working", "worked"} => agent[a].cur # c)
    /\ \A k \in Calls : c \notin call[k].reply

\* The outcome o claims no more of the work of c than was done, or presumed.
Honest(c, o) ==
    o = "succeeded" =>
        /\ ran[c] = 1
        /\ effect[c] = "done" \/ (kind[c] = "plain" /\ effect[c] = "presumed")

\* Nothing happened yet to a command that was not handed out.
Pristine ==
    \A c \in Cmds :
        /\ status[c] \in {"none", "pending"} => ran[c] = 0
        /\ status[c] = "none" => device[c] = NoDevice
        /\ ran[c] \in {0, 1}

\* A thread's attempt carries its current command; a batch under way has a
\* thread that waits for it with empty hands.
Paired ==
    /\ \A a \in Agents :
         /\ agent[a].call # NoCall => call[agent[a].call].cmd = agent[a].cur
         /\ agent[a].pc = "polling" => agent[a].todo = {}
    /\ \A k \in Calls : call[k].reply # {} =>
         call[k].pc = "answered" /\ \E a \in Agents : agent[a].call = k /\ agent[a].pc = "polling"

Batches ==
    /\ \A a \in Agents : \A c \in agent[a].todo : Waiting(a, c)
    /\ \A k \in Calls : \A c \in call[k].reply : Waiting(call[k].agent, c)

Works ==
    \A a \in Agents :
        /\ agent[a].pc \in {"working", "worked"} => Running(a, agent[a].cur)
        /\ agent[a].pc = "worked" => Honest(agent[a].cur, agent[a].outcome)

Reports ==
    /\ \A a \in Agents : agent[a].pc = "reporting" =>
         Mine(a, agent[a].cur) /\ Spent(agent[a].cur) /\ Honest(agent[a].cur, agent[a].outcome)
    /\ \A k \in Calls : call[k].pc \in {"sent", "checked"} /\ call[k].cmd # NoCmd =>
         Spent(call[k].cmd) /\ Honest(call[k].cmd, call[k].outcome)

Settled ==
    \A c \in Cmds : status[c] \in Outcomes => Spent(c) /\ Honest(c, status[c])

\* An artifact is that of a command that succeeded and was not downloaded.
OneCopy ==
    \A c \in Cmds :
        /\ c \in artifact => status[c] = "succeeded" /\ served[c] = 0
        /\ served[c] # 0 => status[c] \notin {"none", "pending", "claimed"}
        /\ served[c] \in {0, 1}

IInv == Pristine /\ Paired /\ Batches /\ Works /\ Reports /\ Settled /\ OneCopy

\* No command exists in the first state.
LEMMA IInvInit == Init => IInv
<1> SUFFICES ASSUME Init
             PROVE  IInv
  OBVIOUS
<1>1. \A a \in Agents : agent[a] = ReadyAgent({})
  BY DEF Init
<1>2. \A k \in Calls : call[k] = IdleCall
  BY DEF Init
<1>3. \A a \in Agents : agent[a].pc = "ready" /\ agent[a].todo = {} /\ agent[a].call = NoCall
  BY <1>1, ReadyTyped
<1>4. \A k \in Calls : call[k].pc = "idle" /\ call[k].reply = {}
  BY <1>2, IdleTyped
<1>5. \A c \in Cmds : /\ status[c] = "none" /\ device[c] = NoDevice /\ ran[c] = 0
                      /\ served[c] = 0 /\ c \notin artifact
  BY DEF Init
<1>6. Pristine /\ Settled /\ OneCopy
  BY <1>5 DEF Pristine, Settled, OneCopy, Outcomes
<1>7. Paired /\ Batches /\ Works /\ Reports
  BY <1>3, <1>4 DEF Paired, Batches, Works, Reports
<1>8. QED
  BY <1>6, <1>7 DEF IInv

-----------------------------------------------------------------------------
(* Steps that change the rows or the place of some commands                *)

\* What IInv says of one command.
Sound(e) ==
    /\ status[e] \in {"none", "pending"} => ran[e] = 0
    /\ status[e] = "none" => device[e] = NoDevice
    /\ ran[e] \in {0, 1}
    /\ \A b \in Agents : e \in agent[b].todo => Waiting(b, e)
    /\ \A k \in Calls, b \in Agents : e \in call[k].reply /\ call[k].agent = b => Waiting(b, e)
    /\ \A b \in Agents : agent[b].pc \in {"working", "worked"} /\ agent[b].cur = e => Running(b, e)
    /\ \A b \in Agents, o \in Outcomes :
         agent[b].pc = "worked" /\ agent[b].cur = e /\ agent[b].outcome = o => Honest(e, o)
    /\ \A b \in Agents, o \in Outcomes :
         agent[b].pc = "reporting" /\ agent[b].cur = e /\ agent[b].outcome = o =>
            Mine(b, e) /\ Spent(e) /\ Honest(e, o)
    /\ \A k \in Calls, o \in Outcomes :
         call[k].pc \in {"sent", "checked"} /\ call[k].cmd = e /\ call[k].outcome = o =>
            Spent(e) /\ Honest(e, o)
    /\ \A o \in Outcomes : status[e] = o => Spent(e) /\ Honest(e, o)
    /\ e \in artifact => status[e] = "succeeded" /\ served[e] = 0
    /\ served[e] # 0 => status[e] \notin {"none", "pending", "claimed"}
    /\ served[e] \in {0, 1}

\* IInv is Paired, and Sound of every command.
LEMMA SoundParts ==
  ASSUME Net
  PROVE  IInv <=> Paired /\ \A e \in Cmds : Sound(e)
<1>1. ASSUME IInv
      PROVE  Paired /\ \A e \in Cmds : Sound(e)
  <2>1. Pristine /\ Paired /\ Batches /\ Works /\ Reports /\ Settled /\ OneCopy
    BY <1>1 DEF IInv
  <2>2. ASSUME NEW e \in Cmds
        PROVE  Sound(e)
    <3>1. e # NoCmd
      BY ConstantsAssumption
    <3>2. QED
      BY <2>1, <3>1 DEF Sound, Pristine, Batches, Works, Reports, Settled, OneCopy
  <2>3. QED
    BY <2>1, <2>2
<1>2. ASSUME Paired, \A e \in Cmds : Sound(e)
      PROVE  IInv
  <2>1. \A b \in Agents : /\ agent[b].todo \subseteq Cmds /\ agent[b].outcome \in Outcomes
                          /\ agent[b].pc \in {"working", "worked", "reporting"} => agent[b].cur \in Cmds
    BY DEF Net, Agent
  <2>2. \A k \in Calls : /\ call[k].reply \subseteq Cmds /\ call[k].outcome \in Outcomes
                         /\ call[k].cmd # NoCmd => call[k].cmd \in Cmds
                         /\ call[k].agent \in Agents \cup {NoAgent}
    BY DEF Net, Call
  <2>3. \A k \in Calls : call[k].reply # {} => call[k].agent \in Agents
    BY <1>2, <2>2 DEF Paired, Net
  <2>4. Pristine /\ OneCopy /\ Settled
    BY <1>2 DEF Sound, Pristine, OneCopy, Settled
  <2>5. Batches /\ Works
    BY <1>2, <2>1, <2>2, <2>3 DEF Sound, Batches, Works
  <2>6. Reports
    BY <1>2, <2>1, <2>2 DEF Sound, Reports
  <2>7. QED
    BY <1>2, <2>4, <2>5, <2>6 DEF IInv
<1>3. QED
  BY <1>1, <1>2

\* Outside D no command changes its row, is waited for or worked on anew, or
\* gets a new outcome to report.
TouchesOnly(D) ==
    /\ clock <= clock'
    /\ \A e \in Cmds \ D :
         /\ status'[e] = status[e] /\ device'[e] = device[e] /\ due'[e] = due[e]
         /\ ran'[e] = ran[e] /\ effect'[e] = effect[e] /\ kind'[e] = kind[e] /\ served'[e] = served[e]
         /\ e \in artifact' => e \in artifact
    /\ \A b \in Agents, e \in Cmds \ D :
         /\ e \in agent'[b].todo =>
              e \in agent[b].todo \/ \E k \in Calls : e \in call[k].reply /\ call[k].agent = b
         /\ agent'[b].pc \in {"working", "worked"} /\ agent'[b].cur = e =>
              /\ agent[b].pc = agent'[b].pc /\ agent[b].cur = e
              /\ agent'[b].outcome = agent[b].outcome
         /\ agent'[b].pc = "reporting" /\ agent'[b].cur = e =>
              /\ agent[b].pc = "reporting" /\ agent[b].cur = e
              /\ agent'[b].outcome = agent[b].outcome
    /\ \A k \in Calls, e \in Cmds \ D :
         /\ e \in call'[k].reply => e \in call[k].reply /\ call'[k].agent = call[k].agent
         /\ call'[k].pc \in {"sent", "checked"} /\ call'[k].cmd = e =>
              \/ /\ call[k].pc \in {"sent", "checked"} /\ call[k].cmd = e
                 /\ call'[k].outcome = call[k].outcome
              \/ \E b \in Agents : /\ agent[b].pc = "reporting" /\ agent[b].cur = e
                                   /\ call'[k].outcome = agent[b].outcome

\* It is enough to look at the commands a step touches.
LEMMA TouchedStep ==
  ASSUME Net, Tables, IInv, Net', clock' \in Nat, NEW D \in SUBSET Cmds, TouchesOnly(D), Paired',
         \A e \in D : Sound(e)'
  PROVE  IInv'
<1>1. ASSUME NEW e \in Cmds \ D
      PROVE  Sound(e)'
  <2>1. Sound(e)
    BY SoundParts
  <2>2. /\ status'[e] = status[e] /\ device'[e] = device[e] /\ due'[e] = due[e]
        /\ ran'[e] = ran[e] /\ effect'[e] = effect[e] /\ kind'[e] = kind[e] /\ served'[e] = served[e]
        /\ e \in artifact' => e \in artifact
    BY DEF TouchesOnly
  <2>3. \A b \in Agents : Mine(b, e) => Mine(b, e)'
    BY <2>2, ConstantsAssumption DEF Mine, TouchesOnly, Tables, Time
  <2>4. \A b \in Agents : (Waiting(b, e) => Waiting(b, e)') /\ (Running(b, e) => Running(b, e)')
    BY <2>2, <2>3 DEF Waiting, Running, Unsettled
  <2>5. \A o \in Outcomes : Honest(e, o) => Honest(e, o)'
    BY <2>2 DEF Honest
  <2>6. Spent(e) => Spent(e)'
    BY <2>2 DEF Spent, TouchesOnly
  <2>7. \A b \in Agents : e \in agent'[b].todo => Waiting(b, e)'
    BY <2>1, <2>4 DEF Sound, TouchesOnly
  <2>8. \A k \in Calls, b \in Agents :
          e \in call'[k].reply /\ call'[k].agent = b => Waiting(b, e)'
    BY <2>1, <2>4 DEF Sound, TouchesOnly
  <2>9. /\ \A b \in Agents :
             agent'[b].pc \in {"working", "worked"} /\ agent'[b].cur = e => Running(b, e)'
        /\ \A b \in Agents, o \in Outcomes :
             agent'[b].pc = "worked" /\ agent'[b].cur = e /\ agent'[b].outcome = o => Honest(e, o)'
    BY <2>1, <2>4, <2>5 DEF Sound, TouchesOnly
  <2>10. \A b \in Agents, o \in Outcomes :
           agent'[b].pc = "reporting" /\ agent'[b].cur = e /\ agent'[b].outcome = o =>
              Mine(b, e)' /\ Spent(e)' /\ Honest(e, o)'
    BY <2>1, <2>3, <2>5, <2>6 DEF Sound, TouchesOnly
  <2>11. \A k \in Calls, o \in Outcomes :
           call'[k].pc \in {"sent", "checked"} /\ call'[k].cmd = e /\ call'[k].outcome = o =>
              Spent(e)' /\ Honest(e, o)'
    BY <2>1, <2>5, <2>6 DEF Sound, TouchesOnly
  <2>12. \A o \in Outcomes : status'[e] = o => Spent(e)' /\ Honest(e, o)'
    BY <2>1, <2>2, <2>5, <2>6 DEF Sound
  <2>13. QED
    BY <2>1, <2>2, <2>7, <2>8, <2>9, <2>10, <2>11, <2>12 DEF Sound
<1>2. \A e \in Cmds : Sound(e)'
  BY <1>1
<1>3. (Net => (IInv <=> Paired /\ \A e \in Cmds : Sound(e)))'
  BY SoundParts, PTL
<1>4. QED
  BY <1>2, <1>3

-----------------------------------------------------------------------------
(* Steps that only move commands on from where they wait                   *)

\* The tables and histories are left alone, whatever the clock does.
Frame == UNCHANGED <<status, device, kind, due, artifact, ran, effect, served>> /\ clock <= clock'

\* Nothing new is waited for or worked on.
Shrinks ==
    /\ \A b \in Agents : \A c \in agent'[b].todo :
         c \in agent[b].todo \/ \E k \in Calls : c \in call[k].reply /\ call[k].agent = b
    /\ \A b \in Agents : agent'[b].pc \in {"working", "worked"} =>
         /\ agent[b].pc = agent'[b].pc /\ agent'[b].cur = agent[b].cur
         /\ agent'[b].outcome = agent[b].outcome
    /\ \A k \in Calls : \/ call'[k].reply = {}
                        \/ call'[k].reply = call[k].reply /\ call'[k].agent = call[k].agent

\* A report is the one that was under way, or a new one of the same command.
ReportsSame ==
    /\ \A b \in Agents : agent'[b].pc = "reporting" =>
         /\ agent[b].pc = "reporting"
         /\ agent'[b].cur = agent[b].cur /\ agent'[b].outcome = agent[b].outcome
    /\ \A k \in Calls : call'[k].pc \in {"sent", "checked"} /\ call'[k].cmd # NoCmd =>
         \/ /\ call[k].pc \in {"sent", "checked"}
            /\ call'[k].cmd = call[k].cmd /\ call'[k].outcome = call[k].outcome
         \/ \E b \in Agents : /\ agent[b].pc = "reporting"
                              /\ call'[k].cmd = agent[b].cur
                              /\ call'[k].outcome = agent[b].outcome

\* Steps that touch no command.
LEMMA QuietStep ==
  ASSUME Net, Tables, IInv, Net', Frame, Shrinks, clock' \in Nat, ReportsSame, Paired'
  PROVE  IInv'
<1>1. \A b \in Agents, e \in Cmds :
         agent'[b].pc = "reporting" /\ agent'[b].cur = e =>
            /\ agent[b].pc = "reporting" /\ agent[b].cur = e
            /\ agent'[b].outcome = agent[b].outcome
  BY DEF ReportsSame
<1>2. \A k \in Calls, e \in Cmds :
         call'[k].pc \in {"sent", "checked"} /\ call'[k].cmd = e =>
            \/ /\ call[k].pc \in {"sent", "checked"} /\ call[k].cmd = e
               /\ call'[k].outcome = call[k].outcome
            \/ \E b \in Agents : /\ agent[b].pc = "reporting" /\ agent[b].cur = e
                                 /\ call'[k].outcome = agent[b].outcome
  BY ConstantsAssumption DEF ReportsSame
<1>3. TouchesOnly({})
  BY <1>1, <1>2 DEF TouchesOnly, Frame, Shrinks
<1>4. QED
  BY <1>3, TouchedStep

\* A poll carries no command.
LEMMA PollInv ==
  ASSUME Net, Tables, IInv, NEW a \in Agents, NEW k \in Calls, Poll(a, k)
  PROVE  IInv'
<1>1. /\ Net' /\ ThreadMoves(a) /\ CallChanges(k)
      /\ agent'[a] = PollingAgent(k)
      /\ call'[k] = Request(a, NoCmd, "failed")
  BY PollNet
<1>2. /\ agent'[a].pc = "polling" /\ agent'[a].todo = {} /\ agent'[a].call = k
      /\ agent'[a].cur = NoCmd
  BY <1>1, PollingTyped
<1>3. "failed" \in Outcomes
  BY DEF Outcomes
<1>4. call'[k].cmd = NoCmd /\ call'[k].reply = {} /\ call'[k].pc = "sent"
  BY <1>1, <1>3, RequestTyped
<1>5. Frame /\ clock' \in Nat
  BY ConstantsAssumption DEF Poll, Frame, row, history, Tables, Time
<1>6. agent[a].pc = "ready" /\ call[k].pc = "idle"
  BY DEF Poll
<1>7. Shrinks
  BY <1>1, <1>2, <1>4 DEF Shrinks, ThreadMoves, CallChanges
<1>8. ReportsSame
  BY <1>1, <1>2, <1>4 DEF ReportsSame, ThreadMoves, CallChanges
<1>9. Paired'
  <2>1. \A b \in Agents : agent'[b].call # NoCall =>
            agent'[b].call \in Calls /\ (b # a => agent'[b].call # k)
    BY <1>1, <1>6, ConstantsAssumption DEF Net, Agent, ThreadMoves
  <2>2. QED
    BY <1>1, <1>2, <1>4, <1>6, <2>1 DEF IInv, Paired, ThreadMoves, CallChanges
<1>10. QED
  BY <1>1, <1>5, <1>7, <1>8, <1>9, QuietStep

\* The three ways to be rid of an attempt and go on with some batch.
LEMMA LetGoInv ==
  ASSUME Net, Tables, IInv, Net', NEW a \in Agents, Frame, clock' \in Nat,
         ThreadMoves(a), LetGo(agent[a].call),
         agent'[a].pc \in {"ready", "down", "stuck"}, agent'[a].cur = NoCmd, agent'[a].call = NoCall,
         \A c \in agent'[a].todo : \/ c \in agent[a].todo
                                 \/ \E k \in Calls : c \in call[k].reply /\ call[k].agent = a
  PROVE  IInv'
<1>1. Shrinks
  BY IdleTyped DEF Shrinks, ThreadMoves, LetGo
<1>2. ReportsSame
  BY IdleTyped DEF ReportsSame, ThreadMoves, LetGo
<1>3. Paired'
  <2>1. \A b \in Agents : agent'[b].call # NoCall =>
            /\ agent'[b] = agent[b] /\ agent[b].call \in Calls
            /\ call'[agent[b].call] = call[agent[b].call]
    BY DEF Net, Agent, ThreadMoves, LetGo
  <2>2. \A k \in Calls : call'[k].reply # {} =>
            /\ call'[k] = call[k]
            /\ k # agent[a].call
    BY IdleTyped DEF IInv, Paired, LetGo
  <2>3. \A b \in Agents \ {a} : agent'[b] = agent[b]
    BY DEF ThreadMoves
  <2>4. \A k \in Calls : call'[k].reply # {} =>
            call'[k].pc = "answered" /\ \E b \in Agents : agent'[b].call = k /\ agent'[b].pc = "polling"
    BY <2>2, <2>3 DEF IInv, Paired
  <2>5. \A b \in Agents : /\ agent'[b].call # NoCall => call'[agent'[b].call].cmd = agent'[b].cur
                          /\ agent'[b].pc = "polling" => agent'[b].todo = {}
    BY <2>1, <2>3 DEF IInv, Paired
  <2>6. QED
    BY <2>4, <2>5 DEF Paired
<1>4. QED
  BY <1>1, <1>2, <1>3, QuietStep

\* Giving up, taking a batch, going on and dying are such steps.
LEMMA ReadyInv ==
  ASSUME Net, Tables, IInv, NEW a \in Agents,
         GiveUp(a) \/ TakeBatch(a) \/ NextCommand(a) \/ Crash(a) \/ GetStuck(a)
  PROVE  IInv'
<1>1. Frame /\ clock' \in Nat
  BY ConstantsAssumption DEF GiveUp, TakeBatch, NextCommand, Crash, GetStuck, Frame, row, history,
     Tables, Time
<1>2. agent[a].todo \in SUBSET Cmds
  BY DEF Net, Agent
<1>3. CASE GiveUp(a)
  BY <1>1, <1>2, <1>3, GiveUpNet, ReadyTyped, LetGoInv
<1>4. CASE TakeBatch(a)
  <2>1. /\ Net' /\ ThreadMoves(a) /\ LetGo(agent[a].call) /\ agent[a].call \in Calls
        /\ agent'[a] = ReadyAgent(call[agent[a].call].reply)
    BY <1>4, TakeBatchNet
  <2>2. call[agent[a].call].reply \in SUBSET Cmds /\ call[agent[a].call].agent = a
    BY <1>4, <2>1 DEF TakeBatch, Net, Call
  <2>3. QED
    BY <1>1, <2>1, <2>2, ReadyTyped, LetGoInv
<1>5. CASE NextCommand(a)
  BY <1>1, <1>2, <1>5, NextCommandNet, ReadyTyped, LetGoInv
<1>6. CASE Crash(a)
  BY <1>1, <1>6, CrashNet, DownTyped, LetGoInv
<1>7. CASE GetStuck(a)
  BY <1>1, <1>7, StuckNet, StuckTyped, LetGoInv
<1>8. QED
  BY <1>3, <1>4, <1>5, <1>6, <1>7

\* So is the end of a stuck process,
LEMMA KillInv ==
  ASSUME Net, Tables, IInv, NEW a \in Agents, Kill(a)
  PROVE  IInv'
<1>1. Frame /\ clock' \in Nat /\ call' = call /\ agent[a].call = NoCall
  BY ConstantsAssumption DEF Kill, Frame, row, history, Tables, Time, Net
<1>2. LetGo(agent[a].call)
  BY <1>1, ConstantsAssumption DEF LetGo
<1>3. /\ Net' /\ ThreadMoves(a) /\ agent'[a].pc = "down" /\ agent'[a].todo = {}
      /\ agent'[a].cur = NoCmd /\ agent'[a].call = NoCall
  BY KillNet, DownTyped
<1>4. QED
  BY <1>1, <1>2, <1>3, LetGoInv

\* and a restart.
LEMMA RestartInv ==
  ASSUME Net, Tables, IInv, NEW a \in Agents, Restart(a)
  PROVE  IInv'
<1>1. Frame /\ clock' \in Nat /\ call' = call /\ agent[a].call = NoCall
  BY ConstantsAssumption DEF Restart, Frame, row, history, Tables, Time, Net
<1>2. LetGo(agent[a].call)
  BY <1>1, ConstantsAssumption DEF LetGo
<1>3. /\ Net' /\ ThreadMoves(a) /\ agent'[a].pc = "ready" /\ agent'[a].todo = {}
      /\ agent'[a].cur = NoCmd /\ agent'[a].call = NoCall
  BY RestartNet, ReadyTyped
<1>4. QED
  BY <1>1, <1>2, <1>3, LetGoInv

\* A repeated attempt carries the same command and outcome.
LEMMA RetryInv ==
  ASSUME Net, Tables, IInv, NEW a \in Agents, NEW k \in Calls, Retry(a, k)
  PROVE  IInv'
<1>1. Frame /\ clock' \in Nat
  BY ConstantsAssumption DEF Retry, Frame, row, history, Tables, Time
<1>2. agent[a].cur \in Cmds \cup {NoCmd} /\ agent[a].outcome \in Outcomes
  BY DEF Net, Agent
<1>3. /\ call'[k].pc = "sent" /\ call'[k].cmd = agent[a].cur
      /\ call'[k].outcome = agent[a].outcome /\ call'[k].reply = {}
  BY <1>2, RetryNet, RequestTyped
<1>4. \A j \in Calls \ {k} : call'[j] = IF j = agent[a].call /\ call[j].pc = "answered"
                                        THEN IdleCall ELSE call[j]
  BY RetryNet
<1>5. /\ Net' /\ ThreadMoves(a)
      /\ agent'[a].pc = agent[a].pc /\ agent'[a].todo = agent[a].todo
      /\ agent'[a].cur = agent[a].cur /\ agent'[a].outcome = agent[a].outcome
      /\ agent'[a].call = k /\ k # agent[a].call
  BY RetryNet
<1>6. Shrinks
  BY <1>3, <1>4, <1>5, IdleTyped DEF Shrinks, ThreadMoves
<1>7. agent[a].cur # NoCmd => agent[a].pc = "reporting"
  BY DEF Retry, Net
<1>8. ReportsSame
  BY <1>3, <1>4, <1>5, <1>7, IdleTyped DEF ReportsSame, ThreadMoves
<1>9. \A b \in Agents \ {a} : agent[b].call # NoCall =>
         agent[b].call \in Calls /\ agent[b].call # k /\ agent[b].call # agent[a].call
  BY ConstantsAssumption DEF Net, Agent, Retry
<1>10. \A b \in Agents : /\ agent'[b].call # NoCall => call'[agent'[b].call].cmd = agent'[b].cur
                         /\ agent'[b].pc = "polling" => agent'[b].todo = {}
  <2>1. \A b \in Agents \ {a} : agent[b].call # NoCall => call'[agent[b].call] = call[agent[b].call]
    BY <1>4, <1>9
  <2>2. QED
    BY <1>3, <1>5, <2>1 DEF IInv, Paired, ThreadMoves
<1>11. ASSUME NEW j \in Calls, call'[j].reply # {}
       PROVE  call'[j].pc = "answered" /\ \E b \in Agents : agent'[b].call = j /\ agent'[b].pc = "polling"
  <2>1. j # k /\ call'[j] = call[j]
    BY <1>3, <1>4, <1>11, IdleTyped
  <2>2. PICK b \in Agents : agent[b].call = j /\ agent[b].pc = "polling" /\ call[j].pc = "answered"
    BY <1>11, <2>1 DEF IInv, Paired
  <2>3. b # a
    BY <1>4, <1>11, <2>1, <2>2, IdleTyped
  <2>4. QED
    BY <1>5, <2>1, <2>2, <2>3 DEF ThreadMoves
<1>12. Paired'
  BY <1>10, <1>11 DEF Paired
<1>13. QED
  BY <1>1, <1>5, <1>6, <1>8, <1>12, QuietStep

\* The worker, or the network, disposes of an attempt that carries no batch.
LEMMA CallInv ==
  ASSUME Net, Tables, IInv, Net', NEW k \in Calls, Frame, clock' \in Nat,
         agent' = agent, CallChanges(k), call'[k].reply = {},
         \/ call'[k].pc = "checked" /\ call[k].pc = "sent" /\ call'[k].cmd = call[k].cmd
              /\ call'[k].outcome = call[k].outcome
         \/ call'[k].pc = "answered" /\ call'[k].cmd = call[k].cmd /\ call[k].pc # "answered"
         \/ call'[k].pc = "idle" /\ ~Heard(k)
  PROVE  IInv'
<1>1. Shrinks
  BY DEF Shrinks, CallChanges
<1>2. ReportsSame
  BY DEF ReportsSame, CallChanges
<1>3. \A b \in Agents : agent[b].call # NoCall => agent[b].call \in Calls
  BY DEF Net, Agent
<1>4. \A b \in Agents : agent[b].call # NoCall => call'[agent[b].call].cmd = call[agent[b].call].cmd
  BY <1>3 DEF CallChanges, Heard
<1>5. Paired'
  BY <1>4 DEF IInv, Paired, CallChanges
<1>6. QED
  BY <1>1, <1>2, <1>5, QuietStep

\* A lost attempt reports nothing.
LEMMA VanishInv ==
  ASSUME Net, Tables, IInv, NEW k \in Calls, Vanish(k)
  PROVE  IInv'
<1>1. Frame /\ clock' \in Nat /\ ~Heard(k)
  BY ConstantsAssumption DEF Vanish, Frame, row, history, Tables, Time
<1>2. QED
  BY <1>1, VanishNet, IdleTyped, CallInv

\* An empty answer, or none when nobody waits.
LEMMA EmptyAnswer ==
  ASSUME Net, NEW k \in Calls, NEW o \in Outcomes
  PROVE  /\ Answered(k, o, {}).reply = {}
         /\ \/ Answered(k, o, {}).pc = "answered" /\ Answered(k, o, {}).cmd = call[k].cmd
            \/ Answered(k, o, {}).pc = "idle" /\ ~Heard(k)
<1>1. {} \in SUBSET Cmds
  OBVIOUS
<1>2. QED
  BY <1>1, AnsweredTyped, IdleTyped

\* Nor does a refused one.
LEMMA DenyInv ==
  ASSUME Net, Tables, IInv, NEW k \in Calls, Deny(k)
  PROVE  IInv'
<1>1. Frame /\ clock' \in Nat /\ call[k].pc # "answered" /\ "failed" \in Outcomes
  BY ConstantsAssumption DEF Deny, Frame, row, history, Tables, Time, Outcomes
<1>2. QED
  BY <1>1, DenyNet, EmptyAnswer, CallInv

\* The SELECT before an artifact changes no row.
LEMMA CheckInv ==
  ASSUME Net, Tables, IInv, NEW k \in Calls, CheckArtifact(k)
  PROVE  IInv'
<1>1. /\ Frame /\ clock' \in Nat /\ call[k].pc = "sent" /\ call[k].pc # "answered"
      /\ "failed" \in Outcomes
  BY ConstantsAssumption DEF CheckArtifact, Frame, row, history, Tables, Time, Outcomes
<1>2. call[k].reply = {}
  BY <1>1 DEF IInv, Paired
<1>3. QED
  BY <1>1, <1>2, CheckNet, EmptyAnswer, CallInv

\* Steps that touch neither threads nor attempts nor the rows of commands.
LEMMA StillInv ==
  ASSUME Net, Tables, IInv, Frame, clock' \in Nat, agent' = agent, call' = call
  PROVE  IInv'
<1>1. Shrinks /\ ReportsSame
  BY DEF Shrinks, ReportsSame
<1>2. Net' /\ Paired'
  BY DEF Net, IInv, Paired
<1>3. QED
  BY <1>1, <1>2, QuietStep

-----------------------------------------------------------------------------
(* Steps that move one command, or many, to another stage                  *)

\* A command that waits in a batch a thread has taken is nowhere else.
LEMMA OnlyThere ==
  ASSUME Net, Tables, IInv, NEW a \in Agents, NEW c \in agent[a].todo, agent[a].pc = "ready"
  PROVE  /\ c \in Cmds /\ Sound(c) /\ Waiting(a, c)
         /\ \A b \in Agents \ {a} : c \notin agent[b].todo
         /\ \A b \in Agents : agent[b].pc \in {"working", "worked", "reporting"} => agent[b].cur # c
         /\ \A k \in Calls : c \notin call[k].reply
         /\ \A k \in Calls : call[k].pc \in {"sent", "checked"} => call[k].cmd # c
<1>1. c \in Cmds
  BY DEF Net, Agent
<1>2. Sound(c) /\ Paired
  BY <1>1, SoundParts
<1>3. Waiting(a, c) /\ ~Spent(c)
  BY <1>1, <1>2 DEF Sound, Spent
<1>4. \A b \in Agents \ {a} : c \notin agent[b].todo
  BY <1>2, <1>3 DEF Sound, Waiting, Mine
<1>5. \A b \in Agents : agent[b].pc \in {"working", "worked", "reporting"} => agent[b].cur # c
  <2>1. \A b \in Agents : agent[b].outcome \in Outcomes
    BY DEF Net, Agent
  <2>2. QED
    BY <1>2, <1>3, <2>1 DEF Sound, Waiting, Running
<1>6. \A k \in Calls : c \notin call[k].reply
  <2>1. ASSUME NEW k \in Calls, c \in call[k].reply
        PROVE  FALSE
    <3>1. PICK b \in Agents : agent[b].call = k /\ agent[b].pc = "polling"
      BY <1>2, <2>1 DEF Paired
    <3>2. call[k].agent = b
      BY <3>1, ConstantsAssumption DEF Net, Agent
    <3>3. Waiting(b, c)
      BY <1>2, <2>1, <3>2 DEF Sound
    <3>4. QED
      BY <1>3, <3>1, <3>3 DEF Waiting, Mine
  <2>2. QED
    BY <2>1
<1>7. \A k \in Calls : call[k].pc \in {"sent", "checked"} => call[k].cmd # c
  <2>1. \A k \in Calls : call[k].outcome \in Outcomes
    BY DEF Net, Call
  <2>2. QED
    BY <1>2, <1>3, <2>1 DEF Sound
<1>8. QED
  BY <1>1, <1>2, <1>3, <1>4, <1>5, <1>6, <1>7

\* Work is started on a command that waited in one batch only.
LEMMA StartWorkInv ==
  ASSUME Net, Tables, IInv, NEW a \in Agents, NEW c \in Cmds, StartWork(a, c)
  PROVE  IInv'
<1>1. agent[a].pc = "ready" /\ c \in agent[a].todo /\ agent[a].todo \ {c} \in SUBSET Cmds
  BY DEF StartWork, Net, Agent
<1>2. /\ Net' /\ ThreadMoves(a)
      /\ agent'[a].pc = "working" /\ agent'[a].todo = agent[a].todo \ {c}
      /\ agent'[a].call = NoCall /\ agent'[a].cur = c
  <2> DEFINE g == WorkingAgent(agent[a].todo \ {c}, c)
  <2>1. g.pc = "working" /\ g.todo = agent[a].todo \ {c} /\ g.call = NoCall /\ g.cur = c
    BY <1>1, WorkingTyped
  <2>2. Net' /\ ThreadMoves(a) /\ agent'[a] = g
    BY StartWorkNet
  <2> HIDE DEF g
  <2>3. QED
    BY <2>1, <2>2
<1>3. /\ Sound(c) /\ Waiting(a, c)
      /\ \A b \in Agents \ {a} : c \notin agent[b].todo
      /\ \A b \in Agents : agent[b].pc \in {"working", "worked", "reporting"} => agent[b].cur # c
      /\ \A k \in Calls : c \notin call[k].reply
      /\ \A k \in Calls : call[k].pc \in {"sent", "checked"} => call[k].cmd # c
  BY <1>1, OnlyThere
<1>4. /\ UNCHANGED <<clock, status, device, kind, due, artifact, call, effect, served>>
      /\ ran'[c] = ran[c] + 1 /\ \A e \in Cmds \ {c} : ran'[e] = ran[e]
      /\ clock \in Nat
  BY ConstantsAssumption DEF StartWork, row, Tables, Time
<1>5. TouchesOnly({c})
  BY <1>2, <1>4 DEF TouchesOnly, ThreadMoves
<1>6. Paired'
  BY <1>1, <1>2, <1>4 DEF IInv, Paired, ThreadMoves
<1>7. Running(a, c)'
  BY <1>3, <1>4 DEF Waiting, Running, Mine, Unsettled
<1>8. Sound(c)'
  <2>1. status[c] \in {"claimed", "gone"}
    BY <1>3 DEF Waiting, Unsettled
  <2>2. /\ \A b \in Agents : c \notin agent'[b].todo
        /\ \A b \in Agents : agent'[b].pc \in {"working", "worked"} /\ agent'[b].cur = c =>
              b = a /\ agent'[b].pc = "working"
        /\ \A b \in Agents : agent'[b].pc = "reporting" => agent'[b].cur # c
    BY <1>2, <1>3 DEF ThreadMoves
  <2>3. ran'[c] = 1
    BY <1>3, <1>4 DEF Waiting
  <2>4. QED
    BY <1>3, <1>4, <1>7, <2>1, <2>2, <2>3 DEF Sound, Outcomes
<1>9. QED
  BY <1>2, <1>4, <1>5, <1>6, <1>8, TouchedStep

\* A refused command is spent without any work.
LEMMA RefuseInv ==
  ASSUME Net, Tables, IInv, NEW a \in Agents, NEW c \in Cmds, NEW k \in Calls,
         RefuseWork(a, c, k)
  PROVE  IInv'
<1>1. /\ agent[a].pc = "ready" /\ c \in agent[a].todo /\ agent[a].todo \ {c} \in SUBSET Cmds
      /\ call[k].pc = "idle" /\ "failed" \in Outcomes
  BY DEF RefuseWork, Net, Agent, Outcomes
<1>2. /\ Net' /\ ThreadMoves(a) /\ CallChanges(k)
      /\ agent'[a].pc = "reporting" /\ agent'[a].todo = agent[a].todo \ {c}
      /\ agent'[a].call = k /\ agent'[a].cur = c /\ agent'[a].outcome = "failed"
  <2> DEFINE g == ReportingAgent(agent[a].todo \ {c}, c, "failed", k)
  <2>1. /\ g.pc = "reporting" /\ g.todo = agent[a].todo \ {c} /\ g.call = k /\ g.cur = c
        /\ g.outcome = "failed"
    BY <1>1, ReportingTyped
  <2>2. Net' /\ ThreadMoves(a) /\ CallChanges(k) /\ agent'[a] = g
    BY RefuseNet
  <2> HIDE DEF g
  <2>3. QED
    BY <2>1, <2>2
<1>3. /\ call'[k].pc = "sent" /\ call'[k].cmd = c /\ call'[k].outcome = "failed"
      /\ call'[k].reply = {}
  <2>1. call'[k] = Request(a, c, "failed")
    BY RefuseNet
  <2>2. QED
    BY <1>1, <2>1, RequestTyped
<1>4. /\ Sound(c) /\ Waiting(a, c)
      /\ \A b \in Agents \ {a} : c \notin agent[b].todo
      /\ \A b \in Agents : agent[b].pc \in {"working", "worked", "reporting"} => agent[b].cur # c
      /\ \A j \in Calls : c \notin call[j].reply
      /\ \A j \in Calls : call[j].pc \in {"sent", "checked"} => call[j].cmd # c
  BY <1>1, OnlyThere
<1>5. /\ UNCHANGED <<clock, status, device, kind, due, artifact, ran, effect, served>>
      /\ clock \in Nat
  BY ConstantsAssumption DEF RefuseWork, row, history, Tables, Time
<1>6. TouchesOnly({c})
  BY <1>2, <1>3, <1>5 DEF TouchesOnly, ThreadMoves, CallChanges
<1>7. Paired'
  <2>1. \A b \in Agents : agent'[b].call # NoCall =>
            agent'[b].call \in Calls /\ (b # a => agent'[b].call # k)
    BY <1>1, <1>2, ConstantsAssumption DEF Net, Agent, ThreadMoves
  <2>2. QED
    BY <1>1, <1>2, <1>3, <2>1 DEF IInv, Paired, ThreadMoves, CallChanges
<1>8. Mine(a, c)' /\ Honest(c, "failed")' /\ status'[c] \in {"claimed", "gone"}
  BY <1>4, <1>5 DEF Waiting, Mine, Unsettled, Honest
<1>9. /\ \A b \in Agents : c \notin agent'[b].todo
      /\ \A b \in Agents : agent'[b].pc \in {"working", "worked"} => agent'[b].cur # c
      /\ \A b \in Agents : agent'[b].pc = "reporting" /\ agent'[b].cur = c => b = a
      /\ \A j \in Calls : c \notin call'[j].reply
      /\ \A j \in Calls : call'[j].pc \in {"sent", "checked"} /\ call'[j].cmd = c => j = k
  BY <1>2, <1>3, <1>4 DEF ThreadMoves, CallChanges
<1>10. Spent(c)'
  BY <1>8, <1>9 DEF Spent
<1>11. Sound(c)'
  BY <1>2, <1>3, <1>4, <1>5, <1>8, <1>9, <1>10 DEF Sound, Outcomes
<1>12. QED
  BY <1>2, <1>5, <1>6, <1>7, <1>11, TouchedStep

\* The command a thread works on is nowhere else.
LEMMA OnlyWorked ==
  ASSUME Net, Tables, IInv, NEW a \in Agents, NEW c \in Cmds,
         agent[a].pc \in {"working", "worked"}, agent[a].cur = c
  PROVE  /\ Sound(c) /\ Running(a, c)
         /\ \A b \in Agents : c \notin agent[b].todo
         /\ \A b \in Agents \ {a} : agent[b].pc \in {"working", "worked", "reporting"} => agent[b].cur # c
         /\ \A k \in Calls : c \notin call[k].reply
         /\ \A k \in Calls : call[k].pc \in {"sent", "checked"} => call[k].cmd # c
<1>1. Sound(c) /\ Paired
  BY SoundParts
<1>2. Running(a, c) /\ ~Spent(c)
  BY <1>1 DEF Sound, Spent
<1>3. \A b \in Agents : c \notin agent[b].todo
  BY <1>1, <1>2 DEF Sound, Waiting, Running
<1>4. \A b \in Agents \ {a} : agent[b].pc \in {"working", "worked", "reporting"} => agent[b].cur # c
  <2>1. \A b \in Agents : agent[b].outcome \in Outcomes
    BY DEF Net, Agent
  <2>2. QED
    BY <1>1, <1>2, <2>1 DEF Sound, Running, Mine
<1>5. \A k \in Calls : c \notin call[k].reply
  <2>1. \A k \in Calls, b \in Agents : agent[b].call = k => call[k].agent = b
    BY ConstantsAssumption DEF Net, Agent
  <2>2. QED
    BY <1>1, <1>2, <2>1 DEF Sound, Paired, Waiting, Running
<1>6. \A k \in Calls : call[k].pc \in {"sent", "checked"} => call[k].cmd # c
  <2>1. \A k \in Calls : call[k].outcome \in Outcomes
    BY DEF Net, Call
  <2>2. QED
    BY <1>1, <1>2, <2>1 DEF Sound
<1>7. QED
  BY <1>1, <1>2, <1>3, <1>4, <1>5, <1>6

\* A result changes nothing but what is known of its own command.
LEMMA ReturnInv ==
  ASSUME Net, Tables, IInv, NEW a \in Agents, Return(a)
  PROVE  IInv'
<1>. PICK c \in Cmds : c = agent[a].cur
  BY DEF Return, Net, Agent
<1>1. PICK e \in Effects, o \in Outcomes :
         /\ Settle(a, e, o)
         /\ o = "succeeded" => e = "done" \/ (kind[c] = "plain" /\ e = "presumed")
  BY DEF Return, Effects, Outcomes
<1>2. /\ agent[a].pc = "working" /\ clock \in Nat
      /\ UNCHANGED <<clock, status, device, kind, due, artifact, call, ran, served>>
      /\ effect'[c] = e /\ \A d \in Cmds \ {c} : effect'[d] = effect[d]
  BY <1>1, ConstantsAssumption DEF Return, Settle, row, Tables, Time
<1>3. /\ Net' /\ ThreadMoves(a)
      /\ agent'[a].pc = "worked" /\ agent'[a].todo = agent[a].todo
      /\ agent'[a].call = NoCall /\ agent'[a].cur = c /\ agent'[a].outcome = o
  BY <1>1, <1>2, SettleNet
<1>4. /\ Sound(c) /\ Running(a, c)
      /\ \A b \in Agents : c \notin agent[b].todo
      /\ \A b \in Agents \ {a} : agent[b].pc \in {"working", "worked", "reporting"} => agent[b].cur # c
      /\ \A j \in Calls : c \notin call[j].reply
      /\ \A j \in Calls : call[j].pc \in {"sent", "checked"} => call[j].cmd # c
  BY <1>2, OnlyWorked
<1>5. TouchesOnly({c})
  BY <1>2, <1>3 DEF TouchesOnly, ThreadMoves
<1>6. Paired'
  <2>1. agent[a].call = NoCall
    BY <1>2 DEF Net
  <2>2. QED
    BY <1>2, <1>3, <2>1 DEF IInv, Paired, ThreadMoves
<1>7. Running(a, c)' /\ Honest(c, o)'
  BY <1>1, <1>2, <1>4 DEF Running, Mine, Unsettled, Honest
<1>8. Sound(c)'
  <2>1. status'[c] \in {"claimed", "gone"} /\ ran'[c] = 1
    BY <1>7 DEF Running, Unsettled
  <2>2. /\ \A b \in Agents : c \notin agent'[b].todo
        /\ \A b \in Agents : agent'[b].pc \in {"working", "worked"} /\ agent'[b].cur = c =>
              b = a /\ agent'[b].outcome = o
        /\ \A b \in Agents : agent'[b].pc = "reporting" => agent'[b].cur # c
    BY <1>3, <1>4 DEF ThreadMoves
  <2>3. QED
    BY <1>2, <1>4, <1>7, <2>1, <2>2 DEF Sound, Outcomes
<1>9. QED
  BY <1>2, <1>3, <1>5, <1>6, <1>8, TouchedStep

\* A command whose work is over is spent when its report starts.
LEMMA ReportInv ==
  ASSUME Net, Tables, IInv, NEW a \in Agents, NEW c \in Cmds, NEW o \in Outcomes, NEW k \in Calls,
         agent[a].pc \in {"working", "worked"}, agent[a].cur = c, call[k].pc = "idle",
         agent' = [agent EXCEPT ![a] = ReportingAgent(agent[a].todo, c, o, k)],
         call' = [call EXCEPT ![k] = Request(a, c, o)],
         UNCHANGED <<clock, status, device, kind, due, artifact, ran, served>>,
         \A d \in Cmds \ {c} : effect'[d] = effect[d],
         Honest(c, o)'
  PROVE  IInv'
<1>1. agent[a].todo \in SUBSET Cmds /\ agent[a].call = NoCall /\ clock \in Nat
  BY ConstantsAssumption DEF Net, Agent, Tables, Time
<1>2. /\ Net' /\ ThreadMoves(a) /\ CallChanges(k)
      /\ agent'[a].pc = "reporting" /\ agent'[a].todo = agent[a].todo
      /\ agent'[a].call = k /\ agent'[a].cur = c /\ agent'[a].outcome = o
      /\ call'[k].pc = "sent" /\ call'[k].agent = a /\ call'[k].cmd = c
      /\ call'[k].outcome = o /\ call'[k].reply = {}
  <2>1. /\ agent' = [agent EXCEPT ![a] = ReportingAgent(agent[a].todo, c, o, k)]
        /\ call' = [call EXCEPT ![k] = Request(a, c, o)]
        /\ call[k].pc = "idle"
    OBVIOUS
  <2>2. QED
    BY ONLY Net, <1>1, <2>1, ReportNet
<1>3. /\ Sound(c) /\ Running(a, c)
      /\ \A b \in Agents : c \notin agent[b].todo
      /\ \A b \in Agents \ {a} : agent[b].pc \in {"working", "worked", "reporting"} => agent[b].cur # c
      /\ \A j \in Calls : c \notin call[j].reply
      /\ \A j \in Calls : call[j].pc \in {"sent", "checked"} => call[j].cmd # c
  BY OnlyWorked
<1>4. TouchesOnly({c})
  BY <1>1, <1>2 DEF TouchesOnly, ThreadMoves, CallChanges
<1>5. Paired'
  <2>1. \A b \in Agents : agent'[b].call # NoCall =>
            agent'[b].call \in Calls /\ (b # a => agent'[b].call # k)
    BY <1>2, ConstantsAssumption DEF Net, Agent, ThreadMoves
  <2>2. QED
    BY <1>1, <1>2, <2>1 DEF IInv, Paired, ThreadMoves, CallChanges
<1>6. Mine(a, c)' /\ status'[c] \in {"claimed", "gone"}
  BY <1>3 DEF Running, Mine, Unsettled
<1>7. /\ \A b \in Agents : c \notin agent'[b].todo
      /\ \A b \in Agents : agent'[b].pc \in {"working", "worked"} => agent'[b].cur # c
      /\ \A b \in Agents : agent'[b].pc = "reporting" /\ agent'[b].cur = c => b = a
      /\ \A j \in Calls : c \notin call'[j].reply
      /\ \A j \in Calls : call'[j].pc \in {"sent", "checked"} /\ call'[j].cmd = c => j = k
  BY <1>2, <1>3 DEF ThreadMoves, CallChanges
<1>8. Spent(c)'
  BY <1>6, <1>7 DEF Spent
<1>9. Sound(c)'
  BY <1>2, <1>3, <1>6, <1>7, <1>8 DEF Sound, Outcomes
<1>10. QED
  BY <1>1, <1>2, <1>4, <1>5, <1>9, TouchedStep

\* Both ways to start the report of a result are such steps.
LEMMA ResultInv ==
  ASSUME Net, Tables, IInv, NEW a \in Agents, NEW k \in Calls, Raise(a, k) \/ Send(a, k)
  PROVE  IInv'
<1>1. agent[a].pc \in {"working", "worked"} /\ call[k].pc = "idle" /\ "failed" \in Outcomes
  BY DEF Raise, Send, Outcomes
<1>. PICK c \in Cmds : c = agent[a].cur
  BY <1>1 DEF Net, Agent
<1>2. agent[a].outcome \in Outcomes
  BY DEF Net, Agent
<1>3. CASE Raise(a, k)
  <2>1. Honest(c, "failed")'
    BY DEF Honest
  <2>2. \A d \in Cmds \ {c} : effect'[d] = effect[d]
    BY <1>3 DEF Raise, Tables
  <2>3. UNCHANGED <<clock, status, device, kind, due, artifact, ran, served>>
    BY <1>3 DEF Raise, row
  <2>4. /\ agent' = [agent EXCEPT ![a] = ReportingAgent(agent[a].todo, c, "failed", k)]
        /\ call' = [call EXCEPT ![k] = Request(a, c, "failed")]
    BY <1>3 DEF Raise
  <2>5. QED
    BY <1>1, <2>1, <2>2, <2>3, <2>4, ReportInv
<1>4. CASE Send(a, k)
  <2>1. PICK o \in Outcomes : o = agent[a].outcome
    BY <1>2
  <2>2. /\ UNCHANGED <<clock, status, device, kind, due, artifact, ran, served>>
        /\ effect' = effect
    BY <1>4 DEF Send, row, history
  <2>3. Honest(c, o)'
    <3>1. Honest(c, o)
      BY <1>4, <2>1 DEF Send, IInv, Works
    <3>2. QED
      BY <2>2, <3>1 DEF Honest
  <2>4. /\ agent' = [agent EXCEPT ![a] = ReportingAgent(agent[a].todo, c, o, k)]
        /\ call' = [call EXCEPT ![k] = Request(a, c, o)]
    BY <1>4, <2>1 DEF Send
  <2>5. \A d \in Cmds \ {c} : effect'[d] = effect[d]
    BY <2>2
  <2>6. QED
    BY <1>1, <2>2, <2>3, <2>4, <2>5, ReportInv
<1>5. QED
  BY <1>3, <1>4

\* A second report of a command that is already spent claims nothing.
LEMMA ReportRaisesInv ==
  ASSUME Net, Tables, IInv, NEW a \in Agents, NEW k \in Calls, ReportRaises(a, k)
  PROVE  IInv'
<1>1. agent[a].pc = "reporting" /\ "failed" \in Outcomes /\ call[k].pc = "idle"
  BY DEF ReportRaises, Outcomes
<1>. PICK c \in Cmds : c = agent[a].cur
  BY <1>1 DEF Net, Agent
<1>2. /\ UNCHANGED <<clock, status, device, kind, due, artifact, ran, effect, served>>
      /\ clock \in Nat
  BY ConstantsAssumption DEF ReportRaises, row, history, Tables, Time
<1>3. /\ call'[k].pc = "sent" /\ call'[k].cmd = c
      /\ call'[k].outcome = "failed" /\ call'[k].reply = {}
  BY <1>1, ReportRaisesNet, RequestTyped
<1>4. \A j \in Calls \ {k} : call'[j] = IF j = agent[a].call /\ call[j].pc = "answered"
                                        THEN IdleCall ELSE call[j]
  BY ReportRaisesNet
<1>5. /\ Net' /\ ThreadMoves(a)
      /\ agent'[a].pc = "reporting" /\ agent'[a].todo = agent[a].todo
      /\ agent'[a].cur = c /\ agent'[a].outcome = "failed"
      /\ agent'[a].call = k /\ k # agent[a].call
  BY ReportRaisesNet
<1>6. Sound(c) /\ Paired
  BY SoundParts
<1>7. TouchesOnly({c})
  BY <1>2, <1>3, <1>4, <1>5, IdleTyped DEF TouchesOnly, ThreadMoves
<1>8. Paired'
  <2>1. \A b \in Agents \ {a} : agent[b].call # NoCall =>
           agent[b].call \in Calls /\ agent[b].call # k /\ agent[b].call # agent[a].call
    BY <1>1, ConstantsAssumption DEF Net, Agent
  <2>2. \A b \in Agents \ {a} : agent[b].call # NoCall => call'[agent[b].call] = call[agent[b].call]
    BY <1>4, <2>1
  <2>3. \A b \in Agents : /\ agent'[b].call # NoCall => call'[agent'[b].call].cmd = agent'[b].cur
                          /\ agent'[b].pc = "polling" => agent'[b].todo = {}
    BY <1>3, <1>5, <1>6, <2>2 DEF Paired, ThreadMoves
  <2>4. ASSUME NEW j \in Calls, call'[j].reply # {}
        PROVE  call'[j].pc = "answered" /\ \E b \in Agents : agent'[b].call = j /\ agent'[b].pc = "polling"
    <3>1. j # k /\ call'[j] = call[j]
      BY <1>3, <1>4, <2>4, IdleTyped
    <3>2. PICK b \in Agents : agent[b].call = j /\ agent[b].pc = "polling" /\ call[j].pc = "answered"
      BY <1>6, <2>4, <3>1 DEF Paired
    <3>3. b # a
      BY <1>1, <3>2
    <3>4. QED
      BY <1>5, <3>1, <3>2, <3>3 DEF ThreadMoves
  <2>5. QED
    BY <2>3, <2>4 DEF Paired
<1>9. Mine(a, c) /\ Spent(c)
  <2>1. agent[a].outcome \in Outcomes
    BY DEF Net, Agent
  <2>2. QED
    BY <1>1, <1>6, <2>1 DEF Sound
<1>10. Spent(c)'
  BY <1>2, <1>3, <1>4, <1>5, <1>9, IdleTyped DEF Spent, ThreadMoves
<1>11. /\ \A b \in Agents : /\ Mine(b, c) => Mine(b, c)'
                            /\ c \notin agent'[b].todo
                            /\ agent'[b].pc \in {"working", "worked"} => agent'[b].cur # c
       /\ \A o \in Outcomes : Honest(c, o) => Honest(c, o)'
       /\ Honest(c, "failed")' /\ Mine(a, c)'
       /\ \A j \in Calls : c \notin call'[j].reply
  BY <1>2, <1>9, <1>10 DEF Mine, Honest, Spent
<1>12. \A b \in Agents, o \in Outcomes :
          agent'[b].pc = "reporting" /\ agent'[b].cur = c /\ agent'[b].outcome = o =>
             Mine(b, c)' /\ Honest(c, o)'
  BY <1>5, <1>6, <1>11 DEF Sound, ThreadMoves
<1>13. \A j \in Calls, o \in Outcomes :
          call'[j].pc \in {"sent", "checked"} /\ call'[j].cmd = c /\ call'[j].outcome = o => Honest(c, o)'
  BY <1>3, <1>4, <1>6, <1>11, IdleTyped DEF Sound
<1>14. Sound(c)'
  BY <1>2, <1>6, <1>10, <1>11, <1>12, <1>13 DEF Sound
<1>15. QED
  BY <1>2, <1>5, <1>7, <1>8, <1>14, TouchedStep

\* A new row: nobody can have its command yet.
LEMMA EnqueueInv ==
  ASSUME Net, Tables, IInv, NEW c \in Cmds, NEW d \in Devices, NEW k \in Kinds, NEW at \in Time,
         Enqueue(c, d, k, at)
  PROVE  IInv'
<1>1. /\ UNCHANGED <<clock, artifact, agent, call, ran, effect, served>>
      /\ status'[c] = "pending" /\ clock \in Nat
      /\ \A e \in Cmds \ {c} : status'[e] = status[e] /\ device'[e] = device[e] /\ due'[e] = due[e]
                             /\ kind'[e] = kind[e]
  BY ConstantsAssumption DEF Enqueue, history, Tables, Time
<1>2. Sound(c) /\ Paired /\ status[c] = "none"
  BY SoundParts DEF Enqueue
<1>3. Net' /\ Paired'
  BY <1>1, <1>2 DEF Net, Paired
<1>4. TouchesOnly({c})
  BY <1>1 DEF TouchesOnly
<1>5. \A j \in Calls : c \notin call[j].reply
  <2>1. \A j \in Calls, b \in Agents : agent[b].call = j => call[j].agent = b
    BY ConstantsAssumption DEF Net, Agent
  <2>2. QED
    BY <1>2, <2>1 DEF Sound, Paired, Waiting, Unsettled
<1>6. /\ \A b \in Agents : c \notin agent[b].todo
      /\ \A b \in Agents : agent[b].pc \in {"working", "worked", "reporting"} => agent[b].cur # c
      /\ \A j \in Calls : call[j].pc \in {"sent", "checked"} => call[j].cmd # c
  <2>1. /\ \A b \in Agents : agent[b].outcome \in Outcomes
        /\ \A j \in Calls : call[j].outcome \in Outcomes
    BY DEF Net, Agent, Call
  <2>2. QED
    BY <1>2, <2>1 DEF Sound, Waiting, Running, Unsettled, Spent
<1>7. Sound(c)'
  BY <1>1, <1>2, <1>5, <1>6 DEF Sound, Outcomes
<1>8. QED
  BY <1>1, <1>3, <1>4, <1>7, TouchedStep

\* A download takes the only copy.
LEMMA DownloadInv ==
  ASSUME Net, Tables, IInv, NEW c \in Cmds, Download(c)
  PROVE  IInv'
<1>1. /\ UNCHANGED <<clock, status, device, kind, due, agent, call, ran, effect>>
      /\ c \in artifact /\ artifact' = artifact \ {c} /\ served'[c] = served[c] + 1 /\ clock \in Nat
      /\ \A e \in Cmds \ {c} : served'[e] = served[e]
  BY ConstantsAssumption DEF Download, row, Tables, Time
<1>2. Sound(c) /\ Paired
  BY SoundParts
<1>3. Net' /\ Paired'
  BY <1>1, <1>2 DEF Net, Paired
<1>4. TouchesOnly({c})
  BY <1>1 DEF TouchesOnly
<1>5. /\ \A b \in Agents : /\ Mine(b, c) => Mine(b, c)'
                           /\ Waiting(b, c) => Waiting(b, c)'
                           /\ Running(b, c) => Running(b, c)'
      /\ \A o \in Outcomes : Honest(c, o) => Honest(c, o)'
      /\ Spent(c) => Spent(c)'
  BY <1>1 DEF Mine, Waiting, Running, Unsettled, Honest, Spent
<1>6. status[c] = "succeeded" /\ served'[c] = 1 /\ c \notin artifact'
  BY <1>1, <1>2 DEF Sound
<1>7. Sound(c)'
  BY <1>1, <1>2, <1>5, <1>6 DEF Sound
<1>8. QED
  BY <1>1, <1>3, <1>4, <1>7, TouchedStep

\* Whoever holds a command of a deleted device goes on with it.
LEMMA DeleteInv ==
  ASSUME Net, Tables, IInv, NEW d \in Devices, DeleteDevice(d)
  PROVE  IInv'
<1> DEFINE dead == {c \in Cmds : device[c] = d}
<1>1. /\ UNCHANGED <<clock, device, kind, due, agent, call, ran, effect, served>> /\ clock \in Nat
      /\ \A e \in Cmds : status'[e] = IF e \in dead THEN "gone" ELSE status[e]
      /\ artifact' = artifact \ dead
  BY ConstantsAssumption DEF DeleteDevice, row, history, Tables, Time
<1>2. Paired /\ \A e \in Cmds : Sound(e)
  BY SoundParts
<1>3. Net' /\ Paired'
  BY <1>1, <1>2 DEF Net, Paired
<1>4. TouchesOnly(dead)
  BY <1>1 DEF TouchesOnly
<1>5. ASSUME NEW e \in dead
      PROVE  Sound(e)'
  <2>1. e \in Cmds /\ status'[e] = "gone" /\ e \notin artifact'
    BY <1>1
  <2>2. status[e] # "none"
    BY <1>2, ConstantsAssumption DEF Sound
  <2>3. \A b \in Agents : /\ Mine(b, e) => Mine(b, e)'
                          /\ Waiting(b, e) => Waiting(b, e)'
                          /\ Running(b, e) => Running(b, e)'
    BY <1>1, <2>1 DEF Mine, Waiting, Running, Unsettled
  <2>4. /\ \A o \in Outcomes : Honest(e, o) => Honest(e, o)'
        /\ Spent(e) => Spent(e)'
    BY <1>1, <2>1 DEF Honest, Spent
  <2>5. Sound(e)
    BY <1>2, <2>1
  <2> HIDE DEF dead
  <2>6. QED
    BY <1>1, <2>1, <2>3, <2>4, <2>5 DEF Sound, Outcomes
<1> HIDE DEF dead
<1>6. dead \in SUBSET Cmds
  BY DEF dead
<1>7. QED
  BY <1>1, <1>3, <1>4, <1>5, <1>6, TouchedStep

\* The rows of a batch turn `claimed`, and the batch is on its way to the one
\* thread that waits for it.
LEMMA ClaimInv ==
  ASSUME Net, Tables, IInv, NEW k \in Calls, NEW B \in SUBSET Cmds, Claim(k, B)
  PROVE  IInv'
<1>. PICK a \in Agents : a = call[k].agent
  BY ConstantsAssumption DEF Claim, Tables
<1>1. /\ call[k].pc = "sent" /\ call[k].cmd = NoCmd /\ B \subseteq Claimable(a)
      /\ \A e \in Cmds : status'[e] = IF e \in B THEN "claimed" ELSE status[e]
      /\ UNCHANGED <<clock, device, kind, due, artifact, ran, effect, served>>
      /\ clock \in Nat /\ "succeeded" \in Outcomes
  BY ConstantsAssumption DEF Claim, Oldest, row, history, Tables, Time, Outcomes
<1>2. /\ Net' /\ agent' = agent /\ CallChanges(k)
      /\ call'[k] = Answered(k, "succeeded", B)
  BY ClaimNet
<1>3. \/ /\ Heard(k)
         /\ call'[k].pc = "answered" /\ call'[k].agent = a /\ call'[k].cmd = NoCmd
         /\ call'[k].reply = B
      \/ /\ ~Heard(k)
         /\ call'[k].pc = "idle" /\ call'[k].reply = {} /\ call'[k].cmd = NoCmd
  <2>1. \/ /\ Heard(k)
           /\ Answered(k, "succeeded", B).pc = "answered"
           /\ Answered(k, "succeeded", B).agent = call[k].agent
           /\ Answered(k, "succeeded", B).cmd = call[k].cmd
           /\ Answered(k, "succeeded", B).reply = B
        \/ ~Heard(k) /\ Answered(k, "succeeded", B) = IdleCall
    BY <1>1, AnsweredTyped
  <2>2. QED
    BY <1>1, <1>2, <2>1, IdleTyped
<1>4. Paired /\ \A e \in Cmds : Sound(e)
  BY SoundParts
<1>5. Paired'
  <2>1. ASSUME NEW b \in Agents, agent[b].call # NoCall
        PROVE  call'[agent[b].call].cmd = agent[b].cur
    <3>1. agent[b].call \in Calls
      BY <2>1 DEF Net, Agent
    <3>2. QED
      BY <1>1, <1>2, <1>3, <1>4, <2>1, <3>1 DEF Paired, CallChanges
  <2>2. ASSUME NEW j \in Calls, call'[j].reply # {}
        PROVE  call'[j].pc = "answered" /\ \E b \in Agents : agent'[b].call = j /\ agent'[b].pc = "polling"
    <3>1. CASE j # k
      BY <1>2, <1>4, <2>2, <3>1 DEF Paired, CallChanges
    <3>2. CASE j = k
      <4>1. PICK b \in Agents : agent[b].call = k
        BY <1>3, <2>2, <3>2 DEF Heard
      <4>2. agent[b].call # NoCall /\ agent[b].cur = NoCmd
        BY <1>1, <1>4, <4>1, ConstantsAssumption DEF Paired
      <4>3. agent[b].pc = "polling"
        BY <4>2 DEF Net
      <4>4. QED
        BY <1>2, <1>3, <2>2, <3>2, <4>1, <4>3
    <3>3. QED
      BY <3>1, <3>2
  <2>3. QED
    BY <1>2, <1>4, <2>1, <2>2 DEF Paired
<1>6. TouchesOnly(B)
  BY <1>1, <1>2, <1>3, ConstantsAssumption DEF TouchesOnly, CallChanges
<1>7. ASSUME NEW e \in B
      PROVE  Sound(e)'
  <2>1. /\ Sound(e) /\ status[e] = "pending" /\ status'[e] = "claimed"
        /\ Owner[device[e]] = a /\ due[e] <= clock
    BY <1>1, <1>4 DEF Claimable
  <2>2. /\ \A b \in Agents : agent[b].outcome \in Outcomes
        /\ \A j \in Calls : call[j].outcome \in Outcomes
        /\ \A j \in Calls, b \in Agents : agent[b].call = j => call[j].agent = b
    BY ConstantsAssumption DEF Net, Agent, Call
  <2>3. /\ \A b \in Agents : e \notin agent[b].todo
        /\ \A b \in Agents : agent[b].pc \in {"working", "worked", "reporting"} => agent[b].cur # e
        /\ \A j \in Calls : call[j].pc \in {"sent", "checked"} => call[j].cmd # e
        /\ \A j \in Calls : e \notin call[j].reply
    BY <1>4, <2>1, <2>2 DEF Sound, Waiting, Running, Unsettled, Spent, Paired
  <2>4. Waiting(a, e)'
    BY <1>1, <2>1 DEF Sound, Waiting, Mine, Unsettled
  <2>5. \A j \in Calls, b \in Agents : e \in call'[j].reply /\ call'[j].agent = b => b = a
    BY <1>2, <1>3, <2>3 DEF CallChanges
  <2>6. \A j \in Calls : call'[j].pc \in {"sent", "checked"} => call'[j].cmd # e
    BY <1>2, <1>3, <2>3 DEF CallChanges
  <2>7. QED
    BY <1>1, <1>2, <2>1, <2>3, <2>4, <2>5, <2>6 DEF Sound, Outcomes
<1>8. QED
  BY <1>1, <1>2, <1>5, <1>6, <1>7, TouchedStep

\* The outcome is stored while the command is still claimed; a report that
\* comes late changes nothing.
LEMMA RecordInv ==
  ASSUME Net, Tables, IInv, NEW k \in Calls, Record(k)
  PROVE  IInv'
<1>. PICK c \in Cmds, o \in Outcomes : c = call[k].cmd /\ o = call[k].outcome
  BY DEF Record, Net, Call
<1>1. call[k].pc \in {"sent", "checked"} /\ "failed" \in Outcomes /\ "succeeded" \in Outcomes
  BY DEF Record, Outcomes
<1>2. /\ Net' /\ agent' = agent /\ CallChanges(k)
      /\ call'[k] = Answered(k, "failed", {}) \/ call'[k] = Answered(k, "succeeded", {})
  BY RecordNet
<1>3. /\ call'[k].reply = {}
      /\ \/ call'[k].pc = "answered" /\ call'[k].cmd = c
         \/ call'[k].pc = "idle" /\ ~Heard(k)
  BY <1>1, <1>2, EmptyAnswer
<1>4. /\ UNCHANGED <<clock, device, kind, due, ran, effect, served>> /\ clock \in Nat
  BY ConstantsAssumption DEF Record, row, history, Tables, Time
<1>5. CASE ~Open(k)
  <2>1. Frame /\ clock' \in Nat
    BY <1>4, <1>5 DEF Record, Frame
  <2>2. QED
    BY <1>1, <1>2, <1>3, <2>1, CallInv
<1>6. CASE Open(k)
  <2>1. /\ status[c] = "claimed" /\ status'[c] = o
        /\ \A e \in Cmds \ {c} : status'[e] = status[e] /\ (e \in artifact' => e \in artifact)
        /\ c \in artifact' => o = "succeeded"
    BY <1>6 DEF Record, Open, WithBody, Tables
  <2>2. Sound(c) /\ Paired
    BY SoundParts
  <2>3. Spent(c) /\ Honest(c, o) /\ served[c] = 0
    BY <1>1, <2>1, <2>2 DEF Sound
  <2>4. \A b \in Agents : agent[b].call # NoCall => call'[agent[b].call].cmd = call[agent[b].call].cmd
    <3>1. \A b \in Agents : agent[b].call # NoCall => agent[b].call \in Calls
      BY DEF Net, Agent
    <3>2. QED
      BY <1>2, <1>3, <3>1 DEF CallChanges, Heard
  <2>5. Paired'
    BY <1>2, <1>3, <2>2, <2>4 DEF Paired, CallChanges
  <2>6. TouchesOnly({c})
    BY <1>2, <1>3, <1>4, <2>1 DEF TouchesOnly, CallChanges
  <2>7. /\ \A b \in Agents : Mine(b, c) => Mine(b, c)'
        /\ \A p \in Outcomes : Honest(c, p) => Honest(c, p)'
    BY <1>4 DEF Mine, Honest
  <2>8. Spent(c)'
    BY <1>2, <1>3, <2>1, <2>3 DEF Spent, CallChanges, Outcomes
  <2>9. /\ \A b \in Agents : c \notin agent'[b].todo /\ (agent'[b].pc \in {"working", "worked"} => agent'[b].cur # c)
        /\ \A j \in Calls : c \notin call'[j].reply
    BY <2>8 DEF Spent
  <2>10. \A j \in Calls, p \in Outcomes :
           call'[j].pc \in {"sent", "checked"} /\ call'[j].cmd = c /\ call'[j].outcome = p => Honest(c, p)'
    BY <1>2, <1>3, <2>2, <2>7 DEF Sound, CallChanges
  <2>11. \A b \in Agents, p \in Outcomes :
           agent'[b].pc = "reporting" /\ agent'[b].cur = c /\ agent'[b].outcome = p =>
              Mine(b, c)' /\ Honest(c, p)'
    BY <1>2, <2>2, <2>7 DEF Sound
  <2>12. Sound(c)'
    BY <1>4, <2>1, <2>2, <2>3, <2>7, <2>8, <2>9, <2>10, <2>11 DEF Sound, Outcomes
  <2>13. QED
    BY <1>2, <1>4, <2>5, <2>6, <2>12, TouchedStep
<1>7. QED
  BY <1>5, <1>6

-----------------------------------------------------------------------------
(* The invariant holds, and what follows from it                           *)

\* Every step keeps IInv.
LEMMA IInvStep == TypeOK /\ IInv /\ [Next]_vars => IInv'
<1> SUFFICES ASSUME Net, Tables, IInv, [Next]_vars
             PROVE  IInv'
  BY TypeParts
<1>1. CASE Tick
  <2>1. Frame /\ clock' \in Nat /\ agent' = agent /\ call' = call
    BY <1>1, ConstantsAssumption DEF Tick, Frame, row, history, Tables, Time
  <2>2. QED
    BY <2>1, StillInv
<1>2. ASSUME NEW a \in Agents, Client(a)
      PROVE  IInv'
  BY <1>2, PollInv, ReadyInv, StartWorkInv, RefuseInv, ReturnInv, ResultInv, RestartInv
  DEF Client
<1>3. ASSUME NEW a \in Agents, ClientFault(a)
      PROVE  IInv'
  BY <1>3, RetryInv, ReadyInv, ReportRaisesInv, KillInv DEF ClientFault
<1>4. ASSUME NEW k \in Calls, Worker(k)
      PROVE  IInv'
  BY <1>4, DenyInv, ClaimInv, CheckInv, RecordInv DEF Worker
<1>5. ASSUME NEW k \in Calls, Vanish(k)
      PROVE  IInv'
  BY <1>5, VanishInv
<1>6. CASE Operator
  <2>1. ASSUME NEW a \in Agents, Revoke(a) \/ Admit(a)
        PROVE  IInv'
    <3>1. Frame /\ clock' \in Nat /\ agent' = agent /\ call' = call
      BY <2>1, ConstantsAssumption DEF Revoke, Admit, Frame, row, history, Tables, Time
    <3>2. QED
      BY <3>1, StillInv
  <2>2. QED
    BY <1>6, <2>1, EnqueueInv, DownloadInv, DeleteInv DEF Operator
<1>7. CASE UNCHANGED vars
  <2>1. Frame /\ clock' \in Nat /\ agent' = agent /\ call' = call
    BY <1>7, ConstantsAssumption DEF vars, Frame, row, history, Tables, Time
  <2>2. QED
    BY <2>1, StillInv
<1>8. QED
  BY <1>1, <1>2, <1>3, <1>4, <1>5, <1>6, <1>7 DEF Next

\* The invariant, from TypeOK and its steps.
LEMMA IInvHolds == Spec => []IInv
  BY TypeInit, TypeStep, IInvInit, IInvStep, PTL DEF Spec

\* However polls and answers are lost, late or repeated, the work of a command
\* is started at most once (ingest.ts:216-218).
THEOREM AtMostOneRun == Spec => []RunOnce
<1>1. IInv => RunOnce
  BY DEF IInv, Pristine, RunOnce
<1>2. QED
  BY <1>1, IInvHolds, PTL

\* A stored `succeeded` stands for work that was done (or an update presumed
\* to be), whatever raised on the way and whichever of several reports arrived
\* (commands.py:58-316, ingest.ts:293-310).
THEOREM NoFalseOutcome == Spec => []OutcomeIsTrue
<1>1. IInv => OutcomeIsTrue
  BY DEF IInv, Settled, Honest, OutcomeIsTrue, Outcomes
<1>2. QED
  BY <1>1, IInvHolds, PTL

\* A sensitive body is served once, also when its report is repeated after the
\* download (admin.ts:284-285).
THEOREM AtMostOneDownload == Spec => []ServedOnce
<1>1. IInv => ServedOnce
  BY DEF IInv, OneCopy, ServedOnce
<1>2. QED
  BY <1>1, IInvHolds, PTL

\* Work is in the hands of the device's own agent, and not before its time.
THEOREM WorkByItsOwner == Spec => []WorkIsDue
<1>1. TypeOK /\ IInv => WorkIsDue
  <2> SUFFICES ASSUME Net, IInv, NEW a \in Agents, agent[a].cur # NoCmd
               PROVE  Mine(a, agent[a].cur)
    BY TypeParts DEF WorkIsDue, Mine
  <2>1. agent[a].pc \in {"working", "worked", "reporting"}
    BY DEF Net
  <2>2. QED
    BY <2>1 DEF IInv, Works, Reports, Running
<1>2. QED
  BY <1>1, TypeCorrect, IInvHolds, PTL

\* The contract starts with no command.
LEMMA ContractInit == Init => Contract!Init
  BY DEF Init, Contract!Init

\* Every step is a step of the contract or none.
LEMMA ContractStep == TypeOK /\ IInv /\ [Next]_vars => [Contract!Next]_(Contract!vars)
<1> SUFFICES ASSUME Net, Tables, IInv, [Next]_vars
             PROVE  Contract!Next \/ UNCHANGED Contract!vars
  BY TypeParts
<1> DEFINE Still == UNCHANGED <<status, ran, served>>
<1>1. CASE Tick
  BY <1>1 DEF Tick, history, Contract!vars
<1>2. ASSUME NEW a \in Agents, Client(a)
      PROVE  Contract!Next \/ Still
  <2>1. ASSUME NEW c \in Cmds, StartWork(a, c)
        PROVE  Contract!Work(c)
    <3>1. agent[a].pc = "ready" /\ c \in agent[a].todo
      BY <2>1 DEF StartWork
    <3>2. Waiting(a, c)
      BY <3>1, OnlyThere
    <3>3. QED
      BY <2>1, <3>2 DEF StartWork, Waiting, Unsettled, Contract!Work
  <2>2. CASE Return(a) \/ \E k \in Calls : Raise(a, k) \/ Send(a, k)
    BY <2>2 DEF Return, Settle, Raise, Send, history
  <2>3. CASE (\E k \in Calls : Poll(a, k)) \/ TakeBatch(a)
    BY <2>3 DEF Poll, TakeBatch, history
  <2>4. CASE \E c \in Cmds, k \in Calls : RefuseWork(a, c, k)
    BY <2>4 DEF RefuseWork, history
  <2>5. CASE NextCommand(a) \/ Restart(a)
    BY <2>5 DEF NextCommand, Restart, history
  <2>6. QED
    BY <1>2, <2>1, <2>2, <2>3, <2>4, <2>5 DEF Client, Contract!Next
<1>3. ASSUME NEW a \in Agents, ClientFault(a)
      PROVE  Still
  BY <1>3 DEF ClientFault, Retry, GiveUp, ReportRaises, GetStuck, Kill, Crash, history
<1>4. ASSUME NEW k \in Calls, Worker(k)
      PROVE  Contract!Next \/ Still
  <2>1. CASE Deny(k) \/ CheckArtifact(k)
    BY <2>1 DEF Deny, CheckArtifact, history
  <2>2. ASSUME NEW B \in SUBSET Cmds, Claim(k, B)
        PROVE  Contract!HandOut(B)
    BY <2>2 DEF Claim, Oldest, Claimable, history, Contract!HandOut
  <2>3. ASSUME Record(k), ~Open(k)
        PROVE  Still
    BY <2>3 DEF Record, history
  <2>4. ASSUME Record(k), Open(k)
        PROVE  \E c \in Cmds : Contract!Conclude(c)
    <3>1. PICK c \in Cmds, o \in Outcomes : c = call[k].cmd /\ o = call[k].outcome
      BY <2>4 DEF Record, Net, Call
    <3>2. Honest(c, o)
      BY <2>4, <3>1, ConstantsAssumption DEF Record, IInv, Reports
    <3>3. status[c] = "claimed" /\ status' = [status EXCEPT ![c] = o]
          /\ UNCHANGED <<ran, served>>
      BY <2>4, <3>1 DEF Record, Open, history
    <3>4. Contract!Conclude(c)
      BY <3>2, <3>3 DEF Honest, Outcomes, Contract!Conclude
    <3>5. QED
      BY <3>4
  <2>5. QED
    BY <1>4, <2>1, <2>2, <2>3, <2>4 DEF Worker, Contract!Next
<1>5. ASSUME NEW k \in Calls, Vanish(k)
      PROVE  Still
  BY <1>5 DEF Vanish, history
<1>6. CASE Operator
  <2>1. ASSUME NEW c \in Cmds, NEW d \in Devices, NEW k \in Kinds, NEW at \in Time,
               Enqueue(c, d, k, at)
        PROVE  Contract!Submit(c)
    BY <2>1 DEF Enqueue, history, Contract!Submit
  <2>2. ASSUME NEW c \in Cmds, Download(c)
        PROVE  Contract!Serve(c)
    <3>1. status[c] = "succeeded" /\ served[c] = 0
      BY <2>2 DEF Download, IInv, OneCopy
    <3>2. served' = [served EXCEPT ![c] = 0 + 1] /\ UNCHANGED <<status, ran>>
      BY <2>2, <3>1 DEF Download
    <3>3. QED
      BY <3>1, <3>2 DEF Contract!Serve
  <2>3. ASSUME NEW d \in Devices, DeleteDevice(d)
        PROVE  \E S \in SUBSET Cmds : Contract!Discard(S)
    <3> DEFINE dead == {c \in Cmds : device[c] = d}
    <3>1. \A c \in dead : status[c] # "none"
      BY ConstantsAssumption DEF IInv, Pristine
    <3>2. Contract!Discard(dead)
      BY <2>3, <3>1 DEF DeleteDevice, history, Contract!Discard
    <3>3. QED
      BY <3>2
  <2>4. ASSUME NEW a \in Agents, Revoke(a) \/ Admit(a)
        PROVE  Still
    BY <2>4 DEF Revoke, Admit, history
  <2>5. Contract!Next \/ Still
    <3>1. CASE \E c \in Cmds, d \in Devices, k \in Kinds, at \in Time : Enqueue(c, d, k, at)
      BY <2>1, <3>1 DEF Contract!Next
    <3>2. CASE \E c \in Cmds : Download(c)
      BY <2>2, <3>2 DEF Contract!Next
    <3>3. CASE \E d \in Devices : DeleteDevice(d)
      BY <2>3, <3>3 DEF Contract!Next
    <3>4. CASE \E a \in Agents : Revoke(a) \/ Admit(a)
      BY <2>4, <3>4
    <3>5. QED
      BY <1>6, <3>1, <3>2, <3>3, <3>4 DEF Operator
  <2>6. QED
    BY <2>5 DEF Contract!vars
<1>7. CASE UNCHANGED vars
  BY <1>7 DEF vars, history, Contract!vars
<1>8. QED
  BY <1>1, <1>2, <1>3, <1>4, <1>5, <1>6, <1>7 DEF Next, Contract!vars

\* Tables, threads and attempts together do only what CommandContract promises
\* the operator: every step is one of its steps, or none.
THEOREM KeepsContract == Spec => ImplementsContract
  BY TypeInit, TypeStep, IInvInit, IInvStep, ContractInit, ContractStep, PTL
  DEF Spec, ImplementsContract, Contract!Spec

=============================================================================
