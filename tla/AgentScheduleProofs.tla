------------------------ MODULE AgentScheduleProofs ------------------------
(***************************************************************************)
(* Theorems about AgentSchedule, for every interval, offset and duration.  *)
(***************************************************************************)
EXTENDS AgentSchedule, TLAPS

-----------------------------------------------------------------------------
(* Constants                                                               *)

\* The order lists the four kinds, each once.
LEMMA OrderFacts ==
    /\ Len(Order) = 4
    /\ \A i \in 1..4 : Order[i] \in Kinds
    /\ \A k \in Kinds : \E i \in 1..4 : Order[i] = k
    /\ \A i, j \in 1..4 : Order[i] = Order[j] => i = j
BY DEF Order, Kinds

\* What n jobs may take.
Budget(n) == n * MaxJob

LEMMA BudgetFacts ==
    /\ \A n \in 0..4 : Budget(n) \in Nat
    /\ \A n \in 0..3 : Budget(n) + MaxJob = Budget(n + 1)
    /\ \A m, n \in 0..4 : m <= n => Budget(m) <= Budget(n)
    /\ Budget(0) = 0
    /\ Tick = MaxProbe + MaxReport + Budget(4)
<1>1. MaxJob \in Nat
  BY ConstantsAssumption
<1>2. /\ Budget(0) = 0 /\ Budget(1) = MaxJob /\ Budget(2) = 2 * MaxJob
      /\ Budget(3) = 3 * MaxJob /\ Budget(4) = 4 * MaxJob
  BY <1>1 DEF Budget
<1>3. \A n \in 0..4 : n = 0 \/ n = 1 \/ n = 2 \/ n = 3 \/ n = 4
  OBVIOUS
<1>4. \A n \in 0..4 : Budget(n) \in Nat
  BY <1>1, <1>2, <1>3
<1>5. \A n \in 0..3 : Budget(n) + MaxJob = Budget(n + 1)
  BY <1>1, <1>2
<1>6. \A m, n \in 0..4 : m <= n => Budget(m) <= Budget(n)
  BY <1>1, <1>2, <1>3
<1>7. Tick = MaxProbe + MaxReport + Budget(4)
  BY <1>1, <1>2, OrderFacts, ConstantsAssumption DEF Tick
<1>8. QED
  BY <1>2, <1>4, <1>5, <1>6, <1>7

\* The constants and the sums of them the invariants use are natural numbers.
LEMMA Sizes ==
    /\ Beat \in Nat /\ Offset \in Nat /\ MaxProbe \in Nat /\ MaxReport \in Nat
    /\ MaxJob \in Nat /\ Cap \in Nat /\ Tick \in Nat /\ Period = Tick + Beat
    /\ Offset + Tick < Cap
    /\ \A k \in On : k \in Kinds /\ Interval[k] \in Nat
<1>1. Tick \in Nat
  BY BudgetFacts, ConstantsAssumption
<1>2. QED
  BY <1>1, ConstantsAssumption DEF Period, On

\* A clock moves by at most one and stays in range.
LEMMA OlderFacts ==
    \A t \in 0..Cap : Older(t) \in 0..Cap /\ t <= Older(t) /\ Older(t) <= t + 1
BY Sizes DEF Older

\* So does a timestamp's age, which stops at the interval; it keeps the order of ages.
LEMMA AgedFacts ==
    ASSUME NEW k \in On
    PROVE  /\ \A t \in -1..Cap : Aged(k, t) \in -1..Cap /\ (Aged(k, t) = Never <=> t = Never)
           /\ \A t \in 0..Cap : t < Interval[k] => Aged(k, t) = t + 1
           /\ \A t \in 0..Cap : t >= Interval[k] => Aged(k, t) = t
           /\ \A s, t \in 0..Cap : s <= t => Aged(k, s) <= Aged(k, t)
<1>1. Interval[k] \in Nat /\ Cap \in Nat /\ Interval[k] < Cap
  <2>1. Interval[k] \in Nat /\ Period \in Nat /\ Tick \in Nat /\ Interval[k] + Period + Tick < Cap
    BY Sizes, ConstantsAssumption
  <2>2. QED
    BY <2>1, Sizes
<1>2. QED
  BY <1>1 DEF Aged, Never

LEMMA LimitFacts ==
    /\ DOMAIN Limit = {"wait", "stagger", "probe", "report", "jobs", "work", "post"}
    /\ Limit["wait"] = Beat /\ Limit["stagger"] = Offset /\ Limit["probe"] = MaxProbe
    /\ Limit["report"] = MaxReport /\ Limit["jobs"] = 0 /\ Limit["work"] = MaxJob
    /\ Limit["post"] = MaxJob
    /\ \A p \in DOMAIN Limit : Limit[p] \in Nat
BY Sizes DEF Limit

\* What a place is allowed fits into the clocks.
LEMMA LimitsFit == \A p \in DOMAIN Limit : Limit[p] <= Cap
<1>1. MaxJob = Budget(1) /\ Budget(1) <= Budget(4)
  BY BudgetFacts, Sizes DEF Budget
<1>2. Interval["backup"] \in Nat /\ Interval["backup"] + Period + Tick < Cap
  BY ConstantsAssumption DEF Kinds
<1>3. Beat <= Cap /\ Offset <= Cap /\ MaxProbe <= Cap /\ MaxReport <= Cap /\ MaxJob <= Cap
  BY <1>1, <1>2, Sizes, BudgetFacts
<1>4. QED
  BY <1>3, LimitFacts, Sizes

\* What a tick may know, and how its fields change.
Ticks == [ok : BOOLEAN, due : SUBSET On, pos : 1..5]

LEMMA TickFacts ==
    /\ Blank \in Ticks /\ Blank.pos = 1 /\ Blank.due = {}
    /\ \A b \in BOOLEAN, S \in SUBSET On :
        [ok |-> b, due |-> S, pos |-> 1] \in Ticks
    /\ \A t \in Ticks, S \in SUBSET On :
        [t EXCEPT !.due = S] \in Ticks /\ [t EXCEPT !.due = S].pos = t.pos
    /\ \A t \in Ticks, i \in 1..5 :
        [t EXCEPT !.pos = i] \in Ticks /\ [t EXCEPT !.pos = i].pos = i
<1>1. Blank \in Ticks /\ Blank.pos = 1 /\ Blank.due = {}
  BY DEF Ticks, Blank
<1>2. ASSUME NEW b \in BOOLEAN, NEW S \in SUBSET On
      PROVE  [ok |-> b, due |-> S, pos |-> 1] \in Ticks
  BY DEF Ticks
<1>3. ASSUME NEW t \in Ticks, NEW S \in SUBSET On
      PROVE  [t EXCEPT !.due = S] \in Ticks /\ [t EXCEPT !.due = S].pos = t.pos
  BY DEF Ticks
<1>4. ASSUME NEW t \in Ticks, NEW i \in 1..5
      PROVE  [t EXCEPT !.pos = i] \in Ticks /\ [t EXCEPT !.pos = i].pos = i
  BY DEF Ticks
<1>5. QED
  BY <1>1, <1>2, <1>3, <1>4

\* A tick forgets that a job is due.
LEMMA Undue == \A S : tick \in Ticks => tick.due \ S \in SUBSET On
BY DEF Ticks

\* One timestamp is written.
LEMMA Written ==
    /\ \A f \in [On -> -1..Cap], k \in On : [f EXCEPT ![k] = 0] \in [On -> -1..Cap]
    /\ \A f \in [On -> 0..Cap], k \in On : [f EXCEPT ![k] = 0] \in [On -> 0..Cap]
    /\ \A S : \A f \in [On -> 0..Cap] :
        [k \in On |-> IF k \in S THEN 0 ELSE f[k]] \in [On -> 0..Cap]
<1>1. 0 \in -1..Cap /\ 0 \in 0..Cap
  BY Sizes
<1>2. \A S : \A f \in [On -> S], k \in On, v \in S : [f EXCEPT ![k] = v] \in [On -> S]
  OBVIOUS
<1>3. \A S : \A f \in [On -> 0..Cap] :
        [k \in On |-> IF k \in S THEN 0 ELSE f[k]] \in [On -> 0..Cap]
  BY <1>1
<1>4. QED
  BY <1>1, <1>2, <1>3, Zenon

\* Putting jobs off raises no time that is counted.
LEMMA PutOffFacts ==
    ASSUME NEW S, TypeOK, PutOff(S)
    PROVE  /\ rest' \in [On -> 0..Cap]
           /\ \A k \in On : (k \in S => rest'[k] = 0) /\ (k \notin S => rest'[k] = rest[k])
<1>1. rest \in [On -> 0..Cap] /\ rest' = [k \in On |-> IF k \in S THEN 0 ELSE rest[k]]
  BY DEF TypeOK, PutOff
<1>2. QED
  BY <1>1, Written

-----------------------------------------------------------------------------
(* Types                                                                   *)

LEMMA TypeInit == Init => TypeOK
BY OrderFacts, Sizes, LimitFacts DEF Init, TypeOK, Blank, Idle, Never, Commands

\* Every step keeps the types, and no place of the loop counts for more than it may.
LEMMA TypeStep == TypeOK /\ [Next]_vars => TypeOK'
<1> SUFFICES ASSUME TypeOK, [Next]_vars
             PROVE  TypeOK'
  OBVIOUS
<1> USE OrderFacts, Sizes, LimitFacts
<1>0. tick \in Ticks /\ tick.pos \in 1..5 /\ tick.due \in SUBSET On
  BY DEF TypeOK, Ticks
<1>1. CASE Pass
  <2>1. tick' \in Ticks /\ tick'.pos = tick.pos
    BY <1>0, <1>1 DEF Pass
  <2>2. at' = at /\ alive' = alive /\ cmd' = cmd
    BY <1>1 DEF Pass
  <2>3. timer' \in 0..Cap /\ (at' # "ended" => timer' <= Limit[at'])
    <3>1. at \in DOMAIN Limit /\ Limit[at] \in Nat /\ Limit[at] <= Cap
      BY <1>1, LimitsFit DEF Pass, TypeOK
    <3>2. timer' = timer \/ (timer < Limit[at] /\ timer' = timer + 1)
      BY <1>1 DEF Pass
    <3>3. QED
      BY <2>2, <3>1, <3>2 DEF TypeOK
  <2>4. beat' \in 0..Cap
    BY <1>1, OlderFacts DEF Pass, TypeOK
  <2>5. age' \in [On -> -1..Cap] /\ done' \in [On -> -1..Cap]
    BY <1>1, AgedFacts DEF Pass, TypeOK
  <2>7. rest' \in [On -> 0..Cap]
    BY <1>1, OlderFacts DEF Pass, TypeOK
  <2>6. QED
    BY <2>1, <2>2, <2>3, <2>4, <2>5, <2>7 DEF TypeOK, Ticks
<1>2. CASE Wake
  BY <1>2 DEF Wake, Goto, TypeOK, Blank
<1>3. ASSUME NEW answered \in BOOLEAN, Probe(answered)
      PROVE  TypeOK'
  <2>1. tick' \in Ticks /\ timer' = 0 /\ at' = "report"
    BY <1>3, TickFacts DEF Probe, Goto, Overdue
  <2>2. rest' \in [On -> 0..Cap]
    BY <1>3, PutOffFacts DEF Probe
  <2>3. QED
    BY <1>3, <2>1, <2>2 DEF Probe, TypeOK, Ticks
<1>4. CASE Report
  <2>1. timer' = 0 /\ ((tick' = tick /\ at' = "jobs") \/ (tick' = Blank /\ at' = "wait"))
    <3>1. CASE tick.ok
      BY <1>4, <3>1 DEF Report, Goto
    <3>2. CASE ~tick.ok
      BY <1>4, <3>2, Zenon DEF Report, Goto
    <3>3. QED
      BY <3>1, <3>2
  <2>2. tick' \in Ticks
    BY <1>0, <2>1, TickFacts
  <2>3. QED
    BY <1>4, <2>1, <2>2 DEF Report, TypeOK, Ticks
<1>5. ASSUME NEW i \in 1..Len(Order), Start(i)
      PROVE  TypeOK'
  <2>0. i \in 1..5
    OBVIOUS
  <2>1. [tick EXCEPT !.pos = i] \in Ticks /\ [tick EXCEPT !.pos = i].pos = i
    BY <1>0, <2>0, TickFacts
  <2>3. tick' = [tick EXCEPT !.pos = i]
    BY <1>5, Zenon DEF Start, Goto
  <2>4. timer' = 0 /\ at' = "work"
    BY <1>5, Zenon DEF Start, Goto
  <2>2. QED
    BY <1>5, <2>1, <2>3, <2>4 DEF Start, TypeOK, Ticks
<1>6. CASE Succeed
  <2>1. timer' = timer /\ at' = "post" /\ timer <= MaxJob
    BY <1>6 DEF Succeed, TypeOK
  <2>6. tick' \in Ticks /\ tick'.pos = tick.pos
    <3>1. tick' = [tick EXCEPT !.due = tick.due \ {Order[tick.pos]}]
      BY <1>6, Zenon DEF Succeed
    <3>2. QED
      BY <1>0, <3>1, TickFacts, Undue, Zenon
  <2>2. /\ age' = [age EXCEPT ![Order[tick.pos]] = 0]
        /\ done' = [done EXCEPT ![Order[tick.pos]] = 0]
        /\ rest' = [rest EXCEPT ![Order[tick.pos]] = 0]
    BY <1>6, Zenon DEF Succeed
  <2>4. age \in [On -> -1..Cap] /\ done \in [On -> -1..Cap] /\ rest \in [On -> 0..Cap]
    BY DEF TypeOK
  <2>5. age' \in [On -> -1..Cap] /\ done' \in [On -> -1..Cap] /\ rest' \in [On -> 0..Cap]
    BY <2>2, <2>4, Written, Zenon
  <2>3. QED
    BY <1>6, <2>1, <2>5, <2>6 DEF Succeed, TypeOK, Ticks
<1>7. CASE Posted
  <2>1. tick.pos \in 1..4
    BY <1>0, <1>7 DEF Posted, TypeOK
  <2>2. PICK n \in 1..5 : n = tick.pos + 1
    BY <2>1
  <2>6. [tick EXCEPT !.pos = n] \in Ticks
    BY <1>0, TickFacts
  <2>5. tick' = [tick EXCEPT !.pos = n] /\ timer' = 0 /\ at' = "jobs"
    BY <1>7, <2>2, Zenon DEF Posted, Goto
  <2>3. QED
    BY <1>7, <2>5, <2>6 DEF Posted, TypeOK, Ticks
<1>8. CASE Fail
  <2>1. tick.pos \in 1..4
    BY <1>0, <1>8 DEF Fail, TypeOK
  <2>2. PICK n \in 1..5 : n = tick.pos + 1
    BY <2>1
  <2>6. [tick EXCEPT !.pos = n] \in Ticks
    BY <1>0, TickFacts
  <2>5. tick' = [tick EXCEPT !.pos = n] /\ timer' = 0 /\ at' = "jobs"
    BY <1>8, <2>2, Zenon DEF Fail, Goto
  <2>7. rest' = [rest EXCEPT ![Order[tick.pos]] = 0] /\ rest \in [On -> 0..Cap]
    BY <1>8, Zenon DEF Fail, TypeOK
  <2>3. rest' \in [On -> 0..Cap]
    BY <2>7, Written, Zenon
  <2>4. QED
    BY <1>8, <2>3, <2>5, <2>6 DEF Fail, TypeOK, Ticks
<1>9. CASE EndTick
  BY <1>9 DEF EndTick, Goto, TypeOK, Blank
<1>10. CASE Raise
  <2>1. at' = "wait" /\ timer' = 0 /\ tick' = Blank /\ (beat' = beat \/ beat' = 0)
    BY <1>10, Zenon DEF Raise, Goto
  <2>2. rest' \in [On -> 0..Cap]
    BY <1>10, PutOffFacts, Zenon DEF Raise
  <2>3. UNCHANGED <<alive, age, cmd, done>>
    BY <1>10, Zenon DEF Raise
  <2>4. tick' \in Ticks
    BY <2>1, TickFacts
  <2>5. QED
    BY <2>1, <2>2, <2>3, <2>4 DEF TypeOK, Ticks
<1>11. CASE CommandThread
  <2>1. CASE (\E c \in Commands : Take(c)) \/ Work \/ Refuse
    BY <2>1 DEF Take, Work, Refuse, Idle, Commands, TypeOK
  <2>2. CASE Stamp
    <3>1. tick' = [tick EXCEPT !.due = tick.due \ Stamps(cmd.kind)]
      BY <2>2, Zenon DEF Stamp
    <3>2. tick' \in Ticks /\ tick'.pos = tick.pos
      BY <1>0, <3>1, TickFacts, Undue, Zenon
    <3>3. rest' \in [On -> 0..Cap]
      BY <2>2, PutOffFacts, Zenon DEF Stamp
    <3>4. age' \in [On -> -1..Cap]
      BY <2>2 DEF Stamp, TypeOK
    <3>5. QED
      BY <2>2, <3>2, <3>3, <3>4 DEF Stamp, Idle, Commands, TypeOK, Ticks
  <2>3. QED
    BY <1>11, <2>1, <2>2, Zenon DEF CommandThread
<1>12. CASE Exit \/ Restart
  <2>1. /\ timer' = 0 /\ tick' = Blank /\ cmd' = Idle /\ beat' = 0
        /\ age' = [k \in On |-> Never] /\ done' = [k \in On |-> Never]
        /\ rest' = [k \in On |-> 0]
    BY <1>12, Zenon DEF Exit, Restart, Forget
  <2>2. alive' \in BOOLEAN /\ at' \in {"stagger", "ended"}
    BY <1>12, Zenon DEF Exit, Restart
  <2>3. cmd' \in [pc : {"idle", "work", "report"}, kind : Commands]
    BY <2>1 DEF Idle, Commands
  <2>4. tick' \in Ticks
    BY <2>1, TickFacts
  <2>5. age' \in [On -> -1..Cap] /\ done' \in [On -> -1..Cap] /\ rest' \in [On -> 0..Cap]
    BY <2>1 DEF Never
  <2>6. QED
    BY <2>1, <2>2, <2>3, <2>4, <2>5 DEF TypeOK, Ticks
<1>13. CASE UNCHANGED vars
  BY <1>13 DEF vars, TypeOK
<1>14. QED
  BY <1>1, <1>2, <1>3, <1>4, <1>5, <1>6, <1>7, <1>8, <1>9, <1>10, <1>11, <1>12, <1>13
     DEF Next, Loop

\* Every state is well typed, and no step of the loop counts for more than it is
\* allowed.
THEOREM TypeCorrect == Spec => []TypeOK
BY TypeInit, TypeStep, PTL DEF Spec

-----------------------------------------------------------------------------
(* No work is done twice for nothing                                       *)

\* A success in this process is no older than its timestamp says, unless the
\* command thread is still reporting that very work.
Counted(k) ==
    \/ done[k] = Never
    \/ age[k] # Never /\ age[k] <= done[k]
    \/ cmd.pc = "report" /\ k \in Stamps(cmd.kind)

\* Nothing that a tick holds for due was done within its interval.
Lapsed(k) ==
    \/ done[k] = Never
    \/ done[k] >= Interval[k]
    \/ cmd.pc = "report" /\ k \in Stamps(cmd.kind)

Stamped == \A k \in On : Counted(k) /\ (k \in tick.due => Lapsed(k))

LEMMA StampedInit == Init => Stamped
BY DEF Init, Stamped, Counted, Blank

\* Where neither thread writes a timestamp or takes up a command, nothing changes.
LEMMA StampedFrame ==
    Stamped /\ UNCHANGED <<age, cmd, done>> /\ tick'.due \in SUBSET tick.due => Stamped'
BY DEF Stamped, Counted, Lapsed, Stamps

LEMMA StampedStep == TypeOK /\ Stamped /\ [Next]_vars => Stamped'
<1> SUFFICES ASSUME TypeOK, Stamped, [Next]_vars, NEW k \in On
             PROVE  Counted(k)' /\ (k \in tick'.due => Lapsed(k)')
  BY DEF Stamped
<1>0. /\ age[k] \in -1..Cap /\ done[k] \in -1..Cap /\ Counted(k)
      /\ k \in tick.due => Lapsed(k)
      /\ age \in [On -> -1..Cap] /\ done \in [On -> -1..Cap] /\ tick \in Ticks
      /\ Interval[k] \in Nat /\ Cap \in Nat
  BY OrderFacts, Sizes DEF TypeOK, Stamped, Ticks
<1>1. CASE Pass
  <2>1. age'[k] = Aged(k, age[k]) /\ done'[k] = Aged(k, done[k]) /\ cmd' = cmd /\ tick' = tick
    BY <1>1 DEF Pass
  <2>2. age[k] # Never /\ age[k] <= done[k] => age'[k] # Never /\ age'[k] <= done'[k]
    BY <1>0, <2>1, AgedFacts DEF Never
  <2>3. done[k] = Never => done'[k] = Never
    BY <1>0, <2>1, AgedFacts
  <2>4. done[k] >= Interval[k] => done'[k] >= Interval[k]
    BY <1>0, <2>1, AgedFacts
  <2>5. QED
    BY <1>0, <2>1, <2>2, <2>3, <2>4 DEF Counted, Lapsed
<1>2. CASE \/ Wake \/ Report \/ Posted \/ Fail \/ EndTick \/ Raise \/ UNCHANGED vars
           \/ \E i \in 1..Len(Order) : Start(i)
  <2>1. UNCHANGED <<age, cmd, done>>
    BY <1>2, Zenon DEF Wake, Report, Posted, Fail, EndTick, Raise, Start, vars
  <2>2. \/ tick' = tick \/ tick' = Blank
        \/ \E i : tick' = [tick EXCEPT !.pos = i]
    BY <1>2, Zenon DEF Wake, Report, Posted, Fail, EndTick, Raise, Start, Goto, vars
  <2>3. tick'.due \in SUBSET tick.due
    BY <1>0, <2>2 DEF Ticks, Blank
  <2>4. QED
    BY <2>1, <2>3, StampedFrame DEF Stamped
<1>9. ASSUME NEW answered \in BOOLEAN, Probe(answered)
      PROVE  Counted(k)' /\ (k \in tick'.due => Lapsed(k)')
  <2>1. UNCHANGED <<age, cmd, done>> /\ tick' = [ok |-> answered, due |-> Overdue, pos |-> 1]
    BY <1>9, Zenon DEF Probe, Goto
  <2>2. tick'.due = Overdue
    BY <2>1
  <2>3. k \in Overdue => Lapsed(k)
    BY <1>0 DEF Overdue, Counted, Lapsed, Never
  <2>4. QED
    BY <1>0, <2>1, <2>2, <2>3 DEF Counted, Lapsed
<1>3. CASE Succeed
  <2>1. /\ age' = [age EXCEPT ![Order[tick.pos]] = 0]
        /\ done' = [done EXCEPT ![Order[tick.pos]] = 0]
        /\ cmd' = cmd
        /\ tick' = [tick EXCEPT !.due = tick.due \ {Order[tick.pos]}]
    BY <1>3, Zenon DEF Succeed
  <2>2. tick'.due = tick.due \ {Order[tick.pos]}
    BY <1>0, <2>1 DEF Ticks
  <2>3. CASE k = Order[tick.pos]
    <3>1. age'[k] = 0 /\ done'[k] = 0
      BY <1>0, <2>1, <2>3
    <3>2. QED
      BY <2>2, <2>3, <3>1 DEF Counted, Never
  <2>4. CASE k # Order[tick.pos]
    <3>1. age'[k] = age[k] /\ done'[k] = done[k]
      BY <1>0, <2>1, <2>4
    <3>2. QED
      BY <1>0, <2>1, <2>2, <3>1 DEF Counted, Lapsed
  <2>5. QED
    BY <2>3, <2>4
<1>4. CASE (\E c \in Commands : Take(c)) \/ Refuse
  <2>1. cmd.pc # "report" /\ age' = age /\ done' = done /\ tick' = tick
    BY <1>4 DEF Take, Refuse
  <2>2. QED
    BY <1>0, <2>1 DEF Counted, Lapsed
<1>5. CASE Work
  <2>1. /\ cmd.pc = "work" /\ age' = age /\ cmd' = [cmd EXCEPT !.pc = "report"]
        /\ done' = [j \in On |-> IF j \in Stamps(cmd.kind) THEN 0 ELSE done[j]]
        /\ tick' = tick
    BY <1>5, Zenon DEF Work
  <2>2. cmd'.pc = "report" /\ cmd'.kind = cmd.kind
    BY <2>1 DEF TypeOK
  <2>3. CASE k \in Stamps(cmd.kind)
    BY <2>2, <2>3 DEF Counted, Lapsed
  <2>4. CASE k \notin Stamps(cmd.kind)
    <3>1. done'[k] = done[k]
      BY <2>1, <2>4
    <3>2. QED
      BY <1>0, <2>1, <3>1 DEF Counted, Lapsed
  <2>5. QED
    BY <2>3, <2>4
<1>6. CASE Stamp
  <2>1. /\ age' = [j \in On |-> IF j \in Stamps(cmd.kind) THEN 0 ELSE age[j]]
        /\ done' = done
        /\ tick' = [tick EXCEPT !.due = tick.due \ Stamps(cmd.kind)]
    BY <1>6, Zenon DEF Stamp
  <2>5. tick'.due = tick.due \ Stamps(cmd.kind)
    BY <1>0, <2>1 DEF Ticks
  <2>2. CASE k \in Stamps(cmd.kind)
    <3>1. age'[k] = 0 /\ done'[k] = done[k] /\ k \notin tick'.due
      BY <2>1, <2>2, <2>5
    <3>2. QED
      BY <1>0, <3>1 DEF Counted, Never
  <2>3. CASE k \notin Stamps(cmd.kind)
    <3>1. age'[k] = age[k] /\ done'[k] = done[k]
      BY <2>1, <2>3
    <3>2. QED
      BY <1>0, <2>3, <2>5, <3>1 DEF Counted, Lapsed
  <2>4. QED
    BY <2>2, <2>3
<1>7. CASE Exit \/ Restart
  BY <1>7 DEF Exit, Restart, Forget, Counted, Lapsed
<1>8. QED
  BY <1>1, <1>2, <1>3, <1>4, <1>5, <1>6, <1>7, <1>9, Zenon DEF Next, Loop, CommandThread

\* Only Start takes the loop from its due checks into a job.
LEMMA StartIsFresh ==
    TypeOK /\ Stamped /\ [Next]_vars =>
        \A k \in On :
            (at = "jobs" /\ at' = "work" /\ k = Order[tick'.pos])
                => \/ done[k] = Never
                   \/ done[k] >= Interval[k]
                   \/ cmd.pc = "report" /\ k \in Stamps(cmd.kind)
<1> SUFFICES ASSUME TypeOK, Stamped, [Next]_vars, NEW k \in On,
                    at = "jobs", at' = "work", k = Order[tick'.pos]
             PROVE  \/ done[k] = Never
                    \/ done[k] >= Interval[k]
                    \/ cmd.pc = "report" /\ k \in Stamps(cmd.kind)
  OBVIOUS
<1>1. PICK i \in 1..Len(Order) : Start(i)
  BY Zenon DEF Next, Pass, Loop, CommandThread, Wake, Probe, Report, Succeed, Posted, Fail, EndTick,
     Raise, Goto, Take, Work, Refuse, Stamp, Exit, Restart, vars
<1>2. tick \in Ticks /\ i \in 1..5
  BY OrderFacts DEF TypeOK, Ticks
<1>3. tick' = [tick EXCEPT !.pos = i]
  BY <1>1, Zenon DEF Start, Goto
<1>4. tick'.pos = i
  BY <1>2, <1>3 DEF Ticks
<1>5. k \in tick.due
  BY <1>1, <1>4 DEF Start, Due
<1>6. QED
  BY <1>5 DEF Stamped, Lapsed

\* The loop repeats no job that either thread did within its interval.
THEOREM NothingTwice == Spec => NoDuplicateWork
<1>1. TypeOK /\ Stamped /\ [Next]_vars =>
        [\A k \in On :
            (at = "jobs" /\ at' = "work" /\ k = Order[tick'.pos])
                => \/ done[k] = Never
                   \/ done[k] >= Interval[k]
                   \/ cmd.pc = "report" /\ k \in Stamps(cmd.kind)]_vars
  BY StartIsFresh
<1>2. QED
  BY <1>1, TypeInit, TypeStep, StampedInit, StampedStep, PTL DEF Spec, NoDuplicateWork

-----------------------------------------------------------------------------
(* The heartbeat is sent in time                                           *)

\* Time that is counted moves no clock by more than the timer; what a step overruns
\* moves none.
LEMMA PassFacts ==
    TypeOK /\ Pass =>
        /\ at' = at /\ tick' = tick /\ at \notin {"jobs", "ended"}
        /\ \/ /\ timer' = timer + 1 /\ beat' <= beat + 1
              /\ \A k \in On : rest'[k] <= rest[k] + 1
           \/ UNCHANGED <<timer, beat, rest>>
<1> SUFFICES ASSUME TypeOK, Pass
             PROVE  /\ at' = at /\ tick' = tick /\ at \notin {"jobs", "ended"}
                    /\ \/ /\ timer' = timer + 1 /\ beat' <= beat + 1
                          /\ \A k \in On : rest'[k] <= rest[k] + 1
                       \/ UNCHANGED <<timer, beat, rest>>
  OBVIOUS
<1>1. at' = at /\ tick' = tick /\ at # "ended"
  BY DEF Pass
<1>2. at # "jobs"
  BY LimitFacts, Sizes DEF Pass, TypeOK
<1>3. CASE timer < Limit[at]
  <2>1. timer' = timer + 1 /\ beat' = Older(beat) /\ rest' = [k \in On |-> Older(rest[k])]
    BY <1>3 DEF Pass
  <2>2. beat' <= beat + 1
    BY <2>1, OlderFacts DEF TypeOK
  <2>3. \A k \in On : rest'[k] <= rest[k] + 1
    BY <2>1, OlderFacts DEF TypeOK
  <2>4. QED
    BY <1>1, <1>2, <2>1, <2>2, <2>3
<1>4. CASE ~(timer < Limit[at])
  BY <1>1, <1>2, <1>4 DEF Pass
<1>5. QED
  BY <1>3, <1>4

\* What Succeed does to the tick.
LEMMA SucceedFacts ==
    TypeOK /\ Succeed =>
        /\ tick'.pos = tick.pos /\ tick'.ok = tick.ok
        /\ tick'.due = tick.due \ {Order[tick.pos]}
<1> SUFFICES ASSUME TypeOK, Succeed
             PROVE  /\ tick'.pos = tick.pos /\ tick'.ok = tick.ok
                    /\ tick'.due = tick.due \ {Order[tick.pos]}
  OBVIOUS
<1>1. tick' = [tick EXCEPT !.due = tick.due \ {Order[tick.pos]}]
  BY Zenon DEF Succeed
<1>2. tick \in Ticks
  BY OrderFacts DEF TypeOK, Ticks
<1>3. QED
  BY <1>1, <1>2 DEF Ticks

\* The command thread leaves the loop where it is; what it takes off a tick's list
\* of due jobs has just been done.
LEMMA CommandFrame ==
    TypeOK /\ (CommandThread \/ UNCHANGED vars) =>
        /\ UNCHANGED <<at, timer, beat>> /\ tick'.pos = tick.pos /\ tick'.ok = tick.ok
        /\ \A k \in On : /\ rest'[k] = rest[k] \/ rest'[k] = 0
                         /\ k \in tick.due \ tick'.due => rest'[k] = 0
<1> SUFFICES ASSUME TypeOK, CommandThread \/ UNCHANGED vars
             PROVE  /\ UNCHANGED <<at, timer, beat>> /\ tick'.pos = tick.pos /\ tick'.ok = tick.ok
                    /\ \A k \in On : /\ rest'[k] = rest[k] \/ rest'[k] = 0
                                     /\ k \in tick.due \ tick'.due => rest'[k] = 0
  OBVIOUS
<1>1. CASE Stamp
  <2>1. /\ UNCHANGED <<at, timer, beat>> /\ PutOff(Stamps(cmd.kind))
        /\ tick' = [tick EXCEPT !.due = tick.due \ Stamps(cmd.kind)]
    BY <1>1, Zenon DEF Stamp
  <2>2. tick \in Ticks
    BY OrderFacts DEF TypeOK, Ticks
  <2>3. /\ tick'.pos = tick.pos /\ tick'.ok = tick.ok
        /\ tick'.due = tick.due \ Stamps(cmd.kind)
    BY <2>1, <2>2 DEF Ticks
  <2>4. QED
    BY <2>1, <2>3, PutOffFacts
<1>2. CASE (\E c \in Commands : Take(c)) \/ Work \/ Refuse \/ UNCHANGED vars
  <2>1. UNCHANGED <<at, timer, beat, tick, rest>>
    BY <1>2, Zenon DEF Take, Work, Refuse, vars
  <2>2. QED
    BY <2>1
<1>3. QED
  BY <1>1, <1>2, Zenon DEF CommandThread

\* How long ago the last heartbeat may be, at each place of the loop.
Beats ==
    /\ at = "stagger" => beat <= timer
    /\ at = "wait" => beat <= Budget(4) + timer
    /\ at = "probe" => beat <= Budget(4) + Beat + timer \/ beat <= Offset + timer
    /\ at = "report" => \/ beat <= Budget(4) + Beat + MaxProbe + timer
                        \/ beat <= Offset + MaxProbe + timer
    /\ at = "jobs" => beat <= Budget(tick.pos - 1)
    /\ at \in {"work", "post"} => beat <= Budget(tick.pos - 1) + timer
    /\ at = "ended" => beat = 0

LEMMA BeatsInit == Init => Beats
BY DEF Init, Beats

\* A step that leaves the loop where it is leaves its bound alone.
LEMMA BeatsFrame ==
    Beats /\ UNCHANGED <<at, timer, beat>> /\ tick'.pos = tick.pos => Beats'
BY DEF Beats, Budget

\* What the end of a job is worth, in jobs.
LEMMA JobOver ==
    TypeOK /\ at \in {"work", "post"} =>
        /\ tick.pos \in 1..4 /\ timer \in 0..MaxJob
        /\ Budget(tick.pos - 1) \in Nat /\ Budget(tick.pos) \in Nat /\ Budget(4) \in Nat
        /\ Budget(tick.pos - 1) + timer <= Budget(tick.pos)
        /\ Budget(tick.pos) <= Budget(4)
<1> SUFFICES ASSUME TypeOK, at \in {"work", "post"}
             PROVE  /\ tick.pos \in 1..4 /\ timer \in 0..MaxJob
                    /\ Budget(tick.pos - 1) \in Nat /\ Budget(tick.pos) \in Nat /\ Budget(4) \in Nat
                    /\ Budget(tick.pos - 1) + timer <= Budget(tick.pos)
                    /\ Budget(tick.pos) <= Budget(4)
  OBVIOUS
<1>1. tick.pos \in 1..4 /\ timer \in 0..MaxJob
  BY OrderFacts, LimitFacts, Sizes DEF TypeOK
<1>2. PICK m \in 0..3 : tick.pos = m + 1
  BY <1>1
<1>3. Budget(m) \in Nat /\ Budget(m) + MaxJob = Budget(m + 1) /\ Budget(m + 1) \in Nat
  BY <1>2, BudgetFacts
<1>4. Budget(m + 1) <= Budget(4) /\ Budget(4) \in Nat
  BY <1>2, BudgetFacts
<1>5. tick.pos - 1 = m
  BY <1>2
<1>6. QED
  BY <1>1, <1>2, <1>3, <1>4, <1>5, Sizes

LEMMA BeatsStep == TypeOK /\ TypeOK' /\ Beats /\ [Next]_vars => Beats'
<1> SUFFICES ASSUME TypeOK, TypeOK', Beats, [Next]_vars
             PROVE  Beats'
  OBVIOUS
<1>0. /\ tick \in Ticks /\ tick.pos \in 1..5 /\ timer \in 0..Cap /\ beat \in 0..Cap
      /\ timer' \in 0..Cap /\ beat' \in 0..Cap
  BY OrderFacts DEF TypeOK, Ticks
<1>1. ASSUME Pass, ~UNCHANGED <<timer, beat, rest>>
      PROVE  Beats'
  <2>1. Budget(tick.pos - 1)' = Budget(tick.pos - 1)
    BY <1>1, PassFacts DEF Budget
  <2>2. timer' = timer + 1 /\ at' = at /\ beat' <= beat + 1 /\ at # "ended"
    BY <1>1, PassFacts
  <2>3. Budget(tick.pos - 1) \in Nat /\ Budget(4) \in Nat
    <3>1. PICK m \in 0..4 : m = tick.pos - 1
      BY <1>0
    <3>2. QED
      BY <3>1, BudgetFacts
  <2>4. at # "jobs"
    BY <1>1, PassFacts
  <2>5. QED
    BY <1>0, <2>1, <2>2, <2>3, <2>4, Sizes DEF Beats
<1>13. CASE Pass /\ UNCHANGED <<timer, beat, rest>>
  BY <1>13, PassFacts, BeatsFrame
<1>2. CASE Wake
  <2>1. at' = "probe" /\ timer' = 0 /\ beat' = beat
    BY <1>2, Zenon DEF Wake, Goto
  <2>2. (at = "stagger" /\ timer = Offset) \/ (at = "wait" /\ timer = Beat)
    BY <1>2, LimitFacts DEF Wake
  <2>3. QED
    BY <1>0, <2>1, <2>2, Sizes, BudgetFacts DEF Beats
<1>3. ASSUME NEW answered \in BOOLEAN, Probe(answered)
      PROVE  Beats'
  <2>1. at' = "report" /\ timer' = 0 /\ beat' = beat
    BY <1>3, Zenon DEF Probe, Goto
  <2>2. at = "probe" /\ timer <= MaxProbe
    BY <1>3, LimitFacts DEF Probe, TypeOK
  <2>3. QED
    BY <1>0, <2>1, <2>2, Sizes, BudgetFacts DEF Beats
<1>4. CASE Report
  <2>1. beat' = 0 /\ at' \in {"jobs", "wait"}
    BY <1>4 DEF Report, Goto
  <2>2. PICK m \in 0..4 : m = (tick.pos - 1)'
    BY OrderFacts DEF TypeOK
  <2>3. Budget(m) \in Nat /\ Budget(4) \in Nat
    BY BudgetFacts
  <2>4. Budget(tick.pos - 1)' = Budget(m)
    BY <2>2
  <2>5. QED
    BY <1>0, <2>1, <2>3, <2>4 DEF Beats
<1>5. ASSUME NEW i \in 1..Len(Order), Start(i)
      PROVE  Beats'
  <2>1. at' = "work" /\ timer' = 0 /\ beat' = beat /\ tick' = [tick EXCEPT !.pos = i]
    BY <1>5, Zenon DEF Start, Goto
  <2>2. i \in 1..5 /\ at = "jobs" /\ i >= tick.pos
    BY <1>0, <1>5, OrderFacts DEF Start
  <2>3. tick'.pos = i
    BY <1>0, <2>1, <2>2, TickFacts
  <2>4. PICK m \in 0..4, n \in 0..4 : m = tick.pos - 1 /\ n = i - 1
    BY <1>0, <2>2
  <2>5. Budget(m) <= Budget(n) /\ Budget(m) \in Nat /\ Budget(n) \in Nat
    <3>1. m <= n
      BY <1>0, <2>2, <2>4
    <3>2. QED
      BY <3>1, BudgetFacts
  <2>6. Budget(tick.pos - 1)' = Budget(n)
    BY <2>3, <2>4
  <2>7. beat <= Budget(m)
    BY <2>2, <2>4 DEF Beats
  <2>8. QED
    BY <1>0, <2>1, <2>5, <2>6, <2>7 DEF Beats
<1>6. CASE Succeed
  <2>1. at' = "post" /\ timer' = timer /\ beat' = beat /\ at = "work"
    BY <1>6, Zenon DEF Succeed
  <2>2. Budget(tick.pos - 1)' = Budget(tick.pos - 1)
    BY <1>6, SucceedFacts DEF Budget
  <2>3. QED
    BY <2>1, <2>2 DEF Beats
<1>7. CASE Posted \/ Fail
  <2>1. tick' = [tick EXCEPT !.pos = tick.pos + 1] /\ at' = "jobs" /\ beat' = beat
    BY <1>7, Zenon DEF Posted, Fail, Goto
  <2>2. at \in {"work", "post"}
    BY <1>7 DEF Posted, Fail
  <2>3. PICK n \in 1..5 : n = tick.pos + 1
    BY <2>2, JobOver
  <2>4. tick'.pos = n
    BY <1>0, <2>1, <2>3, TickFacts
  <2>5. Budget(tick.pos - 1)' = Budget(tick.pos)
    <3>1. (tick.pos - 1)' = tick.pos
      BY <1>0, <2>3, <2>4
    <3>2. QED
      BY <3>1 DEF Budget
  <2>6. beat <= Budget(tick.pos)
    BY <1>0, <2>2, JobOver DEF Beats
  <2>7. QED
    BY <2>1, <2>5, <2>6 DEF Beats
<1>8. CASE EndTick
  <2>1. at' = "wait" /\ timer' = 0 /\ beat' = beat /\ at = "jobs"
    BY <1>8, Zenon DEF EndTick, Goto
  <2>2. PICK m \in 0..4 : m = tick.pos - 1
    BY <1>0
  <2>3. Budget(m) <= Budget(4) /\ Budget(m) \in Nat /\ Budget(4) \in Nat
    BY BudgetFacts
  <2>4. QED
    BY <1>0, <2>1, <2>2, <2>3 DEF Beats
<1>9. CASE Raise
  <2>1. at' = "wait" /\ timer' = 0 /\ at \in {"probe", "report", "work", "post"}
    BY <1>9, Zenon DEF Raise, Goto
  <2>2. CASE at \in {"work", "post"}
    <3>1. beat' = beat
      BY <1>9, <2>2 DEF Raise
    <3>2. beat <= Budget(4)
      BY <1>0, <2>2, JobOver DEF Beats
    <3>3. QED
      BY <1>0, <2>1, <3>1, <3>2, BudgetFacts DEF Beats
  <2>3. CASE at \in {"probe", "report"}
    <3>1. beat' = 0
      BY <1>9, <2>3 DEF Raise
    <3>2. QED
      BY <1>0, <2>1, <3>1, BudgetFacts DEF Beats
  <2>4. QED
    BY <2>1, <2>2, <2>3
<1>10. CASE CommandThread \/ UNCHANGED vars
  BY <1>10, BeatsFrame, CommandFrame
<1>11. CASE Exit \/ Restart
  BY <1>11 DEF Exit, Restart, Forget, Beats
<1>12. QED
  BY <1>1, <1>2, <1>3, <1>4, <1>5, <1>6, <1>7, <1>8, <1>9, <1>10, <1>11, <1>13, Zenon
     DEF Next, Loop

LEMMA BeatsInTime == TypeOK /\ Beats => HeartbeatInTime
<1> SUFFICES ASSUME TypeOK, Beats
             PROVE  HeartbeatInTime
  OBVIOUS
<1>1. /\ at \in {"wait", "stagger", "probe", "report", "jobs", "work", "post", "ended"}
      /\ timer \in 0..Cap /\ beat \in 0..Cap /\ tick.pos \in 1..5
      /\ at # "ended" => timer <= Limit[at]
  BY LimitFacts, OrderFacts DEF TypeOK
<1>2. Period = MaxProbe + MaxReport + Budget(4) + Beat
  BY BudgetFacts, Sizes
<1>3. CASE at \in {"work", "post"}
  BY <1>1, <1>2, <1>3, JobOver, Sizes DEF Beats, HeartbeatInTime
<1>4. CASE at = "jobs"
  <2>1. PICK m \in 0..4 : m = tick.pos - 1
    BY <1>1
  <2>2. Budget(m) <= Budget(4) /\ Budget(m) \in Nat /\ Budget(4) \in Nat
    BY BudgetFacts
  <2>3. QED
    BY <1>1, <1>2, <1>4, <2>1, <2>2, Sizes DEF Beats, HeartbeatInTime
<1>5. CASE at \in {"wait", "stagger", "probe", "report", "ended"}
  BY <1>1, <1>2, <1>5, LimitFacts, Sizes, BudgetFacts DEF Beats, HeartbeatInTime
<1>6. QED
  BY <1>1, <1>3, <1>4, <1>5

\* However many jobs are due, slow or failing, the heartbeat is sent in time: what
\* lies between two of them is one wait, one probe, one report and one run of each
\* job, each counted for as much as it is allowed.
THEOREM HeartbeatMeetsThreshold == Spec => []HeartbeatInTime
BY TypeInit, TypeStep, BeatsInit, BeatsStep, BeatsInTime, PTL DEF Spec

-----------------------------------------------------------------------------
(* No job starves                                                          *)

\* Since the end of the probe, at most.
Spent == MaxReport + Budget(tick.pos - 1) + timer

InJobs == at \in {"jobs", "work", "post"}

LEMMA SpentNat == (TypeOK => Spent \in Nat) /\ (TypeOK' => Spent' \in Nat)
<1>1. \A m \in 1..5, t \in Nat : MaxReport + Budget(m - 1) + t \in Nat
  <2> TAKE m \in 1..5, t \in Nat
  <2>1. m - 1 \in 0..4
    OBVIOUS
  <2>2. Budget(m - 1) \in Nat
    BY <2>1, BudgetFacts
  <2>3. QED
    BY <2>2, Sizes
<1>2. TypeOK => tick.pos \in 1..5 /\ timer \in Nat
  BY OrderFacts, Sizes DEF TypeOK
<1>3. TypeOK' => tick'.pos \in 1..5 /\ timer' \in Nat
  BY OrderFacts, Sizes DEF TypeOK
<1>4. QED
  BY <1>1, <1>2, <1>3 DEF Spent

LEMMA SpentFacts ==
    TypeOK /\ InJobs => /\ Spent \in Nat /\ Spent <= MaxReport + Budget(4)
                        /\ Budget(4) \in Nat
<1> SUFFICES ASSUME TypeOK, InJobs
             PROVE  /\ Spent \in Nat /\ Spent <= MaxReport + Budget(4)
                    /\ Budget(4) \in Nat
  OBVIOUS
<1>1. CASE at = "jobs"
  <2>1. timer = 0
    BY <1>1, LimitFacts, Sizes DEF TypeOK
  <2>2. PICK m \in 0..4 : m = tick.pos - 1
    BY OrderFacts DEF TypeOK
  <2>3. Budget(m) \in Nat /\ Budget(4) \in Nat /\ Budget(m) <= Budget(4)
    BY BudgetFacts
  <2>4. QED
    BY <2>1, <2>2, <2>3, Sizes DEF Spent
<1>2. CASE at \in {"work", "post"}
  BY <1>2, JobOver, Sizes DEF Spent
<1>3. QED
  BY <1>1, <1>2 DEF InJobs

\* A tick that has not reported has looked at no job.
Unlooked == at \in {"probe", "report"} => tick.pos = 1

\* A job was tried when its timestamp was written, as far as its age tells.
Tried == \A k \in On : age[k] = Never \/ age[k] >= Interval[k] \/ rest[k] <= age[k]

\* The i-th job was looked at in this tick.
Seen(i) == i < tick.pos \/ (at = "post" /\ i = tick.pos)

\* How long ago the i-th job may have been tried, at each place of the loop.
Rested(i) ==
    LET k == Order[i] IN
    /\ at = "stagger" => rest[k] <= timer
    /\ at = "wait" => rest[k] <= Interval[k] + MaxReport + Budget(4) + timer
    /\ at = "probe" => \/ rest[k] <= Interval[k] + MaxReport + Budget(4) + Beat + timer
                       \/ rest[k] <= Offset + timer
    /\ at = "report" => /\ \/ rest[k] <= Interval[k] + Period + timer
                           \/ rest[k] <= Offset + MaxProbe + timer
                        /\ ~tick.ok => rest[k] <= timer
                        /\ k \notin tick.due => rest[k] <= Interval[k] + timer
    /\ InJobs => \/ rest[k] <= Interval[k] + Period + Spent
                 \/ rest[k] <= Offset + MaxProbe + Spent
    /\ InJobs /\ (Seen(i) \/ k \notin tick.due) => rest[k] <= Interval[k] + Spent
    /\ at = "ended" => rest[k] = 0

Rests == \A i \in 1..4 : Order[i] \in On => Rested(i)

CadenceInv == Unlooked /\ Tried /\ Rests

LEMMA CadenceInit == Init => CadenceInv
BY DEF Init, CadenceInv, Unlooked, Tried, Rests, Rested, InJobs

\* A job tried since, and a place not left, keep the bound.
LEMMA RestedFrame ==
    ASSUME TypeOK, TypeOK', NEW i \in 1..4, Order[i] \in On, Rested(i),
           UNCHANGED <<at, timer>>, tick'.pos = tick.pos, tick'.ok = tick.ok,
           rest'[Order[i]] = rest[Order[i]] \/ rest'[Order[i]] = 0,
           Order[i] \in tick.due \ tick'.due => rest'[Order[i]] = 0
    PROVE  Rested(i)'
<1>1. /\ rest[Order[i]] \in 0..Cap /\ rest'[Order[i]] \in 0..Cap /\ timer \in 0..Cap
      /\ Interval[Order[i]] \in Nat
  BY Sizes DEF TypeOK
<1>2. Spent' = Spent /\ InJobs' = InJobs /\ Seen(i)' = Seen(i)
  BY DEF Spent, InJobs, Seen, Budget
<1>3. InJobs => Spent \in Nat
  BY SpentFacts
<1>4. CASE rest'[Order[i]] = 0
  BY <1>1, <1>2, <1>3, <1>4, Sizes, BudgetFacts DEF Rested
<1>5. CASE rest'[Order[i]] = rest[Order[i]] /\ rest'[Order[i]] # 0
  <2>1. Order[i] \notin tick'.due => Order[i] \notin tick.due
    BY <1>5
  <2>2. QED
    BY <1>1, <1>2, <1>3, <1>5, <2>1, Sizes, BudgetFacts DEF Rested
<1>6. QED
  BY <1>4, <1>5

\* Between the report and the end of a tick every step keeps or raises Spent.
LEMMA SpentSteps ==
    ASSUME TypeOK, TypeOK', InJobs, InJobs'
    PROVE  /\ Pass => Spent' = Spent + (timer' - timer)
           /\ Posted \/ Fail => Spent' >= Spent
           /\ Succeed => Spent' = Spent
           /\ \A i \in 1..Len(Order) : Start(i) => Spent' >= Spent /\ tick'.pos = i
<1>0. tick \in Ticks /\ tick.pos \in 1..5 /\ timer \in 0..Cap
  BY OrderFacts DEF TypeOK, Ticks
<1>1. ASSUME Pass PROVE Spent' = Spent + (timer' - timer)
  <2>1. tick'.pos = tick.pos /\ timer' \in 0..Cap
    BY <1>1, PassFacts DEF TypeOK
  <2>2. PICK m \in 0..4 : m = tick.pos - 1
    BY <1>0
  <2>3. Spent = MaxReport + Budget(m) + timer /\ Spent' = MaxReport + Budget(m) + timer'
    BY <2>1, <2>2 DEF Spent
  <2>4. Budget(m) \in Nat
    BY BudgetFacts
  <2>5. QED
    BY <1>0, <2>1, <2>3, <2>4, Sizes
<1>2. ASSUME Posted \/ Fail PROVE Spent' >= Spent
  <2>1. tick' = [tick EXCEPT !.pos = tick.pos + 1] /\ timer' = 0
    BY <1>2, Zenon DEF Posted, Fail, Goto
  <2>2. at \in {"work", "post"}
    BY <1>2 DEF Posted, Fail
  <2>3. PICK n \in 1..5 : n = tick.pos + 1
    BY <2>2, JobOver
  <2>4. tick'.pos = n
    BY <1>0, <2>1, <2>3, TickFacts
  <2>5. (tick.pos - 1)' = tick.pos
    BY <1>0, <2>3, <2>4
  <2>6. Spent' = MaxReport + Budget(tick.pos) + 0
    BY <2>1, <2>5 DEF Spent
  <2>7. QED
    BY <2>2, <2>6, JobOver, Sizes DEF Spent
<1>3. ASSUME Succeed PROVE Spent' = Spent
  <2>1. timer' = timer
    BY <1>3, Zenon DEF Succeed
  <2>2. QED
    BY <1>3, <2>1, SucceedFacts DEF Spent, Budget
<1>4. ASSUME NEW i \in 1..Len(Order), Start(i)
      PROVE  Spent' >= Spent /\ tick'.pos = i
  <2>1. timer' = 0 /\ tick' = [tick EXCEPT !.pos = i]
    BY <1>4, Zenon DEF Start, Goto
  <2>2. i \in 1..5 /\ at = "jobs" /\ i >= tick.pos
    BY <1>0, <1>4, OrderFacts DEF Start
  <2>3. tick'.pos = i
    BY <1>0, <2>1, <2>2, TickFacts
  <2>4. timer = 0
    BY <2>2, LimitFacts, Sizes DEF TypeOK
  <2>5. PICK m \in 0..4, n \in 0..4 : m = tick.pos - 1 /\ n = i - 1
    BY <1>0, <2>2
  <2>6. m <= n
    BY <1>0, <2>2, <2>5
  <2>7. Budget(m) <= Budget(n) /\ Budget(m) \in Nat /\ Budget(n) \in Nat
    BY <2>6, BudgetFacts
  <2>8. Spent = MaxReport + Budget(m) + 0 /\ Spent' = MaxReport + Budget(n) + 0
    BY <2>1, <2>3, <2>4, <2>5 DEF Spent
  <2>9. QED
    BY <2>3, <2>7, <2>8, Sizes
<1>5. QED
  BY <1>1, <1>2, <1>3, <1>4

\* What a due check that found nothing says of the job.
LEMMA NotDue ==
    ASSUME InJobs, NEW i \in 1..4, Rested(i), ~Due(Order[i])
    PROVE  rest[Order[i]] <= Interval[Order[i]] + Spent
BY DEF Due, Rested

LEMMA TriedStep == TypeOK /\ TypeOK' /\ Tried /\ [Next]_vars => Tried'
<1> SUFFICES ASSUME TypeOK, TypeOK', Tried, [Next]_vars, NEW k \in On
             PROVE  (age[k] = Never \/ age[k] >= Interval[k] \/ rest[k] <= age[k])'
  BY DEF Tried
<1>0. /\ age \in [On -> -1..Cap] /\ rest \in [On -> 0..Cap]
      /\ age[k] \in -1..Cap /\ rest[k] \in 0..Cap /\ rest'[k] \in 0..Cap /\ age'[k] \in -1..Cap
      /\ age[k] = Never \/ age[k] >= Interval[k] \/ rest[k] <= age[k]
      /\ Interval[k] \in Nat /\ Cap \in Nat
  BY Sizes DEF TypeOK, Tried
<1>1. CASE Pass
  <2>1. age'[k] = Aged(k, age[k]) /\ rest'[k] <= rest[k] + 1
    <3>1. rest'[k] = rest[k] \/ rest'[k] <= rest[k] + 1
      BY <1>1, PassFacts
    <3>2. QED
      BY <1>0, <1>1, <3>1 DEF Pass
  <2>2. CASE age[k] = Never
    BY <1>0, <2>1, <2>2, AgedFacts
  <2>3. CASE age[k] # Never /\ age[k] >= Interval[k]
    <3>1. age[k] \in 0..Cap
      BY <1>0, <2>3 DEF Never
    <3>2. age'[k] = age[k]
      BY <2>1, <2>3, <3>1, AgedFacts
    <3>3. QED
      BY <2>3, <3>2
  <2>4. CASE age[k] # Never /\ ~(age[k] >= Interval[k])
    <3>1. age[k] \in 0..Cap /\ age[k] < Interval[k]
      BY <1>0, <2>4 DEF Never
    <3>2. age'[k] = age[k] + 1
      BY <2>1, <3>1, AgedFacts
    <3>3. QED
      BY <1>0, <2>1, <2>4, <3>1, <3>2
  <2>5. QED
    BY <2>2, <2>3, <2>4
<1>2. CASE Succeed
  <2>1. rest' = [rest EXCEPT ![Order[tick.pos]] = 0] /\ age' = [age EXCEPT ![Order[tick.pos]] = 0]
    BY <1>2, Zenon DEF Succeed
  <2>2. QED
    BY <1>0, <2>1
<1>3. CASE Stamp
  <2>1. /\ age' = [j \in On |-> IF j \in Stamps(cmd.kind) THEN 0 ELSE age[j]]
        /\ PutOff(Stamps(cmd.kind))
    BY <1>3, Zenon DEF Stamp
  <2>2. QED
    BY <1>0, <2>1, PutOffFacts
<1>4. CASE Fail
  <2>1. age' = age /\ rest' = [rest EXCEPT ![Order[tick.pos]] = 0]
    BY <1>4, Zenon DEF Fail
  <2>2. QED
    BY <1>0, <2>1
<1>5. CASE Raise \/ \E answered \in BOOLEAN : Probe(answered)
  <2>1. age' = age /\ \E S : PutOff(S)
    BY <1>5, Zenon DEF Raise, Probe
  <2>2. rest'[k] = rest[k] \/ rest'[k] = 0
    BY <2>1, PutOffFacts
  <2>3. QED
    BY <1>0, <2>1, <2>2
<1>6. CASE \/ Wake \/ Report \/ Posted \/ EndTick \/ Work \/ Refuse \/ UNCHANGED vars
           \/ \E c \in Commands : Take(c)
           \/ \E i \in 1..Len(Order) : Start(i)
  <2>1. age' = age /\ rest' = rest
    BY <1>6, Zenon DEF Wake, Report, Posted, EndTick, Work, Refuse, Take, Start, vars
  <2>2. QED
    BY <1>0, <2>1
<1>7. CASE Exit \/ Restart
  BY <1>7 DEF Exit, Restart, Forget
<1>8. QED
  BY <1>1, <1>2, <1>3, <1>4, <1>5, <1>6, <1>7, Zenon DEF Next, Loop, CommandThread

LEMMA UnlookedStep == TypeOK /\ Unlooked /\ [Next]_vars => Unlooked'
<1> SUFFICES ASSUME TypeOK, Unlooked, [Next]_vars
             PROVE  Unlooked'
  OBVIOUS
<1>1. CASE Pass
  BY <1>1, PassFacts DEF Unlooked
<1>2. CASE \/ Report \/ Posted \/ Fail \/ EndTick \/ Raise \/ Exit \/ Restart \/ Succeed
           \/ \E i \in 1..Len(Order) : Start(i)
  <2>1. at' \in {"jobs", "wait", "work", "post", "ended", "stagger"}
    BY <1>2, Zenon DEF Report, Posted, Fail, EndTick, Raise, Exit, Restart, Succeed, Start, Goto
  <2>2. QED
    BY <2>1 DEF Unlooked
<1>3. CASE Wake \/ \E answered \in BOOLEAN : Probe(answered)
  <2>1. \/ tick' = Blank
        \/ \E answered \in BOOLEAN : tick' = [ok |-> answered, due |-> Overdue, pos |-> 1]
    BY <1>3, Zenon DEF Wake, Probe, Goto
  <2>2. QED
    BY <2>1, TickFacts DEF Unlooked
<1>4. CASE CommandThread \/ UNCHANGED vars
  BY <1>4, CommandFrame DEF Unlooked
<1>5. QED
  BY <1>1, <1>2, <1>3, <1>4, Zenon DEF Next, Loop

LEMMA RestsStep == TypeOK /\ TypeOK' /\ CadenceInv /\ [Next]_vars => Rests'
<1> SUFFICES ASSUME TypeOK, TypeOK', CadenceInv, [Next]_vars,
                    NEW i \in 1..4, Order[i] \in On
             PROVE  Rested(i)'
  BY DEF Rests
<1> DEFINE k == Order[i]
<1>0. /\ rest \in [On -> 0..Cap] /\ rest[k] \in 0..Cap /\ rest'[k] \in 0..Cap
      /\ timer \in 0..Cap /\ timer' \in 0..Cap /\ tick \in Ticks
      /\ Interval[k] \in Nat /\ Budget(4) \in Nat /\ Spent \in Nat /\ Spent' \in Nat
  BY OrderFacts, Sizes, BudgetFacts, SpentNat DEF TypeOK, Ticks
<1>r. Rested(i)
  BY DEF CadenceInv, Rests
<1>1. ASSUME Pass, ~UNCHANGED <<timer, beat, rest>>
      PROVE  Rested(i)'
  <2>1. /\ timer' = timer + 1 /\ at' = at /\ rest'[k] <= rest[k] + 1 /\ at # "ended"
        /\ tick' = tick
    BY <1>1, PassFacts
  <2>2. InJobs' = InJobs /\ Seen(i)' = Seen(i)
    BY <2>1 DEF InJobs, Seen
  <2>3. InJobs => Spent' = Spent + 1
    BY <1>0, <1>1, <2>1, <2>2, SpentSteps
  <2>4. QED
    BY <1>0, <1>r, <2>1, <2>2, <2>3, Sizes DEF Rested
<1>13. CASE Pass /\ UNCHANGED <<timer, beat, rest>>
  BY <1>r, <1>13, PassFacts, RestedFrame
<1>2. CASE Wake
  <2>1. at' = "probe" /\ timer' = 0 /\ rest' = rest
    BY <1>2, Zenon DEF Wake, Goto
  <2>2. (at = "stagger" /\ timer = Offset) \/ (at = "wait" /\ timer = Beat)
    BY <1>2, LimitFacts DEF Wake
  <2>3. QED
    BY <1>0, <1>r, <2>1, <2>2, Sizes DEF Rested, InJobs
<1>3. ASSUME NEW answered \in BOOLEAN, Probe(answered)
      PROVE  Rested(i)'
  <2>1. /\ at' = "report" /\ timer' = 0
        /\ tick' = [ok |-> answered, due |-> Overdue, pos |-> 1]
    BY <1>3, Zenon DEF Probe, Goto
  <2>2. at = "probe" /\ timer <= MaxProbe /\ tick'.ok = answered /\ tick'.due = Overdue
    BY <1>3, <2>1, LimitFacts DEF Probe, TypeOK
  <2>3. PutOff(IF answered THEN {} ELSE On)
    BY <1>3, Zenon DEF Probe
  <2>4. Period = MaxProbe + MaxReport + Budget(4) + Beat
    BY BudgetFacts, Sizes
  <2>5. CASE answered
    <3>1. rest'[k] = rest[k]
      BY <2>3, <2>5, PutOffFacts
    <3>2. k \notin Overdue => rest[k] <= Interval[k]
      <4>1. age[k] \in -1..Cap /\ Cap \in Nat
        BY Sizes DEF TypeOK
      <4>2. QED
        BY <1>0, <4>1 DEF Overdue, CadenceInv, Tried
    <3>3. QED
      BY <1>0, <1>r, <2>1, <2>2, <2>4, <2>5, <3>1, <3>2, Sizes DEF Rested, InJobs
  <2>6. CASE ~answered
    <3>1. rest'[k] = 0
      BY <2>3, <2>6, PutOffFacts
    <3>2. QED
      BY <1>0, <2>1, <2>4, <3>1, Sizes DEF Rested, InJobs
  <2>7. QED
    BY <2>5, <2>6
<1>4. CASE Report
  <2>1. at = "report" /\ timer <= MaxReport /\ rest' = rest /\ timer' = 0
    BY <1>4, LimitFacts DEF Report, TypeOK, Goto
  <2>2. CASE tick.ok
    <3>1. at' = "jobs" /\ tick' = tick
      BY <1>4, <2>2 DEF Report, Goto
    <3>2. InJobs' /\ Spent' >= MaxReport
      <4>1. PICK m \in 0..4 : m = (tick.pos - 1)'
        BY OrderFacts DEF TypeOK
      <4>2. Spent' = MaxReport + Budget(m) + timer' /\ Budget(m) \in Nat
        BY <4>1, BudgetFacts DEF Spent
      <4>3. QED
        BY <1>0, <3>1, <4>2, Sizes DEF InJobs
    <3>3. ~Seen(i)'
      BY <2>1, <3>1 DEF Seen, CadenceInv, Unlooked
    <3>4. QED
      BY <1>0, <1>r, <2>1, <3>1, <3>2, <3>3, Sizes DEF Rested
  <2>3. CASE ~tick.ok
    <3>1. at' = "wait"
      BY <1>4, <2>3 DEF Report, Goto
    <3>2. QED
      BY <1>0, <1>r, <2>1, <2>3, <3>1, Sizes DEF Rested, InJobs
  <2>4. QED
    BY <2>2, <2>3
<1>5. ASSUME NEW n \in 1..Len(Order), Start(n)
      PROVE  Rested(i)'
  <2>1. at = "jobs" /\ at' = "work" /\ rest' = rest
    BY <1>5, Zenon DEF Start, Goto
  <2>8. tick'.due = tick.due
    <3>1. tick' = [tick EXCEPT !.pos = n]
      BY <1>5, Zenon DEF Start, Goto
    <3>2. QED
      BY <1>0, <3>1 DEF Ticks
  <2>2. InJobs /\ InJobs' /\ Spent' >= Spent /\ tick'.pos = n
    BY <1>5, <2>1, SpentSteps DEF InJobs
  <2>3. Seen(i)' => Seen(i) \/ ~Due(Order[i])
    BY <1>0, <1>5, <2>1, <2>2, OrderFacts DEF Seen, Start, Ticks
  <2>4. Seen(i)' \/ k \notin tick'.due => rest[k] <= Interval[k] + Spent
    BY <1>r, <2>2, <2>3, <2>8, NotDue DEF Rested
  <2>5. rest[k] <= Interval[k] + Period + Spent \/ rest[k] <= Offset + MaxProbe + Spent
    BY <1>r, <2>2 DEF Rested
  <2>6. /\ rest[k] <= Interval[k] + Period + Spent' \/ rest[k] <= Offset + MaxProbe + Spent'
        /\ Seen(i)' \/ k \notin tick'.due => rest[k] <= Interval[k] + Spent'
    <3>1. \A r, x, s, t \in Nat : s <= t /\ r <= x + s => r <= x + t
      OBVIOUS
    <3>2. /\ rest[k] \in Nat /\ Interval[k] \in Nat /\ Interval[k] + Period \in Nat
          /\ Offset + MaxProbe \in Nat
      <4>1. Period \in Nat /\ Offset + MaxProbe \in Nat /\ Cap \in Nat
        BY Sizes
      <4>2. rest[k] \in Nat /\ Interval[k] \in Nat
        BY <1>0, <4>1
      <4>3. QED
        BY <4>1, <4>2
    <3>3. Spent <= Spent' /\ Spent \in Nat /\ Spent' \in Nat
      BY <1>0, <2>2
    <3>4. QED
      BY <2>4, <2>5, <3>1, <3>2, <3>3
  <2>7. QED
    BY <2>1, <2>6 DEF Rested, InJobs
<1>6. CASE Succeed
  <2>1. /\ at = "work" /\ at' = "post"
        /\ rest' = [rest EXCEPT ![Order[tick.pos]] = 0]
    BY <1>6, Zenon DEF Succeed
  <2>2. InJobs /\ InJobs' /\ Spent' = Spent
    BY <1>6, <2>1, SpentSteps DEF InJobs
  <2>3. CASE i = tick.pos
    <3>1. rest'[k] = 0
      BY <1>0, <2>1, <2>3
    <3>2. QED
      BY <1>0, <2>1, <2>2, <3>1, Sizes DEF Rested
  <2>4. CASE i # tick.pos
    <3>1. Seen(i)' = Seen(i)
      BY <1>6, <2>1, <2>4, SucceedFacts DEF Seen
    <3>2. rest'[k] <= rest[k]
      BY <1>0, <2>1
    <3>4. k \notin tick'.due => k \notin tick.due \/ rest'[k] = 0
      BY <1>0, <1>6, <2>1, SucceedFacts
    <3>3. QED
      BY <1>0, <1>r, <2>1, <2>2, <3>1, <3>2, <3>4, Sizes DEF Rested
  <2>5. QED
    BY <2>3, <2>4
<1>7. CASE Posted \/ Fail
  <2>1. at \in {"work", "post"} /\ at' = "jobs" /\ tick' = [tick EXCEPT !.pos = tick.pos + 1]
    BY <1>7, Zenon DEF Posted, Fail, Goto
  <2>2. InJobs /\ InJobs' /\ Spent' >= Spent
    BY <1>7, <2>1, SpentSteps DEF InJobs
  <2>3. tick.pos \in 1..4 /\ tick'.pos = tick.pos + 1 /\ tick'.due = tick.due
    BY <1>0, <2>1, JobOver DEF Ticks
  <2>4. CASE Posted
    <3>1. at = "post" /\ rest' = rest
      BY <2>4, Zenon DEF Posted
    <3>2. Seen(i)' => Seen(i)
      BY <2>1, <2>3, <3>1 DEF Seen
    <3>3. QED
      BY <1>0, <1>r, <2>1, <2>2, <2>3, <3>1, <3>2, Sizes DEF Rested
  <2>5. CASE Fail
    <3>1. at = "work" /\ rest' = [rest EXCEPT ![Order[tick.pos]] = 0]
      BY <2>5, Zenon DEF Fail
    <3>2. CASE i = tick.pos
      <4>1. rest'[k] = 0
        BY <1>0, <3>1, <3>2
      <4>2. QED
        BY <1>0, <2>1, <2>2, <4>1, Sizes DEF Rested
    <3>3. CASE i # tick.pos
      <4>1. Seen(i)' => Seen(i)
        BY <2>1, <2>3, <3>3 DEF Seen
      <4>2. rest'[k] <= rest[k]
        BY <1>0, <3>1
      <4>3. QED
        BY <1>0, <1>r, <2>1, <2>2, <2>3, <4>1, <4>2, Sizes DEF Rested
    <3>4. QED
      BY <3>2, <3>3
  <2>6. QED
    BY <1>7, <2>4, <2>5
<1>8. CASE EndTick
  <2>1. at = "jobs" /\ at' = "wait" /\ timer' = 0 /\ rest' = rest
    BY <1>8, Zenon DEF EndTick, Goto
  <2>2. InJobs /\ Spent <= MaxReport + Budget(4)
    BY <2>1, SpentFacts DEF InJobs
  <2>3. Seen(i) \/ ~Due(Order[i])
    <3>1. \A j \in tick.pos..4 : ~Due(Order[j])
      BY <1>8, OrderFacts DEF EndTick
    <3>2. i < tick.pos \/ i \in tick.pos..4
      BY <1>0 DEF Ticks
    <3>3. QED
      BY <3>1, <3>2 DEF Seen
  <2>4. rest[k] <= Interval[k] + Spent
    BY <1>r, <2>2, <2>3, NotDue DEF Rested
  <2>5. QED
    BY <1>0, <2>1, <2>2, <2>4, Sizes DEF Rested, InJobs
<1>9. CASE Raise
  <2>1. /\ at' = "wait" /\ timer' = 0 /\ PutOff(Missed)
        /\ at \in {"probe", "report", "work", "post"}
    BY <1>9, Zenon DEF Raise, Goto
  <2>2. CASE k \in Missed
    <3>1. rest'[k] = 0
      BY <2>1, <2>2, PutOffFacts
    <3>2. QED
      BY <1>0, <2>1, <3>1, Sizes DEF Rested, InJobs
  <2>3. CASE k \notin Missed
    <3>1. rest'[k] = rest[k]
      BY <2>1, <2>3, PutOffFacts
    <3>2. \A first \in 1..5 : i \in first..4 => k \in {Order[j] : j \in first..4}
      OBVIOUS
    <3>3. CASE at \in {"probe", "report"}
      <4>1. tick.pos = 1
        BY <3>3 DEF CadenceInv, Unlooked
      <4>2. k \in Missed
        BY <3>2, <3>3, <4>1, OrderFacts DEF Missed
      <4>3. QED
        BY <2>3, <4>2
    <3>4. CASE at \in {"work", "post"}
      <4>1. tick.pos \in 1..4
        BY <3>4, JobOver
      <4>2. Seen(i)
        <5>1. CASE at = "post"
          BY <2>3, <3>2, <4>1, <5>1, OrderFacts DEF Missed, Seen
        <5>2. CASE at = "work"
          BY <2>3, <3>2, <4>1, <5>2, OrderFacts DEF Missed, Seen
        <5>3. QED
          BY <3>4, <5>1, <5>2
      <4>3. InJobs /\ Spent <= MaxReport + Budget(4)
        BY <3>4, SpentFacts DEF InJobs
      <4>4. rest[k] <= Interval[k] + Spent
        BY <1>r, <4>2, <4>3 DEF Rested
      <4>5. QED
        BY <1>0, <2>1, <3>1, <4>3, <4>4, Sizes DEF Rested, InJobs
    <3>5. QED
      BY <2>1, <3>3, <3>4
  <2>4. QED
    BY <2>2, <2>3
<1>10. CASE CommandThread \/ UNCHANGED vars
  BY <1>r, <1>10, CommandFrame, RestedFrame
<1>11. CASE Exit \/ Restart
  <2>1. at' \in {"stagger", "ended"} /\ rest' = [j \in On |-> 0]
    BY <1>11, Zenon DEF Exit, Restart, Forget
  <2>2. rest'[k] = 0
    BY <2>1
  <2>3. QED
    BY <1>0, <2>1, <2>2 DEF Rested, InJobs
<1>12. QED
  BY <1>1, <1>2, <1>3, <1>4, <1>5, <1>6, <1>7, <1>8, <1>9, <1>10, <1>11, <1>13, Zenon
     DEF Next, Loop

LEMMA CadenceStep == TypeOK /\ TypeOK' /\ CadenceInv /\ [Next]_vars => CadenceInv'
BY TriedStep, UnlookedStep, RestsStep DEF CadenceInv

LEMMA CadenceSuffices == TypeOK /\ CadenceInv => OnCadence
<1> SUFFICES ASSUME TypeOK, CadenceInv, NEW k \in On
             PROVE  \/ rest[k] <= Interval[k] + Period + Tick
                    \/ rest[k] <= Offset + Tick
  BY DEF OnCadence
<1>1. PICK i \in 1..4 : Order[i] = k
  BY OrderFacts, Sizes
<1>2. /\ rest[k] \in 0..Cap /\ Interval[k] \in Nat /\ timer \in 0..Cap /\ Budget(4) \in Nat
      /\ at \in {"wait", "stagger", "probe", "report", "jobs", "work", "post", "ended"}
      /\ at # "ended" => timer <= Limit[at]
  BY Sizes, LimitFacts, BudgetFacts DEF TypeOK
<1>3. Tick = MaxProbe + MaxReport + Budget(4) /\ Period = Tick + Beat
  BY BudgetFacts, Sizes
<1>4. Rested(i)
  BY <1>1 DEF CadenceInv, Rests
<1>5. CASE InJobs
  <2>1. Spent \in Nat /\ Spent <= MaxReport + Budget(4)
    BY <1>5, SpentFacts
  <2>2. QED
    BY <1>1, <1>2, <1>3, <1>4, <1>5, <2>1, Sizes DEF Rested
<1>6. CASE ~InJobs
  BY <1>1, <1>2, <1>3, <1>4, <1>6, LimitFacts, Sizes DEF Rested, InJobs
<1>7. QED
  BY <1>5, <1>6

\* Every job that is not put off is tried within its interval and two ticks, however
\* slow or failing the others are, each counted for as much as it is allowed.
THEOREM NoJobStarves == Spec => []OnCadence
BY TypeInit, TypeStep, CadenceInit, CadenceStep, CadenceSuffices, PTL DEF Spec
=============================================================================
