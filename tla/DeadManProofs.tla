--------------------------- MODULE DeadManProofs ---------------------------
(***************************************************************************)
(* Type correctness and the safety of the dead-man switch, for every set   *)
(* of devices, requests and sweeps, every threshold and every fault bound. *)
(***************************************************************************)
EXTENDS DeadMan, TLAPS

-----------------------------------------------------------------------------
(* Type correctness                                                        *)

\* A request or sweep that is not in flight is well typed.
LEMMA IdleTyped == IdleBeat \in Beat /\ IdleSweep \in Sweep
  BY ConstantsAssumption DEF IdleBeat, IdleSweep, Beat, Sweep, Null, Statuses

\* A row a sweep has dealt with leaves its list; a sweep with nothing left ends.
LEMMA PassedTyped ==
  ASSUME NEW s \in Sweep, NEW i \in Ids, NEW l \in SUBSET Ids
  PROVE  /\ Passed(s, i, l) \in Sweep
         /\ \/ Passed(s, i, l) = IdleSweep /\ l = {}
            \/ /\ Passed(s, i, l).todo = s.todo \ {i}
               /\ Passed(s, i, l).lost = l
               /\ Passed(s, i, l).snap = s.snap
  BY IdleTyped DEF Passed, Sweep

\* The first state is well typed.
LEMMA TypeInit == Init => TypeOK
  BY IdleTyped, ConstantsAssumption
     DEF Init, TypeOK, Time, Null, Statuses, IdleBeat, IdleSweep

\* A new row keeps names unique as long as its name was free.
LEMMA NewRowTyped ==
  ASSUME TypeOK, NEW i \in Ids, NEW n \in Names, NEW l \in Limits,
         ~Taken(n), NewRow(i, n, l)
  PROVE  /\ live' \subseteq Ids
         /\ nameOf' \in [Ids -> Names \cup {NoName}]
         /\ status' \in [Ids -> Statuses]
         /\ seen' \in [Ids -> 0..MaxTime]
         /\ limit' \in [Ids -> Limits]
         /\ flipped' \subseteq Ids
         /\ \A j \in live' : nameOf'[j] # NoName
         /\ \A j, k \in live' : nameOf'[j] = nameOf'[k] => j = k
<1>1. i \notin live
  BY DEF TypeOK, NewRow
<1>2. \A j \in live : nameOf'[j] = nameOf[j] /\ nameOf[j] # n
  BY <1>1 DEF TypeOK, NewRow, Taken
<1>3. nameOf'[i] = n /\ n # NoName
  BY ConstantsAssumption DEF TypeOK, NewRow
<1>4. QED
  BY <1>1, <1>2, <1>3, ConstantsAssumption DEF TypeOK, NewRow, Statuses, Null

\* Every action keeps the types and the uniqueness of names.
LEMMA TypeStep == TypeOK /\ [Next]_vars => TypeOK'
<1> SUFFICES ASSUME TypeOK, [Next]_vars
             PROVE  TypeOK'
  OBVIOUS
<1> USE IdleTyped
<1>1. CASE Tick
  BY <1>1, ConstantsAssumption DEF Tick, TypeOK, row, alerts, Time
<1>2. ASSUME NEW h \in Beats, NEW i \in Ids, NEW s \in Reported, HbFind(h, i, s)
      PROVE  TypeOK'
  BY <1>2, ConstantsAssumption DEF HbFind, TypeOK, row, alerts, Beat, Time
<1>3. ASSUME NEW h \in Beats, NEW n \in Names, NEW s \in Reported, HbMiss(h, n, s)
      PROVE  TypeOK'
  <2>1. [pc |-> "insert", id |-> NoId, name |-> n, status |-> s,
         prev |-> "unknown", at |-> clock] \in Beat
    BY ConstantsAssumption DEF TypeOK, Beat, Time, Statuses
  <2>2. QED
    BY <1>3, <2>1 DEF HbMiss, TypeOK, row, alerts
<1>4. ASSUME NEW h \in Beats, HbInsert(h)
      PROVE  TypeOK'
  <2>1. hb[h].pc = "insert" /\ hb[h].name \in Names
    BY <1>4 DEF HbInsert, TypeOK
  <2>2. CASE Taken(hb[h].name)
    BY <1>4, <2>2 DEF HbInsert, TypeOK, row, alerts, IdleBeat
  <2>3. CASE ~Taken(hb[h].name)
    <3>1. PICK i \in Ids :
            /\ NewRow(i, hb[h].name, DefaultLimit)
            /\ hb' = [hb EXCEPT ![h] = Inserted(hb[h], i)]
      BY <1>4, <2>3 DEF HbInsert
    <3>2. Inserted(hb[h], i) \in Beat
      BY DEF TypeOK, Beat, Time, Statuses, Inserted
    <3>3. QED
      BY <1>4, <2>1, <2>3, <3>1, <3>2, NewRowTyped, ConstantsAssumption
         DEF HbInsert, TypeOK, alerts, Inserted
  <2>4. QED
    BY <2>2, <2>3
<1>5. ASSUME NEW h \in Beats, HbUpdate(h)
      PROVE  TypeOK'
  <2>1. PICK now \in hb[h].at..clock :
          IF hb[h].id \in live
            THEN /\ status' = [status EXCEPT ![hb[h].id] = hb[h].status]
                 /\ seen' = [seen EXCEPT ![hb[h].id] = now]
                 /\ flipped' = flipped \ {hb[h].id}
            ELSE UNCHANGED <<status, seen, flipped>>
    BY <1>5 DEF HbUpdate
  <2>2. hb[h] \in Beat /\ now \in 0..MaxTime
    BY ConstantsAssumption DEF TypeOK, Beat, Time
  <2>3. hb[h].status \in Statuses
    BY <2>2 DEF Beat
  <2>4. /\ status' \in [Ids -> Statuses]
        /\ seen' \in [Ids -> 0..MaxTime]
        /\ flipped' \subseteq Ids
    BY <2>1, <2>2, <2>3 DEF TypeOK
  <2>5. hb' = [hb EXCEPT ![h] = IdleBeat] \/ hb' = [hb EXCEPT ![h].pc = "announce"]
    BY <1>5 DEF HbUpdate
  <2>6. [hb[h] EXCEPT !.pc = "announce"] \in Beat
    BY <2>2 DEF Beat
  <2>7. hb' \in [Beats -> Beat]
    BY <2>5, <2>6 DEF TypeOK
  <2>8. hb[h].id \in Ids
    BY <1>5 DEF HbUpdate, TypeOK
  <2>9. \A g \in Beats : /\ hb'[g].pc = "insert" => hb'[g].name \in Names
                         /\ hb'[g].pc \in {"update", "announce"} => hb'[g].id \in Ids
    <3>1. CASE hb' = [hb EXCEPT ![h] = IdleBeat]
      BY <3>1 DEF TypeOK, IdleBeat
    <3>2. CASE hb' = [hb EXCEPT ![h].pc = "announce"]
      <4>1. hb' = [hb EXCEPT ![h] = [hb[h] EXCEPT !.pc = "announce"]]
        BY <3>2
      <4>2. hb'[h].pc = "announce" /\ hb'[h].id = hb[h].id
        BY <2>2, <4>1 DEF TypeOK, Beat
      <4>3. \A g \in Beats \ {h} : hb'[g] = hb[g]
        BY <4>1 DEF TypeOK
      <4>4. QED
        BY <2>8, <4>2, <4>3 DEF TypeOK
    <3>3. QED
      BY <2>5, <3>1, <3>2
  <2>10. QED
    BY <1>5, <2>4, <2>7, <2>9 DEF HbUpdate, TypeOK, alerts
<1>6. ASSUME NEW h \in Beats, HbAnnounce(h)
      PROVE  TypeOK'
  BY <1>6 DEF HbAnnounce, TypeOK, row, IdleBeat
<1>7. ASSUME NEW h \in Beats, HbAbort(h)
      PROVE  TypeOK'
  BY <1>7, ConstantsAssumption DEF HbAbort, TypeOK, row, alerts, IdleBeat
<1>8. ASSUME NEW w \in Sweeps, NEW now \in Time, SweepSelect(w, now)
      PROVE  TypeOK'
  BY <1>8, ConstantsAssumption
     DEF SweepSelect, Stale, TypeOK, row, alerts, Sweep, Null
<1>9. ASSUME NEW w \in Sweeps, NEW i \in Ids, SweepFlip(w, i)
      PROVE  TypeOK'
  <2> DEFINE s == sw[w]
             hit == i \in live /\ seen[i] = s.snap[i] /\ status[i] # "down"
             l == IF hit THEN s.lost \cup {i} ELSE s.lost
             t == Passed(s, i, l)
  <2>1. s \in Sweep /\ i \in s.todo /\ l \in SUBSET Ids /\ sw' = [sw EXCEPT ![w] = t]
    BY <1>9 DEF SweepFlip, TypeOK, Sweep
  <2>2. t \in Sweep /\ \A j \in t.todo \cup t.lost : t.snap[j] # Null
    <3>1. \A j \in s.todo \cup s.lost : s.snap[j] # Null
      BY DEF TypeOK
    <3>2. l \subseteq s.todo \cup s.lost
      BY <2>1
    <3>3. QED
      BY <2>1, <3>1, <3>2, PassedTyped DEF IdleSweep
  <2>3. /\ sw' \in [Sweeps -> Sweep]
        /\ \A v \in Sweeps : \A j \in sw'[v].todo \cup sw'[v].lost :
              sw'[v].snap[j] # Null
    BY <2>1, <2>2 DEF TypeOK
  <2>4. /\ status' \in [Ids -> Statuses]
        /\ flipped' \subseteq Ids
    BY <1>9 DEF SweepFlip, TypeOK, Statuses
  <2>5. QED
    BY <1>9, <2>3, <2>4 DEF SweepFlip, TypeOK, alerts
<1>10. ASSUME NEW w \in Sweeps, NEW i \in Ids, SweepAnnounce(w, i)
       PROVE  TypeOK'
  <2>1. sw[w] \in Sweep /\ [sw[w] EXCEPT !.lost = @ \ {i}] \in Sweep
    BY DEF TypeOK, Sweep
  <2>2. /\ sw' \in [Sweeps -> Sweep]
        /\ \A v \in Sweeps : \A j \in sw'[v].todo \cup sw'[v].lost :
              sw'[v].snap[j] # Null
    BY <1>10, <2>1 DEF SweepAnnounce, TypeOK, Sweep, IdleSweep
  <2>3. /\ missed' \in [Ids \X Time -> Nat]
        /\ newest' \in [Ids -> {"none", "heartbeat_missed", "heartbeat_recovered"}]
    <3>1. <<i, sw[w].snap[i]>> \in Ids \X Time
      BY <1>10, <2>1, ConstantsAssumption DEF SweepAnnounce, TypeOK, Sweep, Time, Null
    <3>2. missed[<<i, sw[w].snap[i]>>] + 1 \in Nat
      BY <3>1 DEF TypeOK
    <3>3. QED
      BY <1>10, <3>1, <3>2 DEF SweepAnnounce, TypeOK
  <2>4. QED
    BY <1>10, <2>2, <2>3 DEF SweepAnnounce, TypeOK, row
<1>11. ASSUME NEW w \in Sweeps, SweepAbort(w)
       PROVE  TypeOK'
  BY <1>11, ConstantsAssumption
     DEF SweepAbort, TypeOK, row, Sweep, IdleSweep, Time, Null
<1>12. ASSUME NEW w \in Sweeps, NEW i \in Ids, SweepAlertFails(w, i)
       PROVE  TypeOK'
  BY <1>12, ConstantsAssumption
     DEF SweepAlertFails, TypeOK, row, Sweep, IdleSweep, Time, Null
<1>13. ASSUME NEW n \in Names, NEW l \in Limits, AdminRegister(n, l)
       PROVE  TypeOK'
  <2>1. PICK i \in Ids : NewRow(i, n, l)
    BY <1>13 DEF AdminRegister
  <2>2. QED
    BY <1>13, <2>1, NewRowTyped DEF AdminRegister, TypeOK, alerts
<1>14. ASSUME NEW i \in Ids, NEW l \in Limits, AdminRetune(i, l)
       PROVE  TypeOK'
  BY <1>14 DEF AdminRetune, TypeOK, alerts
<1>15. ASSUME NEW i \in Ids, AdminDelete(i)
       PROVE  TypeOK'
  <2>1. /\ missed' \in [Ids \X Time -> Nat]
        /\ dropped' \subseteq Ids \X Time
    BY <1>15 DEF AdminDelete, TypeOK
  <2>2. QED
    BY <1>15, <2>1, ConstantsAssumption
       DEF AdminDelete, TypeOK, Statuses, Null
<1>16. CASE UNCHANGED vars
  BY <1>16 DEF TypeOK, vars, row, alerts
<1>17. QED
  BY <1>1, <1>2, <1>3, <1>4, <1>5, <1>6, <1>7, <1>8, <1>9, <1>10, <1>11,
     <1>12, <1>13, <1>14, <1>15, <1>16
     DEF Next, Heartbeat, SweepStep, SweepFault, Admin

\* The tables stay well-typed and device names unique, whatever the requests,
\* sweeps and operators interleave (worker/migrations/0001_init.sql:13-27).
THEOREM TypeCorrect == Spec => []TypeOK
<1>1. QED
  BY TypeInit, TypeStep, PTL DEF Spec

-----------------------------------------------------------------------------
(* The inductive invariant of the sweep                                    *)

\* Requests in flight are young: the clock waits for them.
Young ==
    \A h \in Beats : hb[h].pc # "idle" =>
        hb[h].at # Null /\ hb[h].at <= clock /\ clock <= hb[h].at + MaxDelay

\* Keys that a request, a sweep or an alert holds were issued, and an issued
\* key is never issued again.
Issued ==
    /\ \A h \in Beats : hb[h].pc \in {"update", "announce"} => nameOf[hb[h].id] # NoName
    /\ \A w \in Sweeps : \A i \in sw[w].todo \cup sw[w].lost : nameOf[i] # NoName
    /\ \A i \in Ids, t \in Time : missed[<<i, t>>] > 0 => nameOf[i] # NoName

\* What a sweep works on was overdue when it looked.
Overdue ==
    \A w \in Sweeps :
        /\ sw[w].todo \cap sw[w].lost = {}
        /\ \A i \in sw[w].todo \cup sw[w].lost : sw[w].snap[i] + MinLimit < clock

\* The silence that began at t is over or already known to be an outage.
Settled(i, t) == i \in live /\ seen[i] = t => status[i] = "down"

\* A silence about to be announced is settled, was not announced before and
\* is announced by one sweep alone.
Pending ==
    /\ \A w \in Sweeps : \A i \in sw[w].lost :
            Settled(i, sw[w].snap[i]) /\ missed[<<i, sw[w].snap[i]>>] = 0
    /\ \A v, w \in Sweeps : \A i \in sw[v].lost \cap sw[w].lost :
            sw[v].snap[i] = sw[w].snap[i] => v = w

\* An announced silence is settled, and announced once.
Announced ==
    \A i \in Ids, t \in Time :
        /\ missed[<<i, t>>] > 0 => t + MinLimit < clock /\ Settled(i, t)
        /\ missed[<<i, t>>] <= 1

\* A row marked by a sweep is a live row in state down.
Marked ==
    \A i \in flipped : i \in live /\ status[i] = "down" /\ seen[i] + MinLimit < clock

\* While a recovery is still to be announced the device is not overdue again.
Recovering ==
    \A h \in Beats : hb[h].pc = "announce" /\ hb[h].id \in live =>
        hb[h].at <= seen[hb[h].id] + MaxDelay /\ hb[h].id \notin flipped

IInv == /\ TypeOK /\ Young /\ Issued /\ Overdue /\ Pending /\ Announced /\ Marked
        /\ Recovering /\ DownIsAnnounced

\* Nothing is in flight, overdue or announced in the first state.
LEMMA IInvInit == Init => IInv
<1> SUFFICES ASSUME Init PROVE IInv
  OBVIOUS
<1>1. TypeOK
  BY TypeInit
<1>2. /\ \A h \in Beats : hb[h].pc = "idle"
      /\ \A w \in Sweeps : sw[w].todo = {} /\ sw[w].lost = {}
      /\ \A i \in Ids, t \in Time : missed[<<i, t>>] = 0
      /\ flipped = {}
  BY DEF Init, IdleBeat, IdleSweep
<1>3. QED
  BY <1>1, <1>2 DEF IInv, Young, Issued, Overdue, Pending, Announced, Marked,
                    Recovering, DownIsAnnounced

\* What a sweep record becomes when it is done with device i.
LEMMA PassedParts ==
  ASSUME NEW s \in Sweep, NEW i \in Ids, NEW l \in SUBSET Ids
  PROVE  /\ Passed(s, i, l).todo \subseteq s.todo \ {i}
         /\ Passed(s, i, l).lost = l
         /\ \A j \in (s.todo \cup l) \ {i} :
               j \in Passed(s, i, l).todo \cup l => Passed(s, i, l).snap[j] = s.snap[j]
         /\ l # {} => Passed(s, i, l).snap = s.snap
  BY DEF Passed, Sweep, IdleSweep

\* A new row has a key nobody holds.
LEMMA NewRowSafe ==
  ASSUME IInv, NEW i \in Ids, NEW n \in Names, NEW l \in Limits, NewRow(i, n, l)
  PROVE  /\ i \notin live
         /\ \A j \in Ids \ {i} : /\ j \in live' <=> j \in live
                                /\ nameOf'[j] = nameOf[j]
                                /\ status'[j] = status[j]
                                /\ seen'[j] = seen[j]
         /\ nameOf'[i] # NoName
         /\ flipped' = flipped
         /\ \A w \in Sweeps : i \notin sw[w].todo \cup sw[w].lost
         /\ \A t \in Time : missed[<<i, t>>] = 0
<1>1. nameOf[i] = NoName /\ n # NoName
  BY ConstantsAssumption DEF NewRow
<1>2. \A t \in Time : missed[<<i, t>>] \in Nat
  BY DEF IInv, TypeOK
<1>3. QED
  BY <1>1, <1>2 DEF IInv, TypeOK, NewRow, Issued

\* No row changes its meaning for the sweeps and alerts that hold its key when
\* a row is added and the requests change in any way that keeps them young.
LEMMA NewRowKeeps ==
  ASSUME IInv, TypeOK', NEW i \in Ids, NEW n \in Names, NEW l \in Limits,
         NewRow(i, n, l), UNCHANGED <<clock, sw, missed, newest, dropped>>
  PROVE  /\ Overdue' /\ Pending' /\ Announced' /\ Marked' /\ DownIsAnnounced'
         /\ \A w \in Sweeps : \A j \in sw[w].todo \cup sw[w].lost : nameOf'[j] # NoName
         /\ \A j \in Ids, t \in Time : missed'[<<j, t>>] > 0 => nameOf'[j] # NoName
<1>1. \A w \in Sweeps : sw[w] \in Sweep
  BY DEF IInv, TypeOK
<1>2. Overdue'
  BY DEF IInv, Overdue
<1>3. Pending'
  <2>1. \A w \in Sweeps : sw[w].lost \subseteq Ids \ {i}
    BY <1>1, NewRowSafe DEF Sweep
  <2>2. \A j \in Ids \ {i}, t \in Nat : Settled(j, t) => Settled(j, t)'
    BY NewRowSafe DEF Settled
  <2>3. \A w \in Sweeps : \A j \in sw[w].lost : sw[w].snap[j] \in Nat
    BY <1>1, ConstantsAssumption DEF Sweep
  <2>4. QED
    BY <2>1, <2>2, <2>3 DEF IInv, Pending
<1>4. Announced'
  <2>1. \A j \in Ids \ {i}, t \in Time : Settled(j, t) => Settled(j, t)'
    BY NewRowSafe DEF Settled
  <2>2. \A t \in Time : missed[<<i, t>>] = 0
    BY NewRowSafe
  <2>3. \A j \in Ids, t \in Time : missed'[<<j, t>>] = missed[<<j, t>>]
    OBVIOUS
  <2>4. ASSUME NEW j \in Ids, NEW t \in Time
        PROVE  /\ missed'[<<j, t>>] > 0 => t + MinLimit < clock /\ Settled(j, t)'
               /\ missed'[<<j, t>>] <= 1
    <3>1. CASE j = i
      BY <2>2, <2>3, <3>1
    <3>2. CASE j # i
      BY <2>1, <2>3, <3>2 DEF IInv, Announced
    <3>3. QED
      BY <3>1, <3>2
  <2>5. QED
    BY <2>4 DEF Announced
<1>5. Marked' /\ DownIsAnnounced'
  BY NewRowSafe DEF IInv, Marked, DownIsAnnounced, TypeOK
<1>6. QED
  BY <1>1, <1>2, <1>3, <1>4, <1>5, NewRowSafe DEF IInv, Issued, Sweep

\* Every action keeps the strengthened invariant.
LEMMA IInvStep == IInv /\ [Next]_vars => IInv'
<1> SUFFICES ASSUME IInv, [Next]_vars
             PROVE  IInv'
  OBVIOUS
<1>0. TypeOK /\ TypeOK'
  BY TypeStep DEF IInv
<1>1. CASE Tick
  BY <1>0, <1>1, ConstantsAssumption, DelayAssumption
     DEF Tick, row, alerts, IInv, TypeOK, Young, Issued, Overdue, Pending, Announced,
         Settled, Marked, Recovering, DownIsAnnounced, Time, Sweep, Beat
<1>2. ASSUME NEW h \in Beats, NEW i \in Ids, NEW s \in Reported, HbFind(h, i, s)
      PROVE  IInv'
  BY <1>0, <1>2, DelayAssumption
     DEF HbFind, row, alerts, IInv, TypeOK, Young, Issued, Overdue, Pending, Announced,
         Settled, Marked, Recovering, DownIsAnnounced, Time, Null
<1>3. ASSUME NEW h \in Beats, NEW n \in Names, NEW s \in Reported, HbMiss(h, n, s)
      PROVE  IInv'
  BY <1>0, <1>3, DelayAssumption
     DEF HbMiss, row, alerts, IInv, TypeOK, Young, Issued, Overdue, Pending, Announced,
         Settled, Marked, Recovering, DownIsAnnounced, Time, Null
<1>4. ASSUME NEW h \in Beats, HbInsert(h)
      PROVE  IInv'
  <2>1. CASE Taken(hb[h].name)
    <3>1. hb' = [hb EXCEPT ![h] = IdleBeat] /\ UNCHANGED <<clock, row, sw, alerts>>
      BY <1>4, <2>1 DEF HbInsert
    <3>2. QED
      BY <1>0, <3>1
         DEF row, alerts, IInv, TypeOK, Young, Issued, Overdue, Pending,
             Announced, Settled, Marked, Recovering, DownIsAnnounced, IdleBeat
  <2>2. CASE ~Taken(hb[h].name)
    <3>1. PICK i \in Ids : /\ NewRow(i, hb[h].name, DefaultLimit)
                           /\ hb' = [hb EXCEPT ![h] = Inserted(hb[h], i)]
      BY <1>4, <2>2 DEF HbInsert
    <3>2. hb[h].name \in Names /\ DefaultLimit \in Limits
      BY <1>0, <1>4, ConstantsAssumption DEF HbInsert, TypeOK
    <3>3. UNCHANGED <<clock, sw, missed, newest, dropped>>
      BY <1>4 DEF HbInsert, alerts
    <3>4. Young'
      BY <1>0, <3>1, <3>3, DelayAssumption DEF IInv, Young, TypeOK, Inserted, Time, Null
    <3>5. Recovering'
      BY <1>0, <3>1, <3>2, <3>3, NewRowSafe DEF IInv, Recovering, Issued, TypeOK, Inserted, NewRow
    <3>6. \A g \in Beats : hb'[g].pc \in {"update", "announce"} => nameOf'[hb'[g].id] # NoName
      BY <1>0, <3>1, <3>2, NewRowSafe DEF IInv, Issued, TypeOK, Inserted
    <3>7. QED
      BY <1>0, <3>1, <3>2, <3>3, <3>4, <3>5, <3>6, NewRowKeeps DEF IInv, Issued
  <2>3. QED
    BY <2>1, <2>2
<1>5. ASSUME NEW h \in Beats, HbUpdate(h)
      PROVE  IInv'
  <2> DEFINE b == hb[h]
  <2>1. PICK now \in b.at..clock :
          IF b.id \in live
            THEN /\ status' = [status EXCEPT ![b.id] = b.status]
                 /\ seen' = [seen EXCEPT ![b.id] = now]
                 /\ flipped' = flipped \ {b.id}
            ELSE UNCHANGED <<status, seen, flipped>>
    BY <1>5 DEF HbUpdate
  <2>2. /\ b \in Beat /\ b.id \in Ids /\ b.pc = "update"
        /\ now \in Nat /\ now <= clock /\ clock \in Nat
        /\ b.at \in Nat /\ b.at <= now /\ clock <= b.at + MaxDelay
    BY <1>0, <1>5, ConstantsAssumption
       DEF HbUpdate, IInv, TypeOK, Young, Beat, Time
  <2>3. clock <= now + MinLimit
    BY <2>2, ConstantsAssumption, DelayAssumption
  <2>4. /\ UNCHANGED <<clock, live, nameOf, sw, missed, newest, dropped>>
        /\ \/ hb' = [hb EXCEPT ![h] = IdleBeat]
           \/ hb' = [hb EXCEPT ![h] = [b EXCEPT !.pc = "announce"]]
    BY <1>5 DEF HbUpdate, alerts
  <2>5. \A g \in Beats : \/ hb'[g] = hb[g] /\ g # h
                         \/ hb'[g] = IdleBeat
                         \/ /\ g = h /\ hb'[g].pc = "announce"
                            /\ hb'[g].id = b.id /\ hb'[g].at = b.at
    BY <1>0, <2>2, <2>4 DEF TypeOK, Beat
  <2>6. \A i \in Ids : \/ /\ i # b.id \/ i \notin live
                          /\ status'[i] = status[i] /\ seen'[i] = seen[i]
                          /\ i \in flipped' <=> i \in flipped
                       \/ /\ i = b.id /\ i \in live
                          /\ seen'[i] = now /\ i \notin flipped'
    BY <1>0, <2>1, <2>2 DEF TypeOK
  <2>7. Young' /\ Issued'
    BY <2>4, <2>5, <2>2 DEF IInv, Young, Issued, IdleBeat
  <2>8. Overdue'
    BY <2>4 DEF IInv, Overdue
  <2>9. \A i \in Ids, t \in Nat : t + MinLimit < clock /\ Settled(i, t) => Settled(i, t)'
    BY <2>2, <2>3, <2>4, <2>6, ConstantsAssumption DEF Settled
  <2>10. Pending'
    <3>1. \A w \in Sweeps : \A i \in sw[w].lost :
             i \in Ids /\ sw[w].snap[i] \in Nat /\ sw[w].snap[i] + MinLimit < clock
      BY <1>0, ConstantsAssumption DEF IInv, TypeOK, Overdue, Sweep
    <3>2. QED
      BY <2>4, <2>9, <3>1 DEF IInv, Pending
  <2>11. Announced'
    <3>1. \A i \in Ids, t \in Time : t \in Nat /\ missed'[<<i, t>>] = missed[<<i, t>>]
      BY <2>4, ConstantsAssumption DEF Time
    <3>2. clock' = clock
      BY <2>4
    <3>3. QED
      BY <2>9, <3>1, <3>2 DEF IInv, Announced
  <2>12. Marked' /\ DownIsAnnounced'
    BY <1>0, <2>4, <2>6 DEF IInv, Marked, DownIsAnnounced, TypeOK
  <2>13. Recovering'
    <3>1. SUFFICES ASSUME NEW g \in Beats, hb'[g].pc = "announce", hb'[g].id \in live
                   PROVE  /\ hb'[g].at <= seen'[hb'[g].id] + MaxDelay
                          /\ hb'[g].id \notin flipped'
      BY <2>4 DEF Recovering
    <3>2. hb'[g].id \in Ids /\ hb'[g].at \in Nat /\ hb'[g].at <= clock
      BY <1>0, <2>4, <2>7, <3>1, ConstantsAssumption DEF TypeOK, Beat, Young
    <3>3. CASE g = h
      BY <2>2, <2>5, <2>6, <3>1, <3>2, <3>3, DelayAssumption DEF IdleBeat
    <3>4. CASE hb'[g].id = b.id /\ g # h
      BY <2>2, <2>5, <2>6, <3>1, <3>2, <3>4, DelayAssumption DEF IdleBeat
    <3>5. CASE hb'[g].id # b.id /\ g # h
      BY <2>5, <2>6, <3>1, <3>2, <3>5 DEF IdleBeat, IInv, Recovering
    <3>6. QED
      BY <3>3, <3>4, <3>5
  <2>14. QED
    BY <1>0, <2>7, <2>8, <2>10, <2>11, <2>12, <2>13 DEF IInv
<1>6. ASSUME NEW h \in Beats, HbAnnounce(h)
      PROVE  IInv'
  <2>1. \A i \in Ids : newest'[i] = newest[i] \/ (i = hb[h].id /\ i \in live)
    <3>1. newest \in [Ids -> {"none", "heartbeat_missed", "heartbeat_recovered"}]
      BY <1>0 DEF TypeOK
    <3>2. CASE hb[h].id \in live
      <4>1. newest' = [newest EXCEPT ![hb[h].id] = "heartbeat_recovered"]
        BY <1>6, <3>2 DEF HbAnnounce
      <4>2. QED
        BY <3>1, <3>2, <4>1
    <3>3. CASE hb[h].id \notin live
      BY <1>6, <3>3 DEF HbAnnounce
    <3>4. QED
      BY <3>2, <3>3
  <2>2. DownIsAnnounced'
    BY <1>0, <1>6, <2>1 DEF HbAnnounce, IInv, Recovering, DownIsAnnounced, row, TypeOK
  <2>3. QED
    BY <1>0, <1>6, <2>2
       DEF HbAnnounce, row, IInv, TypeOK, Young, Issued, Overdue, Pending, Announced,
           Settled, Marked, Recovering, IdleBeat
<1>7. ASSUME NEW h \in Beats, HbAbort(h)
      PROVE  IInv'
  BY <1>0, <1>7
     DEF HbAbort, row, alerts, IInv, TypeOK, Young, Issued, Overdue, Pending, Announced,
         Settled, Marked, Recovering, DownIsAnnounced, IdleBeat
<1>8. ASSUME NEW w \in Sweeps, NEW now \in Time, SweepSelect(w, now)
      PROVE  IInv'
  <2>1. /\ UNCHANGED <<clock, live, nameOf, status, seen, flipped, hb, missed, newest, dropped>>
        /\ sw[w].lost = {} /\ sw'[w].lost = {}
        /\ sw'[w].todo = Stale(now)
        /\ \A i \in Stale(now) : sw'[w].snap[i] = seen[i]
        /\ \A v \in Sweeps \ {w} : sw'[v] = sw[v]
    BY <1>0, <1>8 DEF SweepSelect, row, alerts, IdleSweep, TypeOK, Stale
  <2>2. \A i \in Stale(now) : i \in live /\ i \in Ids /\ nameOf[i] # NoName
    BY <1>0 DEF Stale, TypeOK
  <2>3. \A i \in Stale(now) : seen[i] + MinLimit < clock
    <3>1. now \in Nat /\ now <= clock /\ clock \in Nat
      BY <1>0, <1>8, ConstantsAssumption DEF SweepSelect, TypeOK, Time
    <3>2. \A i \in Stale(now) : /\ seen[i] \in Nat /\ limit[i] \in Limits
                               /\ now > seen[i] + limit[i]
      BY <1>0, <2>2, ConstantsAssumption DEF Stale, TypeOK
    <3>3. ASSUME NEW i \in Stale(now)
          PROVE  seen[i] + MinLimit < clock
      <4>1. seen[i] \in Nat /\ limit[i] \in Nat /\ MinLimit <= limit[i]
        BY <3>2, ConstantsAssumption
      <4>2. QED
        BY <3>1, <3>2, <4>1, ConstantsAssumption
    <3>4. QED
      BY <3>3
  <2>4. Overdue' /\ Issued' /\ Pending'
    BY <2>1, <2>2, <2>3 DEF IInv, Overdue, Issued, Pending, Settled
  <2>5. Young' /\ Announced' /\ Marked' /\ Recovering' /\ DownIsAnnounced'
    BY <1>0, <2>1 DEF IInv, Young, Announced, Settled, Marked, Recovering,
                      DownIsAnnounced, TypeOK
  <2>6. QED
    BY <1>0, <2>4, <2>5 DEF IInv
<1>9. ASSUME NEW w \in Sweeps, NEW i \in Ids, SweepFlip(w, i)
      PROVE  IInv'
  <2> DEFINE s == sw[w]
             hit == i \in live /\ seen[i] = s.snap[i] /\ status[i] # "down"
             l == IF hit THEN s.lost \cup {i} ELSE s.lost
  <2>1. /\ s \in Sweep /\ i \in s.todo /\ l \in SUBSET Ids
        /\ l \subseteq s.lost \cup {i}
        /\ sw' = [sw EXCEPT ![w] = Passed(s, i, l)]
        /\ UNCHANGED <<clock, live, nameOf, seen, hb, missed, newest, dropped>>
    BY <1>0, <1>9 DEF SweepFlip, TypeOK, Sweep, alerts
  <2>2. /\ sw'[w].todo \subseteq s.todo \ {i}
        /\ sw'[w].lost = l
        /\ \A j \in sw'[w].todo \cup sw'[w].lost : sw'[w].snap[j] = s.snap[j]
        /\ \A v \in Sweeps \ {w} : sw'[v] = sw[v]
    <3>1. sw'[w] = Passed(s, i, l) /\ \A v \in Sweeps \ {w} : sw'[v] = sw[v]
      BY <1>0, <2>1 DEF TypeOK
    <3>2. QED
      BY <2>1, <3>1, PassedTyped, PassedParts DEF IdleSweep
  <2>a. ASSUME NEW v \in Sweeps
        PROVE  /\ sw'[v].todo \subseteq sw[v].todo
               /\ sw'[v].todo \cap sw'[v].lost \subseteq sw[v].todo \cap sw[v].lost
               /\ sw[v].lost \subseteq sw'[v].lost
               /\ \A j \in sw'[v].lost : j \in sw[v].lost \/ (hit /\ v = w /\ j = i)
               /\ \A j \in sw'[v].lost : j \in sw[v].lost \cup sw[v].todo
               /\ \A j \in sw'[v].todo \cup sw'[v].lost : sw'[v].snap[j] = sw[v].snap[j]
    <3>1. CASE v = w
      BY <2>1, <2>2, <3>1
    <3>2. CASE v # w
      BY <2>2, <3>2
    <3>3. QED
      BY <3>1, <3>2
  <2>3. /\ \A j \in Ids \ {i} : status'[j] = status[j] /\ (j \in flipped' <=> j \in flipped)
        /\ hit => status'[i] = "down" /\ i \in flipped'
        /\ ~hit => status'[i] = status[i] /\ (i \in flipped' <=> i \in flipped)
    BY <1>0, <1>9 DEF SweepFlip, TypeOK
  <2>4. s.snap[i] \in Time /\ s.snap[i] + MinLimit < clock
    BY <1>0, <2>1, ConstantsAssumption DEF IInv, TypeOK, Overdue, Sweep, Time, Null
  <2>5. \A j \in Ids, t \in Nat : Settled(j, t) => Settled(j, t)'
    BY <2>1, <2>3 DEF Settled
  <2>6. Young' /\ Issued'
    BY <2>1, <2>a DEF IInv, Young, Issued
  <2>7. Overdue'
    <3>1. ASSUME NEW v \in Sweeps
          PROVE  /\ sw'[v].todo \cap sw'[v].lost = {}
                 /\ \A j \in sw'[v].todo \cup sw'[v].lost : sw'[v].snap[j] + MinLimit < clock
      <4>1. sw'[v].todo \cup sw'[v].lost \subseteq sw[v].todo \cup sw[v].lost
        BY <2>a
      <4>2. QED
        BY <2>a, <4>1 DEF IInv, Overdue
    <3>2. QED
      BY <2>1, <3>1 DEF Overdue
  <2> HIDE DEF hit, l
  <2>8. Pending'
    <3>1. hit => /\ \A t \in Nat : Settled(i, t)'
                 /\ missed[<<i, s.snap[i]>>] = 0
                 /\ \A v \in Sweeps : i \in sw[v].lost => sw[v].snap[i] # s.snap[i]
      <4>1. hit => ~Settled(i, s.snap[i])
        BY DEF Settled, hit
      <4>2. missed[<<i, s.snap[i]>>] \in Nat
        BY <1>0, <2>4 DEF TypeOK
      <4>3. hit => \A t \in Nat : Settled(i, t)'
        BY <2>3 DEF Settled
      <4>4. QED
        BY <2>1, <2>4, <4>1, <4>2, <4>3 DEF IInv, Announced, Pending
    <3>2. \A v \in Sweeps : sw[v].lost \subseteq Ids /\ \A j \in Ids : sw[v].snap[j] \in Nat
      BY <1>0, ConstantsAssumption DEF TypeOK, Sweep
    <3>3. \A v \in Sweeps : \A j \in sw'[v].lost :
             /\ j \in Ids /\ sw'[v].snap[j] = sw[v].snap[j]
             /\ j \in sw[v].lost \/ (hit /\ v = w /\ j = i)
      BY <2>a, <3>2
    <3>4. ASSUME NEW v \in Sweeps, NEW j \in sw'[v].lost, NEW t \in Nat,
                 t = sw[v].snap[j]
          PROVE  Settled(j, t)' /\ missed[<<j, t>>] = 0
      <4>1. CASE j \in sw[v].lost
        BY <2>1, <2>5, <3>2, <3>3, <3>4, <4>1 DEF IInv, Pending
      <4>2. CASE hit /\ v = w /\ j = i
        BY <3>1, <3>4, <4>2
      <4>3. QED
        BY <3>3, <4>1, <4>2
    <3>5. \A u, v \in Sweeps : \A j \in sw'[u].lost \cap sw'[v].lost :
             sw'[u].snap[j] = sw'[v].snap[j] => u = v
      BY <3>1, <3>3 DEF IInv, Pending
    <3>6. \A v \in Sweeps : \A j \in sw'[v].lost :
             Settled(j, sw[v].snap[j])' /\ missed'[<<j, sw'[v].snap[j]>>] = 0
      BY <2>1, <3>2, <3>3, <3>4
    <3>7. QED
      BY <3>5, <3>6 DEF Pending
  <2>9. Announced'
    <3>1. \A j \in Ids, t \in Time : t \in Nat /\ missed'[<<j, t>>] = missed[<<j, t>>]
      BY <2>1, ConstantsAssumption DEF Time
    <3>2. clock' = clock
      BY <2>1
    <3>3. QED
      BY <2>5, <3>1, <3>2 DEF IInv, Announced
  <2>10. Marked'
    BY <1>0, <2>1, <2>3, <2>4 DEF IInv, Marked, TypeOK, hit
  <2>11. Recovering'
    <3>1. ASSUME NEW h \in Beats, hb[h].pc = "announce", hb[h].id = i, hit
          PROVE  FALSE
      <4>1. /\ hb[h].at \in Nat /\ clock \in Nat /\ seen[i] \in Nat
            /\ hb[h].at <= seen[i] + MaxDelay /\ clock <= hb[h].at + MaxDelay
        BY <1>0, <3>1, ConstantsAssumption
           DEF IInv, TypeOK, Beat, Time, Recovering, Young, hit
      <4>2. seen[i] + MinLimit < clock
        BY <2>4, <3>1 DEF hit
      <4>3. QED
        BY <4>1, <4>2, ConstantsAssumption, DelayAssumption
    <3>2. \A h \in Beats : hb[h].pc = "announce" => hb[h].id \in Ids
      BY <1>0 DEF TypeOK
    <3>3. QED
      BY <2>1, <2>3, <3>1, <3>2 DEF IInv, Recovering
  <2>12. DownIsAnnounced'
    <3>1. ASSUME NEW j \in flipped', ~(hit /\ j = i)
          PROVE  \/ \E v \in Sweeps : j \in sw'[v].lost /\ sw'[v].snap[j] = seen[j]
                 \/ newest[j] = "heartbeat_missed"
                 \/ <<j, seen[j]>> \in dropped
      <4>1. j \in flipped
        BY <1>0, <2>3, <3>1 DEF TypeOK
      <4>2. \A v \in Sweeps : j \in sw[v].lost =>
                j \in sw'[v].lost /\ sw'[v].snap[j] = sw[v].snap[j]
        BY <2>a
      <4>3. QED
        BY <4>1, <4>2 DEF IInv, DownIsAnnounced
    <3>2. hit => i \in sw'[w].lost /\ sw'[w].snap[i] = seen[i]
      BY <2>1, <2>2 DEF hit, l
    <3>3. QED
      BY <2>1, <3>1, <3>2 DEF DownIsAnnounced
  <2>13. QED
    BY <1>0, <2>6, <2>7, <2>8, <2>9, <2>10, <2>11, <2>12 DEF IInv
<1>10. ASSUME NEW w \in Sweeps, NEW i \in Ids, SweepAnnounce(w, i)
       PROVE  IInv'
  <2> DEFINE t == sw[w].snap[i]
  <2>1. /\ sw[w] \in Sweep /\ i \in sw[w].lost /\ t \in Time /\ t \in Nat
        /\ t + MinLimit < clock
    BY <1>0, <1>10, ConstantsAssumption
       DEF SweepAnnounce, IInv, TypeOK, Overdue, Sweep, Time, Null
  <2>2. /\ UNCHANGED <<clock, live, nameOf, status, seen, flipped, hb, dropped>>
        /\ sw' = [sw EXCEPT ![w] = IF sw[w].lost = {i} THEN IdleSweep
                                  ELSE [sw[w] EXCEPT !.lost = @ \ {i}]]
    BY <1>10 DEF SweepAnnounce, row
  <2>3. ASSUME NEW v \in Sweeps
        PROVE  /\ sw'[v].todo \subseteq sw[v].todo
               /\ sw'[v].lost = IF v = w THEN sw[v].lost \ {i} ELSE sw[v].lost
               /\ \A j \in sw'[v].todo \cup sw'[v].lost : sw'[v].snap[j] = sw[v].snap[j]
    <3>1. CASE v = w
      BY <1>0, <2>1, <2>2, <3>1 DEF TypeOK, Sweep, IdleSweep
    <3>2. CASE v # w
      BY <1>0, <2>2, <3>2 DEF TypeOK
    <3>3. QED
      BY <3>1, <3>2
  <2>4. /\ i \in live => /\ missed' = [missed EXCEPT ![<<i, t>>] = @ + 1]
                         /\ newest' = [newest EXCEPT ![i] = "heartbeat_missed"]
        /\ i \notin live => missed' = missed /\ newest' = newest
    BY <1>10 DEF SweepAnnounce
  <2>5. missed[<<i, t>>] = 0 /\ Settled(i, t)
    BY <2>1 DEF IInv, Pending
  <2>6. /\ \A j \in Ids, u \in Time : <<j, u>> # <<i, t>> => missed'[<<j, u>>] = missed[<<j, u>>]
        /\ missed'[<<i, t>>] \in {0, 1}
    BY <1>0, <2>1, <2>4, <2>5 DEF TypeOK
  <2>7. \A j \in Ids, u \in Nat : Settled(j, u) => Settled(j, u)'
    BY <2>2 DEF Settled
  <2>8. Young' /\ Marked' /\ Recovering'
    BY <2>2 DEF IInv, Young, Marked, Recovering
  <2>9. Issued'
    <3>1. nameOf[i] # NoName
      BY <2>1 DEF IInv, Issued
    <3>2. \A j \in Ids, u \in Time : missed'[<<j, u>>] > 0 => nameOf[j] # NoName
      BY <2>6, <3>1 DEF IInv, Issued
    <3>3. \A v \in Sweeps : sw'[v].todo \cup sw'[v].lost \subseteq sw[v].todo \cup sw[v].lost
      BY <2>3
    <3>4. QED
      BY <2>2, <3>2, <3>3 DEF IInv, Issued
  <2>10. Overdue'
    <3>1. ASSUME NEW v \in Sweeps
          PROVE  /\ sw'[v].todo \cap sw'[v].lost = {}
                 /\ \A j \in sw'[v].todo \cup sw'[v].lost : sw'[v].snap[j] + MinLimit < clock
      BY <2>3 DEF IInv, Overdue
    <3>2. QED
      BY <2>2, <3>1 DEF Overdue
  <2>11. Pending'
    <3>1. \A v \in Sweeps : \A j \in Ids : sw[v].snap[j] \in Nat /\ sw[v].lost \subseteq Ids
      BY <1>0, ConstantsAssumption DEF TypeOK, Sweep
    <3>2. ASSUME NEW v \in Sweeps, NEW j \in sw'[v].lost
          PROVE  /\ j \in sw[v].lost /\ j \in Ids /\ sw[v].snap[j] \in Time
                 /\ sw'[v].snap[j] = sw[v].snap[j]
                 /\ <<j, sw[v].snap[j]>> # <<i, t>>
      <4>1. j \in sw[v].lost /\ j \in Ids /\ sw'[v].snap[j] = sw[v].snap[j]
        BY <2>3, <3>1
      <4>2. sw[v].snap[j] \in Time
        BY <1>0, <4>1, ConstantsAssumption DEF TypeOK, Sweep, Time, Null
      <4>3. CASE v = w
        BY <2>3, <4>1, <4>2, <4>3
      <4>4. CASE v # w
        BY <2>1, <4>1, <4>2, <4>4 DEF IInv, Pending
      <4>5. QED
        BY <4>1, <4>2, <4>3, <4>4
    <3>3. \A v \in Sweeps : \A j \in sw'[v].lost :
             Settled(j, sw[v].snap[j])' /\ missed'[<<j, sw'[v].snap[j]>>] = 0
      <4>1. ASSUME NEW v \in Sweeps, NEW j \in sw'[v].lost, NEW u \in Nat,
                   u = sw[v].snap[j]
            PROVE  Settled(j, u)' /\ missed'[<<j, u>>] = 0
        BY <2>6, <2>7, <3>2, <4>1 DEF IInv, Pending
      <4>2. QED
        BY <3>1, <3>2, <4>1
    <3>4. \A u, v \in Sweeps : \A j \in sw'[u].lost \cap sw'[v].lost :
             sw'[u].snap[j] = sw'[v].snap[j] => u = v
      BY <3>2 DEF IInv, Pending
    <3>5. QED
      BY <3>3, <3>4 DEF Pending
  <2>12. Announced'
    <3>1. ASSUME NEW j \in Ids, NEW u \in Time
          PROVE  /\ missed'[<<j, u>>] > 0 => u + MinLimit < clock /\ Settled(j, u)'
                 /\ missed'[<<j, u>>] <= 1
      <4>1. u \in Nat
        BY ConstantsAssumption DEF Time
      <4>2. CASE j = i /\ u = t
        BY <2>1, <2>5, <2>6, <2>7, <4>1, <4>2
      <4>3. CASE ~(j = i /\ u = t)
        BY <2>6, <2>7, <4>1, <4>3 DEF IInv, Announced
      <4>4. QED
        BY <4>2, <4>3
    <3>2. QED
      BY <2>2, <3>1 DEF Announced
  <2>13. DownIsAnnounced'
    <3>1. ASSUME NEW j \in flipped
          PROVE  \/ \E v \in Sweeps : j \in sw'[v].lost /\ sw'[v].snap[j] = seen[j]
                 \/ newest'[j] = "heartbeat_missed"
                 \/ <<j, seen[j]>> \in dropped
      <4>1. j \in Ids /\ j \in live
        BY <1>0, <3>1 DEF TypeOK, IInv, Marked
      <4>2. CASE j = i
        BY <1>0, <2>4, <4>1, <4>2 DEF TypeOK
      <4>3. CASE j # i
        <5>1. newest'[j] = newest[j]
          BY <1>0, <2>4, <4>1, <4>3 DEF TypeOK
        <5>2. \A v \in Sweeps : j \in sw[v].lost =>
                 j \in sw'[v].lost /\ sw'[v].snap[j] = sw[v].snap[j]
          BY <2>3, <4>3
        <5>3. QED
          BY <3>1, <5>1, <5>2 DEF IInv, DownIsAnnounced
      <4>4. QED
        BY <4>2, <4>3
    <3>2. QED
      BY <2>2, <3>1 DEF DownIsAnnounced
  <2>14. QED
    BY <1>0, <2>8, <2>9, <2>10, <2>11, <2>12, <2>13 DEF IInv
<1>11. ASSUME NEW w \in Sweeps, SweepAbort(w)
       PROVE  IInv'
  <2>1. /\ UNCHANGED <<clock, live, nameOf, status, seen, flipped, hb, missed, newest>>
        /\ sw'[w].todo = {} /\ sw'[w].lost = {}
        /\ \A v \in Sweeps \ {w} : sw'[v] = sw[v]
        /\ \A j \in sw[w].lost : <<j, sw[w].snap[j]>> \in dropped'
        /\ dropped \subseteq dropped'
    BY <1>0, <1>11 DEF SweepAbort, row, TypeOK, IdleSweep
  <2>2. Young' /\ Issued' /\ Overdue' /\ Marked' /\ Recovering'
    BY <2>1 DEF IInv, Young, Issued, Overdue, Marked, Recovering
  <2>3. Pending' /\ Announced'
    BY <2>1 DEF IInv, Pending, Announced, Settled
  <2>4. DownIsAnnounced'
    BY <2>1 DEF IInv, DownIsAnnounced
  <2>5. QED
    BY <1>0, <2>2, <2>3, <2>4 DEF IInv
<1>12. ASSUME NEW w \in Sweeps, NEW i \in Ids, SweepAlertFails(w, i)
       PROVE  IInv'
  <2>1. /\ UNCHANGED <<clock, live, nameOf, status, seen, flipped, hb, missed, newest>>
        /\ <<i, sw[w].snap[i]>> \in dropped'
        /\ dropped \subseteq dropped'
    BY <1>12 DEF SweepAlertFails, row
  <2>2. ASSUME NEW v \in Sweeps
        PROVE  /\ sw'[v].todo \subseteq sw[v].todo
               /\ sw'[v].lost = IF v = w THEN sw[v].lost \ {i} ELSE sw[v].lost
               /\ \A j \in sw'[v].todo \cup sw'[v].lost : sw'[v].snap[j] = sw[v].snap[j]
    <3>1. CASE v = w
      BY <1>0, <1>12, <3>1 DEF SweepAlertFails, TypeOK, Sweep, IdleSweep
    <3>2. CASE v # w
      BY <1>0, <1>12, <3>2 DEF SweepAlertFails, TypeOK
    <3>3. QED
      BY <3>1, <3>2
  <2>3. Young' /\ Issued' /\ Marked' /\ Recovering'
    BY <2>1, <2>2 DEF IInv, Young, Issued, Marked, Recovering
  <2>4. Overdue'
    <3>1. ASSUME NEW v \in Sweeps
          PROVE  /\ sw'[v].todo \cap sw'[v].lost = {}
                 /\ \A j \in sw'[v].todo \cup sw'[v].lost : sw'[v].snap[j] + MinLimit < clock
      BY <2>2 DEF IInv, Overdue
    <3>2. QED
      BY <2>1, <3>1 DEF Overdue
  <2>5. Pending' /\ Announced'
    <3>1. \A v \in Sweeps : \A j \in sw'[v].lost :
             j \in sw[v].lost /\ sw'[v].snap[j] = sw[v].snap[j]
      BY <2>2
    <3>2. QED
      BY <2>1, <3>1 DEF IInv, Pending, Announced, Settled
  <2>6. DownIsAnnounced'
    <3>1. \A v \in Sweeps : \A j \in sw[v].lost :
             \/ j \in sw'[v].lost /\ sw'[v].snap[j] = sw[v].snap[j]
             \/ <<j, sw[v].snap[j]>> \in dropped'
      BY <2>1, <2>2
    <3>2. QED
      BY <2>1, <3>1 DEF IInv, DownIsAnnounced
  <2>7. QED
    BY <1>0, <2>3, <2>4, <2>5, <2>6 DEF IInv
<1>13. ASSUME NEW n \in Names, NEW l \in Limits, AdminRegister(n, l)
       PROVE  IInv'
  <2>1. PICK i \in Ids : NewRow(i, n, l)
    BY <1>13 DEF AdminRegister
  <2>2. UNCHANGED <<clock, hb, sw, missed, newest, dropped>>
    BY <1>13 DEF AdminRegister, alerts
  <2>3. Young'
    BY <2>2 DEF IInv, Young
  <2>4. \A h \in Beats : hb[h].pc \in {"update", "announce"} => hb[h].id # i
    BY <2>1 DEF IInv, Issued, NewRow
  <2>5. Recovering' /\ \A h \in Beats : hb'[h].pc \in {"update", "announce"}
                                            => nameOf'[hb'[h].id] # NoName
    BY <1>0, <2>1, <2>2, <2>4, NewRowSafe DEF IInv, Recovering, Issued, TypeOK
  <2>6. QED
    BY <1>0, <2>1, <2>2, <2>3, <2>5, NewRowKeeps DEF IInv, Issued
<1>14. ASSUME NEW i \in Ids, NEW l \in Limits, AdminRetune(i, l)
       PROVE  IInv'
  BY <1>0, <1>14
     DEF AdminRetune, alerts, IInv, Young, Issued, Overdue, Pending, Announced,
         Settled, Marked, Recovering, DownIsAnnounced
<1>15. ASSUME NEW i \in Ids, AdminDelete(i)
       PROVE  IInv'
  <2>1. /\ UNCHANGED <<clock, nameOf, hb, sw>>
        /\ live' = live \ {i} /\ flipped' = flipped \ {i}
        /\ \A j \in Ids \ {i} : /\ status'[j] = status[j] /\ seen'[j] = seen[j]
                               /\ newest'[j] = newest[j]
        /\ \A j \in Ids, t \in Time : missed'[<<j, t>>] = IF j = i THEN 0 ELSE missed[<<j, t>>]
        /\ \A j \in Ids \ {i}, t \in Nat : <<j, t>> \in dropped => <<j, t>> \in dropped'
    BY <1>0, <1>15 DEF AdminDelete, TypeOK
  <2>2. \A j \in Ids, t \in Nat : Settled(j, t) => Settled(j, t)'
    BY <2>1 DEF Settled
  <2>3. Young' /\ Overdue'
    BY <2>1 DEF IInv, Young, Overdue
  <2>4. Issued'
    BY <2>1 DEF IInv, Issued
  <2>5. Pending'
    <3>1. \A v \in Sweeps : \A j \in sw[v].lost : j \in Ids /\ sw[v].snap[j] \in Time /\ sw[v].snap[j] \in Nat
      BY <1>0, ConstantsAssumption DEF TypeOK, Sweep, Time, Null
    <3>2. \A v \in Sweeps : \A j \in sw[v].lost : missed'[<<j, sw[v].snap[j]>>] = 0
      BY <2>1, <3>1 DEF IInv, Pending
    <3>3. ASSUME NEW v \in Sweeps, NEW j \in sw[v].lost, NEW t \in Nat, t = sw[v].snap[j]
          PROVE  Settled(j, t)'
      BY <2>2, <3>1, <3>3 DEF IInv, Pending
    <3>4. \A v \in Sweeps : \A j \in sw[v].lost : Settled(j, sw[v].snap[j])'
      BY <2>1, <3>1, <3>3
    <3>5. QED
      BY <2>1, <3>2, <3>4 DEF IInv, Pending
  <2>6. Announced'
    <3>1. ASSUME NEW j \in Ids, NEW u \in Time
          PROVE  /\ missed'[<<j, u>>] > 0 => u + MinLimit < clock /\ Settled(j, u)'
                 /\ missed'[<<j, u>>] <= 1
      <4>1. u \in Nat
        BY ConstantsAssumption DEF Time
      <4>2. QED
        BY <2>1, <2>2, <4>1 DEF IInv, Announced
    <3>2. QED
      BY <2>1, <3>1 DEF Announced
  <2>7. Marked' /\ Recovering'
    BY <1>0, <2>1 DEF IInv, Marked, Recovering, TypeOK
  <2>8. DownIsAnnounced'
    BY <1>0, <2>1, ConstantsAssumption DEF IInv, DownIsAnnounced, TypeOK
  <2>9. QED
    BY <1>0, <2>3, <2>4, <2>5, <2>6, <2>7, <2>8 DEF IInv
<1>16. CASE UNCHANGED vars
  BY <1>0, <1>16
     DEF vars, row, alerts, IInv, Young, Issued, Overdue, Pending, Announced,
         Settled, Marked, Recovering, DownIsAnnounced
<1>17. QED
  BY <1>1, <1>2, <1>3, <1>4, <1>5, <1>6, <1>7, <1>8, <1>9, <1>10, <1>11,
     <1>12, <1>13, <1>14, <1>15, <1>16
     DEF Next, Heartbeat, SweepStep, SweepFault, Admin

-----------------------------------------------------------------------------
(* The theorems                                                            *)

\* A device is down on a sweep's word only while it has been silent for longer
\* than the shortest threshold: the race guard of scheduled.ts:36-51 holds for
\* any number of overlapping sweeps and heartbeats.
THEOREM NoFalseDown == Spec => []DownMeansSilent
<1>1. IInv => DownMeansSilent
  BY DEF IInv, Marked, DownMeansSilent
<1>2. QED
  BY IInvInit, IInvStep, <1>1, PTL DEF Spec

\* No silence is announced twice, whatever sweeps overlap (scheduled.ts:41-51).
THEOREM NoDoubleAlert == Spec => []OneAlertPerSilence
<1>1. IInv => OneAlertPerSilence
  BY DEF IInv, Announced, OneAlertPerSilence
<1>2. QED
  BY IInvInit, IInvStep, <1>1, PTL DEF Spec

\* A device a sweep marked down is being announced, is announced by its newest
\* heartbeat alert, or lost its alert to a fault (scheduled.ts:48-78).
THEOREM NoSilentDown == Spec => []DownIsAnnounced
<1>1. IInv => DownIsAnnounced
  BY DEF IInv
<1>2. QED
  BY IInvInit, IInvStep, <1>1, PTL DEF Spec
=============================================================================
