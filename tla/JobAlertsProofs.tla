-------------------------- MODULE JobAlertsProofs --------------------------
(***************************************************************************)
(* Theorems about JobAlerts, for every number of posts, routes and faults. *)
(***************************************************************************)
EXTENDS JobAlerts, TLAPS

-----------------------------------------------------------------------------
(* Types                                                                   *)

\* What the clients and the handlers of POST /jobs keep, ...
PostTypes ==
    /\ client \in [Posts -> {"idle", "first", "second", "ok", "error"}]
    /\ job \in [Posts -> Sent \cup {NoAlert}]
    /\ req \in [Attempts -> {"none", "sent", "found", "stored", "done", "failed"}]
    /\ orphan \subseteq Attempts /\ jobs \subseteq Attempts

Linked(p) ==
    /\ (client[p] = "idle") = (req[<<p, 1>>] = "none")
    /\ client[p] \in {"idle", "first"} => req[<<p, 2>>] = "none"
    /\ client[p] # "idle" => job[p] \in Sent

\* ... what alerts and their deliveries keep, ...
AlertTypes ==
    /\ alerts \in [Ids -> Alerts \cup {NoAlert}]
    /\ route \in [Routes -> {"unused", "live", "gone"}]
    /\ stage \in [Ids -> {"none", "pick", "send", "rejected", "evicted"}]
    /\ todo \in [Ids -> SUBSET (Routes \cup {Bot})]
    /\ open \in [Ids -> SUBSET Routes]
    /\ called \in [Ids -> SUBSET (Routes \cup {Bot})]
    /\ muted \in [Ids -> SUBSET Routes]

\* ... and what is known of faults.
FaultTypes == hit \subseteq Posts \cup Ids /\ faults \in 0..MaxFaults

LEMMA TypeParts ==
    /\ TypeOK <=> PostTypes /\ (\A p \in Posts : Linked(p)) /\ AlertTypes /\ FaultTypes
    /\ TypeOK' <=> PostTypes' /\ (\A p \in Posts : Linked(p)') /\ AlertTypes' /\ FaultTypes'
BY DEF TypeOK, PostTypes, Linked, AlertTypes, FaultTypes

LEMMA Pairs ==
    /\ \A p \in Posts : <<p, 1>> \in Attempts /\ <<p, 2>> \in Attempts
    /\ \A a \in Attempts : a[1] \in Posts /\ a \in Ids /\ (a = <<a[1], 1>> \/ a = <<a[1], 2>>)
    /\ \A p, q \in Posts, i, j \in {1, 2} : <<p, i>> = <<q, j>> => p = q /\ i = j
    /\ \A o \in Others : o \in Ids /\ o \notin Attempts
BY ConstantsAssumption DEF Attempts, Ids

\* Every job fires an alert of the table, or none.
LEMMA AlertOfType == \A j : AlertOf(j) \in Alerts \cup {NoAlert}
<1> TAKE j
<1>1. /\ Alert("update_failed", "critical") \in Alerts /\ Alert("job_failed", "warning") \in Alerts
      /\ Alert("drift_detected", "info") \in Alerts /\ Alert("update_available", "warning") \in Alerts
      /\ Alert("backup_succeeded", "info") \in Alerts /\ Alert("update_applied", "info") \in Alerts
  BY DEF Alert, Alerts, AlertKinds, Rank
<1>2. QED
  BY <1>1 DEF AlertOf

LEMMA OtherAlertsType == OtherAlerts \subseteq Alerts
BY DEF OtherAlerts, Alert, Alerts, AlertKinds, Rank

LEMMA TypeInit == Init => TypeOK
BY Pairs, ConstantsAssumption DEF Init, TypeOK

\* A fault keeps its books.
LEMMA FaultStep ==
    \A x \in Posts \cup Ids : FaultTypes /\ Fault(x) => FaultTypes' /\ hit \subseteq hit' /\ x \in hit'
BY ConstantsAssumption DEF Fault, FaultTypes

\* Storing an alert keeps the types of all deliveries.
LEMMA FireStep ==
    \A a \in Ids, alert \in Alerts : AlertTypes /\ Fire(a, alert) /\ UNCHANGED route => AlertTypes'
BY DEF Fire, AlertTypes

LEMMA PostStep ==
    PostTypes /\ (\A p \in Posts : Linked(p)) /\ [Next]_vars => PostTypes' /\ \A p \in Posts : Linked(p)'
<1> SUFFICES ASSUME PostTypes, \A p \in Posts : Linked(p), [Next]_vars
             PROVE  PostTypes' /\ \A p \in Posts : Linked(p)'
  OBVIOUS
<1> USE Pairs
<1>1. ASSUME NEW p \in Posts, NEW j \in Sent, Send(p, j)
      PROVE  PostTypes' /\ \A q \in Posts : Linked(q)'
  <2>1. /\ client' = [client EXCEPT ![p] = "first"] /\ job' = [job EXCEPT ![p] = j]
        /\ req' = [req EXCEPT ![<<p, 1>>] = "sent"] /\ orphan' = orphan /\ jobs' = jobs
        /\ client[p] = "idle"
    BY <1>1, Zenon DEF Send
  <2>2. PostTypes'
    BY <2>1 DEF PostTypes
  <2>3. Linked(p)'
    BY <2>1 DEF PostTypes, Linked
  <2>4. ASSUME NEW q \in Posts \ {p}
        PROVE  Linked(q)'
    BY <2>1 DEF PostTypes, Linked
  <2>5. QED
    BY <2>2, <2>3, <2>4
<1>2. ASSUME NEW p \in Posts, Acknowledge(p) \/ GiveUp(p)
      PROVE  PostTypes' /\ \A q \in Posts : Linked(q)'
  BY <1>2 DEF Acknowledge, GiveUp, Waiting, PostTypes, Linked
<1>3. ASSUME NEW p \in Posts, Retry(p)
      PROVE  PostTypes' /\ \A q \in Posts : Linked(q)'
  BY <1>3 DEF Retry, PostTypes, Linked
<1>4. ASSUME NEW a \in Attempts, Handler(a)
      PROVE  PostTypes' /\ \A q \in Posts : Linked(q)'
  <2>1. /\ client' = client /\ job' = job /\ orphan' = orphan
        /\ jobs' = jobs \/ jobs' = jobs \cup {a}
    BY <1>4 DEF Handler, Find, InsertJob, InsertAlert, HandlerFails
  <2>2. PICK s \in {"found", "stored", "done", "failed"} : req' = [req EXCEPT ![a] = s]
    BY <1>4 DEF Handler, Find, InsertJob, InsertAlert, HandlerFails, At
  <2>3. req[a] # "none"
    BY <1>4 DEF Handler, Find, InsertJob, InsertAlert, HandlerFails, At
  <2>4. PostTypes'
    BY <2>1, <2>2 DEF PostTypes
  <2>5. ASSUME NEW q \in Posts
        PROVE  Linked(q)'
    BY <2>1, <2>2, <2>3 DEF PostTypes, Linked
  <2>6. QED
    BY <2>4, <2>5
<1>5. ASSUME NEW p \in Posts, DeleteDevice(p)
      PROVE  PostTypes' /\ \A q \in Posts : Linked(q)'
  BY <1>5 DEF DeleteDevice, PostTypes, Linked
<1>6. ASSUME UNCHANGED post
      PROVE  PostTypes' /\ \A q \in Posts : Linked(q)'
  BY <1>6 DEF post, PostTypes, Linked
<1>7. CASE \/ \E o \in Others, alert \in OtherAlerts : Raise(o, alert)
           \/ \E a \in Ids : Deliver(a) \/ Cut(a) \/ Evict(a)
           \/ \E r \in Routes : AddRoute(r) \/ DeleteRoute(r)
           \/ UNCHANGED vars
  <2>1. UNCHANGED post
    BY <1>7, Zenon DEF Raise, Deliver, Pick, Call, Record, Cut, Evict, AddRoute, DeleteRoute, vars
  <2>2. QED
    BY <1>6, <2>1
<1>8. QED
  BY <1>1, <1>2, <1>3, <1>4, <1>5, <1>7, Zenon DEF Next, Client, Operator

LEMMA AlertStep == TypeOK /\ AlertTypes /\ [Next]_vars => AlertTypes'
<1> SUFFICES ASSUME TypeOK, AlertTypes, [Next]_vars
             PROVE  AlertTypes'
  OBVIOUS
<1>1. ASSUME NEW a \in Attempts, InsertAlert(a)
      PROVE  AlertTypes'
  <2>1. UNCHANGED route
    BY <1>1 DEF InsertAlert
  <2>2. CASE UNCHANGED <<alerts, delivery, muted>>
    BY <2>1, <2>2 DEF delivery, AlertTypes
  <2>3. CASE AlertOf(job[a[1]]) # NoAlert /\ Fire(a, AlertOf(job[a[1]]))
    BY <2>1, <2>3, AlertOfType, FireStep, Pairs
  <2>4. QED
    BY <1>1, <2>2, <2>3, Zenon DEF InsertAlert
<1>2. ASSUME NEW o \in Others, NEW alert \in OtherAlerts, Raise(o, alert)
      PROVE  AlertTypes'
  BY <1>2, OtherAlertsType, FireStep, Pairs DEF Raise
<1>3. ASSUME NEW a \in Ids, Pick(a)
      PROVE  AlertTypes'
  BY <1>3 DEF Pick, AlertTypes
<1>4. ASSUME NEW a \in Ids, NEW r \in Routes \cup {Bot}, NEW answered \in BOOLEAN,
             Call(a, r, answered)
      PROVE  AlertTypes'
  <2>1. {r} \ {Bot} \subseteq Routes
    OBVIOUS
  <2>2. QED
    BY <1>4, <2>1 DEF Call, AlertTypes
<1>5. ASSUME NEW a \in Ids, NEW r \in Routes, Record(a, r)
      PROVE  AlertTypes'
  BY <1>5 DEF Record, AlertTypes
<1>6. ASSUME NEW a \in Ids, Cut(a) \/ Evict(a)
      PROVE  AlertTypes'
  BY <1>6 DEF Cut, Evict, AlertTypes
<1>7. ASSUME NEW r \in Routes, AddRoute(r) \/ DeleteRoute(r)
      PROVE  AlertTypes'
  BY <1>7 DEF AddRoute, DeleteRoute, delivery, AlertTypes
<1>8. CASE \/ \E p \in Posts : Client(p) \/ DeleteDevice(p)
           \/ \E a \in Attempts : Find(a) \/ InsertJob(a) \/ HandlerFails(a)
           \/ UNCHANGED vars
  <2>1. UNCHANGED <<alerts, route, delivery, muted>>
    BY <1>8, Zenon DEF Client, Send, Acknowledge, Retry, GiveUp, DeleteDevice, Find, InsertJob,
       HandlerFails, vars
  <2>2. QED
    BY <2>1 DEF delivery, AlertTypes
<1>9. QED
  BY <1>1, <1>2, <1>3, <1>4, <1>5, <1>6, <1>7, <1>8, Zenon DEF Next, Handler, Deliver, Operator

LEMMA FaultsStep == FaultTypes /\ [Next]_vars => FaultTypes' /\ hit \subseteq hit'
<1> SUFFICES ASSUME FaultTypes, [Next]_vars
             PROVE  FaultTypes' /\ hit \subseteq hit'
  OBVIOUS
<1>1. \A p \in Posts : Client(p) => UNCHANGED <<hit, faults>> \/ Fault(p)
  BY Zenon DEF Client, Send, Acknowledge, Retry, GiveUp
<1>2. \A a \in Attempts : Handler(a) => UNCHANGED <<hit, faults>> \/ Fault(a)
  BY Zenon DEF Handler, Find, InsertJob, InsertAlert, HandlerFails
<1>3. \A o \in Others, alert \in OtherAlerts : Raise(o, alert) => UNCHANGED <<hit, faults>>
  BY Zenon DEF Raise
<1>4. \A a \in Ids : Deliver(a) \/ Cut(a) \/ Evict(a) => UNCHANGED <<hit, faults>> \/ Fault(a)
  BY Zenon DEF Deliver, Pick, Call, Record, Cut, Evict
<1>5. Operator => UNCHANGED <<hit, faults>>
  BY Zenon DEF Operator, AddRoute, DeleteRoute, DeleteDevice
<1>6. UNCHANGED <<hit, faults>> \/ \E x \in Posts \cup Ids : Fault(x)
  BY <1>1, <1>2, <1>3, <1>4, <1>5, Pairs, Zenon DEF Next, vars
<1>7. CASE UNCHANGED <<hit, faults>>
  BY <1>7 DEF FaultTypes
<1>8. QED
  BY <1>6, <1>7, FaultStep

LEMMA TypeStep == TypeOK /\ [Next]_vars => TypeOK'
BY TypeParts, PostStep, AlertStep, FaultsStep

\* Every state is well typed; an attempt exists only when its client made it.
THEOREM TypeCorrect == Spec => []TypeOK
BY TypeInit, TypeStep, PTL DEF Spec

-----------------------------------------------------------------------------
(* The inductive invariant                                                 *)

\* The life of an attempt: its row, then its alert, and no delivery before it.
Filed(a) ==
    /\ req[a] \in {"stored", "done"} => a \in jobs
    /\ req[a] = "done" => alerts[a] = AlertOf(job[a[1]])
    /\ req[a] # "done" => alerts[a] = NoAlert /\ stage[a] = "none"

\* An acknowledged post has an attempt that ended well; a second attempt
\* follows a failed one, or a lost answer.
Answered(p) ==
    /\ client[p] = "ok" => \E i \in {1, 2} : req[<<p, i>>] = "done"
    /\ req[<<p, 2>>] # "none" => req[<<p, 1>>] = "failed" \/ p \in hit

\* The life of a delivery: nothing is called before its alert is stored, the
\* muted routes are gone, and only calls that were made are recorded.
Delivered(a) ==
    /\ stage[a] = "none" => todo[a] = {} /\ called[a] = {} /\ open[a] = {}
    /\ muted[a] \subseteq {r \in Routes : route[r] = "gone"}
    /\ (todo[a] \cup called[a]) \cap muted[a] = {}
    /\ open[a] \subseteq called[a] \cap Routes
    /\ stage[a] = "rejected" => a \in hit \/ \E r \in called[a] \cap Routes : route[r] = "gone"

IInv ==
    /\ TypeOK
    /\ \A a \in Attempts : Filed(a)
    /\ \A p \in Posts : Answered(p)
    /\ \A a \in Ids : Delivered(a)

LEMMA IInvInit == Init => IInv
<1> SUFFICES ASSUME Init
             PROVE  IInv
  OBVIOUS
<1>1. TypeOK
  BY TypeInit
<1>2. \A a \in Attempts : Filed(a)
  BY Pairs DEF Init, Filed
<1>3. \A p \in Posts : Answered(p)
  BY Pairs DEF Init, Answered
<1>4. \A a \in Ids : Delivered(a)
  BY DEF Init, Delivered
<1>5. QED
  BY <1>1, <1>2, <1>3, <1>4 DEF IInv

\* What the delivery of one alert does to that alert, and to no other.
Alone(a) ==
    /\ \A b \in Ids \ {a} : /\ stage'[b] = stage[b] /\ todo'[b] = todo[b]
                            /\ open'[b] = open[b] /\ called'[b] = called[b]
                            /\ muted'[b] = muted[b] /\ alerts'[b] = alerts[b]

\* A step that is about other alerts: routes only go, the books only grow.
LEMMA Bystander ==
    ASSUME TypeOK, NEW b \in Ids, Delivered(b), hit \subseteq hit',
           \A r \in Routes : route[r] = "gone" => route'[r] = "gone",
           stage'[b] = stage[b], todo'[b] = todo[b], open'[b] = open[b],
           called'[b] = called[b], muted'[b] = muted[b]
    PROVE  Delivered(b)'
BY DEF Delivered

LEMMA HitGrows == TypeOK /\ [Next]_vars => hit \subseteq hit'
BY TypeParts, FaultsStep

LEMMA FiredStep ==
    ASSUME TypeOK, NEW a \in Ids, NEW alert, Fire(a, alert), Delivered(a), stage[a] = "none",
           route' = route, hit \subseteq hit'
    PROVE  Alone(a) /\ Delivered(a)' /\ alerts'[a] = alert
<1>1. AlertTypes
  BY TypeParts
<1>2. Alone(a) /\ alerts'[a] = alert
  BY <1>1 DEF Fire, Alone, AlertTypes
<1>3. /\ todo' = todo /\ open' = open /\ called' = called /\ stage'[a] = "pick"
      /\ muted'[a] = {r \in Routes : route[r] = "gone"}
  BY <1>1 DEF Fire, AlertTypes
<1>4. QED
  BY <1>2, <1>3 DEF Delivered

LEMMA DeliverStep ==
    ASSUME IInv, [Next]_vars, NEW a \in Ids, Deliver(a) \/ Cut(a) \/ Evict(a)
    PROVE  /\ Alone(a) /\ Delivered(a)' /\ stage[a] # "none"
           /\ UNCHANGED <<post, alerts, route>>
<1>0. AlertTypes /\ Delivered(a) /\ hit \subseteq hit' /\ Bot \notin Routes
  BY TypeParts, HitGrows, ConstantsAssumption DEF IInv
<1>1. CASE Pick(a)
  <2>1. /\ stage[a] = "pick" /\ stage'[a] = "send" /\ called' = called /\ open' = open
        /\ muted' = muted /\ route' = route
        /\ todo'[a] = {r \in Routes : route[r] = "live" /\ Wants(r, alerts[a])} \cup {Bot}
    BY <1>0, <1>1 DEF Pick, AlertTypes
  <2>2. Alone(a) /\ UNCHANGED <<post, alerts, route>>
    BY <1>0, <1>1 DEF Pick, AlertTypes, Alone
  <2>3. Delivered(a)'
    BY <1>0, <2>1 DEF Delivered
  <2>4. QED
    BY <2>1, <2>2, <2>3
<1>2. ASSUME NEW r \in Routes \cup {Bot}, NEW answered \in BOOLEAN, Call(a, r, answered)
      PROVE  /\ Alone(a) /\ Delivered(a)' /\ stage[a] # "none"
             /\ UNCHANGED <<post, alerts, route>>
  <2>1. /\ stage' = stage /\ called'[a] = called[a] \cup {r} /\ r \in todo[a]
        /\ todo'[a] = todo[a] \ {r} /\ open'[a] = open[a] \cup ({r} \ {Bot})
        /\ muted' = muted /\ route' = route
    BY <1>0, <1>2 DEF Call, AlertTypes
  <2>2. Alone(a) /\ UNCHANGED <<post, alerts, route>>
    BY <1>0, <1>2 DEF Call, AlertTypes, Alone
  <2>3. stage[a] # "none"
    BY <1>0, <2>1 DEF Delivered
  <2>4. Delivered(a)'
    BY <1>0, <2>1, <2>3 DEF Delivered
  <2>5. QED
    BY <2>2, <2>3, <2>4
<1>3. ASSUME NEW r \in Routes, Record(a, r)
      PROVE  /\ Alone(a) /\ Delivered(a)' /\ stage[a] # "none"
             /\ UNCHANGED <<post, alerts, route>>
  <2>1. /\ r \in open[a] /\ open'[a] = open[a] \ {r} /\ called' = called /\ todo' = todo
        /\ muted' = muted /\ route' = route
        /\ stage'[a] = stage[a] \/ (stage'[a] = "rejected" /\ (route[r] = "gone" \/ a \in hit'))
    BY <1>0, <1>3 DEF Record, Fault, AlertTypes
  <2>2. Alone(a) /\ UNCHANGED <<post, alerts, route>>
    BY <1>0, <1>3 DEF Record, AlertTypes, Alone
  <2>3. stage[a] # "none" /\ r \in called[a]
    BY <1>0, <2>1 DEF Delivered
  <2>4. Delivered(a)'
    BY <1>0, <2>1, <2>3 DEF Delivered
  <2>5. QED
    BY <2>2, <2>3, <2>4
<1>4. CASE Cut(a)
  <2>1. /\ stage' = stage /\ called' = called /\ muted' = muted /\ route' = route
        /\ todo'[a] = {} /\ open'[a] = {} /\ stage[a] = "rejected"
    BY <1>0, <1>4 DEF Cut, AlertTypes
  <2>2. Alone(a) /\ UNCHANGED <<post, alerts, route>>
    BY <1>0, <1>4 DEF Cut, AlertTypes, Alone
  <2>3. Delivered(a)'
    BY <1>0, <2>1 DEF Delivered
  <2>4. QED
    BY <2>1, <2>2, <2>3
<1>5. CASE Evict(a)
  <2>1. /\ stage'[a] = "evicted" /\ called' = called /\ muted' = muted /\ route' = route
        /\ todo'[a] = {} /\ open'[a] = {}
        /\ stage[a] = "pick" \/ todo[a] \cup open[a] # {}
    BY <1>0, <1>5 DEF Evict, AlertTypes
  <2>2. Alone(a) /\ UNCHANGED <<post, alerts, route>>
    BY <1>0, <1>5 DEF Evict, AlertTypes, Alone
  <2>3. stage[a] # "none"
    BY <1>0, <2>1 DEF Delivered
  <2>4. Delivered(a)'
    BY <1>0, <2>1 DEF Delivered
  <2>5. QED
    BY <2>2, <2>3, <2>4
<1>6. QED
  BY <1>1, <1>2, <1>3, <1>4, <1>5, Zenon DEF Deliver

\* A handler moves its attempt on: what was answered stays answered.
LEMMA HandlerAnswers ==
    ASSUME TypeOK, NEW a \in Attempts, NEW s, req' = [req EXCEPT ![a] = s],
           req[a] \in {"sent", "found", "stored"}, s # "none",
           client' = client, hit \subseteq hit', NEW p \in Posts, Answered(p)
    PROVE  Answered(p)'
<1>1. \A b \in Attempts : req'[b] = IF b = a THEN s ELSE req[b]
  BY DEF TypeOK
<1>2. <<p, 1>> \in Attempts /\ <<p, 2>> \in Attempts
  BY Pairs
<1>3. client'[p] = "ok" => \E i \in {1, 2} : req'[<<p, i>>] = "done"
  BY <1>1, <1>2 DEF Answered
<1>4. req'[<<p, 2>>] # "none" => req'[<<p, 1>>] = "failed" \/ p \in hit'
  BY <1>1, <1>2 DEF Answered
<1>5. QED
  BY <1>3, <1>4 DEF Answered

LEMMA IInvStep == IInv /\ [Next]_vars => IInv'
<1> SUFFICES ASSUME IInv, [Next]_vars
             PROVE  IInv'
  OBVIOUS
<1>0. TypeOK /\ TypeOK' /\ PostTypes /\ AlertTypes /\ (\A p \in Posts : Linked(p)) /\ hit \subseteq hit'
  BY TypeStep, TypeParts, HitGrows DEF IInv
<1>f. /\ \A a \in Attempts : Filed(a)
      /\ \A p \in Posts : Answered(p)
      /\ \A a \in Ids : Delivered(a)
  BY DEF IInv
<1>1. ASSUME NEW a \in Ids, Deliver(a) \/ Cut(a) \/ Evict(a)
      PROVE  IInv'
  <2>1. /\ Alone(a) /\ Delivered(a)' /\ stage[a] # "none"
        /\ UNCHANGED <<client, job, req, orphan, jobs, alerts, route>>
    BY <1>1, DeliverStep DEF post
  <2>2. ASSUME NEW b \in Ids
        PROVE  Delivered(b)'
    BY <1>0, <1>f, <2>1, Bystander DEF Alone
  <2>3. ASSUME NEW b \in Attempts
        PROVE  Filed(b)'
    BY <1>f, <2>1, Pairs DEF Alone, Filed
  <2>4. ASSUME NEW p \in Posts
        PROVE  Answered(p)'
    BY <1>0, <1>f, <2>1 DEF Answered
  <2>5. QED
    BY <1>0, <2>2, <2>3, <2>4 DEF IInv
<1>2. ASSUME NEW o \in Others, NEW alert \in OtherAlerts, Raise(o, alert)
      PROVE  IInv'
  <2>1. o \in Ids /\ o \notin Attempts /\ stage[o] = "none"
    BY <1>2, Pairs DEF Raise
  <2>2. Fire(o, alert) /\ UNCHANGED <<client, job, req, orphan, jobs, route>>
    BY <1>2 DEF Raise, post
  <2>3. Alone(o) /\ Delivered(o)'
    BY <1>0, <1>f, <2>1, <2>2, FiredStep
  <2>4. ASSUME NEW b \in Ids
        PROVE  Delivered(b)'
    BY <1>0, <1>f, <2>2, <2>3, Bystander DEF Alone
  <2>5. ASSUME NEW b \in Attempts
        PROVE  Filed(b)'
    BY <1>f, <2>1, <2>2, <2>3, Pairs DEF Alone, Filed
  <2>6. ASSUME NEW p \in Posts
        PROVE  Answered(p)'
    BY <1>0, <1>f, <2>2 DEF Answered
  <2>7. QED
    BY <1>0, <2>4, <2>5, <2>6 DEF IInv
<1>3. ASSUME NEW a \in Attempts, Handler(a)
      PROVE  IInv'
  <2>0. /\ UNCHANGED <<client, job, route>> /\ req[a] \in {"sent", "found", "stored"}
        /\ jobs \subseteq jobs'
    BY <1>3 DEF Handler, Find, InsertJob, InsertAlert, HandlerFails, At
  <2>1. PICK s \in {"found", "stored", "done", "failed"} : req' = [req EXCEPT ![a] = s]
    BY <1>3 DEF Handler, Find, InsertJob, InsertAlert, HandlerFails, At
  <2>2. \A b \in Attempts : req'[b] = IF b = a THEN s ELSE req[b]
    BY <1>0, <2>1 DEF PostTypes
  <2>3. a \in Ids /\ stage[a] = "none" /\ alerts[a] = NoAlert
    BY <1>f, <2>0, Pairs DEF Filed
  <2>4. \A p \in Posts : Answered(p)'
    BY <1>0, <1>f, <2>0, <2>1, HandlerAnswers
  <2>5. CASE InsertAlert(a) /\ Fire(a, AlertOf(job[a[1]])) /\ s = "done"
    <3>1. Alone(a) /\ Delivered(a)' /\ alerts'[a] = AlertOf(job[a[1]])
      BY <1>0, <1>f, <2>0, <2>3, <2>5, FiredStep
    <3>2. ASSUME NEW b \in Ids
          PROVE  Delivered(b)'
      BY <1>0, <1>f, <2>0, <3>1, Bystander DEF Alone
    <3>3. a \in jobs
      BY <1>f, <2>5 DEF InsertAlert, At, Filed
    <3>4. ASSUME NEW b \in Attempts
          PROVE  Filed(b)'
      BY <1>f, <2>0, <2>2, <2>5, <3>1, <3>3, Pairs DEF Alone, Filed
    <3>5. QED
      BY <1>0, <2>4, <3>2, <3>4 DEF IInv
  <2>6. CASE UNCHANGED <<alerts, delivery, muted>>
    <3>1. UNCHANGED <<alerts, stage, todo, open, called, muted>>
      BY <2>6 DEF delivery
    <3>2. ASSUME NEW b \in Ids
          PROVE  Delivered(b)'
      BY <1>0, <1>f, <2>0, <3>1, Bystander
    <3>3. s = "stored" => a \in jobs'
      BY <1>0, <1>3, <2>2 DEF Handler, Find, InsertJob, InsertAlert, HandlerFails, At, PostTypes
    <3>4. s = "done" => a \in jobs /\ AlertOf(job[a[1]]) = NoAlert
      <4>1. s = "done" => InsertAlert(a)
        BY <1>0, <1>3, <2>2 DEF Handler, Find, InsertJob, HandlerFails, At, PostTypes
      <4>2. s = "done" => req[a] = "stored"
        BY <4>1 DEF InsertAlert, At
      <4>3. s = "done" => AlertOf(job[a[1]]) = NoAlert
        <5>1. SUFFICES ASSUME s = "done", AlertOf(job[a[1]]) # NoAlert
                       PROVE  FALSE
          OBVIOUS
        <5>2. req'[a] = "done" /\ InsertAlert(a)
          BY <2>2, <4>1, <5>1
        <5>3. a \notin orphan
          BY <1>0, <5>1, <5>2 DEF InsertAlert, At, PostTypes
        <5>4. Fire(a, AlertOf(job[a[1]]))
          BY <5>1, <5>2, <5>3 DEF InsertAlert
        <5>5. stage'[a] = "pick"
          BY <1>0, <2>3, <5>4 DEF Fire, AlertTypes
        <5>6. QED
          BY <2>3, <3>1, <5>5
      <4>4. QED
        BY <1>f, <4>2, <4>3 DEF Filed
    <3>5. ASSUME NEW b \in Attempts
          PROVE  Filed(b)'
      BY <1>f, <2>0, <2>2, <2>3, <3>1, <3>3, <3>4 DEF Filed
    <3>6. QED
      BY <1>0, <2>4, <3>2, <3>5 DEF IInv
  <2>7. QED
    <3>1. CASE Find(a) \/ InsertJob(a) \/ HandlerFails(a)
      BY <2>6, <3>1, Zenon DEF Find, InsertJob, HandlerFails
    <3>2. CASE InsertAlert(a)
      <4>1. CASE AlertOf(job[a[1]]) # NoAlert /\ a \notin orphan
        <5>1. Fire(a, AlertOf(job[a[1]]))
          BY <3>2, <4>1 DEF InsertAlert
        <5>2. req'[a] = "done"
          BY <1>0, <3>2, <4>1 DEF InsertAlert, At, PostTypes
        <5>3. QED
          BY <2>2, <2>5, <3>2, <5>1, <5>2
      <4>2. CASE ~(AlertOf(job[a[1]]) # NoAlert /\ a \notin orphan)
        <5>1. UNCHANGED <<alerts, delivery, muted>>
          BY <3>2, <4>2 DEF InsertAlert
        <5>2. QED
          BY <2>6, <5>1
      <4>3. QED
        BY <4>1, <4>2
    <3>3. QED
      BY <1>3, <3>1, <3>2 DEF Handler
<1>4. ASSUME NEW p \in Posts, Client(p)
      PROVE  IInv'
  <2>1. UNCHANGED <<jobs, alerts, route, stage, todo, open, called, muted>>
    BY <1>4 DEF Client, Send, Acknowledge, Retry, GiveUp, delivery
  <2>2. \A b \in Ids : Delivered(b)'
    BY <1>0, <1>f, <2>1, Bystander
  <2>3. CASE \E j \in Sent : Send(p, j)
    <3>1. PICK j \in Sent : Send(p, j)
      BY <2>3
    <3>2. /\ client[p] = "idle" /\ client' = [client EXCEPT ![p] = "first"]
          /\ job' = [job EXCEPT ![p] = j] /\ req' = [req EXCEPT ![<<p, 1>>] = "sent"]
      BY <3>1, Zenon DEF Send
    <3>3. req[<<p, 1>>] = "none" /\ req[<<p, 2>>] = "none"
      BY <1>0, <3>2 DEF Linked
    <3>4. ASSUME NEW b \in Attempts
          PROVE  Filed(b)'
      <4>1. CASE b[1] = p
        <5>1. req[b] = "none" /\ req'[b] \in {"none", "sent"}
          BY <1>0, <3>2, <3>3, <4>1, Pairs DEF PostTypes
        <5>2. QED
          BY <1>f, <2>1, <5>1 DEF Filed
      <4>2. CASE b[1] # p
        <5>1. req'[b] = req[b] /\ job'[b[1]] = job[b[1]]
          BY <1>0, <3>2, <4>2, Pairs DEF PostTypes
        <5>2. QED
          BY <1>f, <2>1, <5>1 DEF Filed
      <4>3. QED
        BY <4>1, <4>2
    <3>5. ASSUME NEW q \in Posts
          PROVE  Answered(q)'
      BY <1>0, <1>f, <3>2, <3>3, Pairs DEF PostTypes, Answered
    <3>6. QED
      BY <1>0, <2>2, <3>4, <3>5 DEF IInv
  <2>4. CASE Acknowledge(p) \/ GiveUp(p)
    <3>1. UNCHANGED <<job, req>>
      BY <2>4 DEF Acknowledge, GiveUp
    <3>2. \A b \in Attempts : Filed(b)'
      BY <1>f, <2>1, <3>1 DEF Filed
    <3>3. ASSUME NEW q \in Posts
          PROVE  Answered(q)'
      <4>1. client'[q] = "ok" => client[q] = "ok" \/ \E i \in {1, 2} : req[<<q, i>>] = "done"
        BY <1>0, <2>4 DEF Acknowledge, GiveUp, Waiting, Current, PostTypes
      <4>2. QED
        BY <1>0, <1>f, <3>1, <4>1 DEF Answered
    <3>4. QED
      BY <1>0, <2>2, <3>2, <3>3 DEF IInv
  <2>5. CASE Retry(p)
    <3>1. /\ client[p] = "first" /\ client' = [client EXCEPT ![p] = "second"] /\ job' = job
          /\ req' = [req EXCEPT ![<<p, 2>>] = "sent"]
          /\ req[<<p, 1>>] = "failed" \/ p \in hit'
      BY <2>5 DEF Retry, Fault
    <3>2. req[<<p, 2>>] = "none"
      BY <1>0, <3>1 DEF Linked
    <3>3. ASSUME NEW b \in Attempts
          PROVE  Filed(b)'
      BY <1>0, <1>f, <2>1, <3>1, <3>2, Pairs DEF PostTypes, Filed
    <3>4. ASSUME NEW q \in Posts
          PROVE  Answered(q)'
      BY <1>0, <1>f, <3>1, <3>2, Pairs DEF PostTypes, Answered
    <3>5. QED
      BY <1>0, <2>2, <3>3, <3>4 DEF IInv
  <2>6. QED
    BY <1>4, <2>3, <2>4, <2>5 DEF Client
<1>5. CASE Operator \/ UNCHANGED vars
  <2>1. UNCHANGED <<client, job, req, jobs, alerts, stage, todo, open, called, muted>>
    BY <1>5 DEF Operator, AddRoute, DeleteRoute, DeleteDevice, post, delivery, vars
  <2>2. \A r \in Routes : route[r] = "gone" => route'[r] = "gone"
    BY <1>0, <1>5 DEF Operator, AddRoute, DeleteRoute, DeleteDevice, vars, AlertTypes
  <2>3. \A b \in Ids : Delivered(b)'
    BY <1>0, <1>f, <2>1, <2>2, Bystander
  <2>4. \A b \in Attempts : Filed(b)'
    BY <1>f, <2>1 DEF Filed
  <2>5. \A p \in Posts : Answered(p)'
    BY <1>0, <1>f, <2>1 DEF Answered
  <2>6. QED
    BY <1>0, <2>3, <2>4, <2>5 DEF IInv
<1>6. QED
  BY <1>1, <1>2, <1>3, <1>4, <1>5, Zenon DEF Next

LEMMA Invariant == Spec => []IInv
BY IInvInit, IInvStep, PTL DEF Spec

-----------------------------------------------------------------------------
(* The theorems                                                            *)

\* What the agent was told is stored is stored, with the alert it maps to.
THEOREM AckIsTrue == Spec => []AckedIsAlerted
<1>1. IInv => AckedIsAlerted
  BY Pairs DEF IInv, Answered, Filed, AckedIsAlerted
<1>2. QED
  BY <1>1, Invariant, PTL

\* Only a lost answer makes one report alert twice.
THEOREM NoRepeatedAlert == Spec => []TwiceOnlyIfLost
<1>1. IInv => TwiceOnlyIfLost
  BY Pairs DEF IInv, Answered, Filed, TwiceOnlyIfLost
<1>2. QED
  BY <1>1, Invariant, PTL

\* A route deleted before an alert was stored is never called for it.
THEOREM NoCallToTheGone == Spec => []MutedStaysQuiet
<1>1. IInv => MutedStaysQuiet
  BY DEF IInv, Delivered, MutedStaysQuiet
<1>2. QED
  BY <1>1, Invariant, PTL

\* Only a fault or the record of a deleted route cuts a delivery short.
THEOREM SinksAreIndependent == Spec => []SinkFailureIsContained
<1>1. IInv => SinkFailureIsContained
  BY DEF IInv, Delivered, SinkFailureIsContained
<1>2. QED
  BY <1>1, Invariant, PTL
=============================================================================
