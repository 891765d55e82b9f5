----------------------------- MODULE JobAlerts -----------------------------
(***************************************************************************)
(* From a job report to the operator's chat: the agent's client posts a    *)
(* job, once or twice (minder.py); POST /jobs stores it and fires the      *)
(* alert its kind and status map to (ingest.ts); the alert is stored and   *)
(* delivered, after the answer, to the routes that want it (notify.ts).    *)
(* Operators add and delete routes and devices meanwhile (admin.ts).       *)
(*                                                                         *)
(* The attempt that inserts a job or an alert names the row.  Others are   *)
(* alerts without a job: a test alert, or one of the dead-man switch.      *)
(***************************************************************************)
EXTENDS Naturals, FiniteSets

CONSTANTS
    Posts,      \* send_job calls
    Others,     \* alerts that come from no job
    Routes,     \* alert_routes keys; a key is never issued twice
    Bot,        \* the Slack bot of the environment
    Sent,       \* the reports the agents post
    Asked,      \* what the operator who creates a route asks of it
    MaxFaults   \* bound: lost answers, D1 errors, evicted isolates

JobKinds == {"backup", "export", "drift", "update_check", "update_apply", "firmware_align",
             "health_check", "restore_validate", "inventory_sync"}
JobStatuses == {"success", "warning", "failed", "skipped"}
AlertKinds == {"heartbeat_missed", "heartbeat_recovered", "job_failed", "drift_detected",
               "update_available", "update_failed", "backup_succeeded", "update_applied",
               "restore_due", "manual"}
Rank == [info |-> 0, warning |-> 1, critical |-> 2]
Jobs == [kind : JobKinds, status : JobStatuses]
Alerts == [kind : AlertKinds, severity : DOMAIN Rank]
Filters == [events : SUBSET AlertKinds, min : DOMAIN Rank]   \* NULL events: all of them

\* What the agent posts after a tick's probe and after each kind of run.
HealthJobs == [kind : {"health_check"}, status : {"success", "failed"}]
ExportJobs == [kind : {"drift"}, status : {"warning", "failed"}]
                \cup [kind : {"export"}, status : {"success", "failed"}]
CheckJobs == [kind : {"update_check"}, status : {"success", "warning", "failed"}]
                \cup [kind : {"firmware_align"}, status : {"success", "warning"}]
InventoryJobs == [kind : {"inventory_sync"}, status : {"success"}]
BackupJobs == [kind : {"backup"}, status : {"success", "failed"}]
ApplyJobs == [kind : {"update_apply"}, status : {"success", "failed"}]
AgentJobs == HealthJobs \cup ExportJobs \cup CheckJobs \cup InventoryJobs
                \cup BackupJobs \cup ApplyJobs

Attempts == Posts \X {1, 2}

ASSUME ConstantsAssumption ==
    /\ Sent \subseteq AgentJobs
    /\ Asked \in [Routes -> Filters]
    /\ Bot \notin Routes
    /\ Posts \cap (Attempts \cup Others) = {} /\ Attempts \cap Others = {}
    /\ MaxFaults \in Nat

Ids == Attempts \cup Others
NoAlert == [kind |-> "none", severity |-> "info"]
Alert(kind, severity) == [kind |-> kind, severity |-> severity]

\* The alert a stored job fires.
AlertOf(j) ==
    CASE j.status = "failed" /\ j.kind \in {"update_apply", "firmware_align"}
           -> Alert("update_failed", "critical")
      [] j.status = "failed" /\ j.kind \notin {"update_apply", "firmware_align"}
           -> Alert("job_failed", "warning")
      [] j.status = "warning" /\ j.kind = "drift" -> Alert("drift_detected", "info")
      [] j.status = "warning" /\ j.kind \in {"update_check", "firmware_align"}
           -> Alert("update_available", "warning")
      [] j.status = "success" /\ j.kind = "backup" -> Alert("backup_succeeded", "info")
      [] j.status = "success" /\ j.kind = "update_apply" -> Alert("update_applied", "info")
      [] OTHER -> NoAlert

\* What fires without a job: the dead-man switch and POST /alerts/test.
OtherAlerts == {Alert("heartbeat_missed", "critical"), Alert("heartbeat_recovered", "info"),
                Alert("manual", "info")}

VARIABLES
    client,     \* where each send_job is
    job,        \* what it reports
    req,        \* where the worker is with each attempt
    orphan,     \* attempts whose device row was deleted after they found it
    jobs,       \* rows of `jobs`, by the attempt that inserted them
    alerts,     \* rows of `alerts`: the alert of each id, or NoAlert
    route,      \* the row of each key in `alert_routes`
    stage,      \* of the delivery of each alert
    todo,       \* targets a delivery has picked and not called yet
    open,       \* calls made whose row in `alert_deliveries` is not inserted yet
    called,     \* history: calls made
    muted,      \* history: routes deleted before the alert was stored
    hit,        \* history: posts whose answer was lost, ids another fault struck
    faults

post == <<client, job, req, orphan, jobs>>
delivery == <<stage, todo, open, called>>
vars == <<post, alerts, route, delivery, muted, hit, faults>>

\* Well-typed; an attempt exists only when its client made it.
TypeOK ==
    /\ client \in [Posts -> {"idle", "first", "second", "ok", "error"}]
    /\ job \in [Posts -> Sent \cup {NoAlert}]
    /\ req \in [Attempts -> {"none", "sent", "found", "stored", "done", "failed"}]
    /\ \A p \in Posts :
        /\ (client[p] = "idle") = (req[<<p, 1>>] = "none")
        /\ client[p] \in {"idle", "first"} => req[<<p, 2>>] = "none"
        /\ client[p] # "idle" => job[p] \in Sent
    /\ orphan \subseteq Attempts /\ jobs \subseteq Attempts
    /\ alerts \in [Ids -> Alerts \cup {NoAlert}]
    /\ route \in [Routes -> {"unused", "live", "gone"}]
    /\ stage \in [Ids -> {"none", "pick", "send", "rejected", "evicted"}]
    /\ todo \in [Ids -> SUBSET (Routes \cup {Bot})]
    /\ open \in [Ids -> SUBSET Routes]
    /\ called \in [Ids -> SUBSET (Routes \cup {Bot})]
    /\ muted \in [Ids -> SUBSET Routes]
    /\ hit \subseteq Posts \cup Ids
    /\ faults \in 0..MaxFaults

Init ==
    /\ client = [p \in Posts |-> "idle"] /\ job = [p \in Posts |-> NoAlert]
    /\ req = [a \in Attempts |-> "none"] /\ orphan = {} /\ jobs = {}
    /\ alerts = [a \in Ids |-> NoAlert]
    /\ route = [r \in Routes |-> "unused"]
    /\ stage = [a \in Ids |-> "none"]
    /\ todo = [a \in Ids |-> {}] /\ open = [a \in Ids |-> {}]
    /\ called = [a \in Ids |-> {}] /\ muted = [a \in Ids |-> {}]
    /\ hit = {} /\ faults = 0

Fault(x) == faults < MaxFaults /\ faults' = faults + 1 /\ hit' = hit \cup {x}

-----------------------------------------------------------------------------
(* MinderClient.send_job: two attempts                                     *)

Send(p, j) ==
    /\ client[p] = "idle"
    /\ client' = [client EXCEPT ![p] = "first"]
    /\ job' = [job EXCEPT ![p] = j]
    /\ req' = [req EXCEPT ![<<p, 1>>] = "sent"]
    /\ UNCHANGED <<orphan, jobs, alerts, route, delivery, muted, hit, faults>>

Current(p) == <<p, IF client[p] = "first" THEN 1 ELSE 2>>
Waiting(p) == client[p] \in {"first", "second"}

Acknowledge(p) ==
    /\ Waiting(p) /\ req[Current(p)] = "done"
    /\ client' = [client EXCEPT ![p] = "ok"]
    /\ UNCHANGED <<job, req, orphan, jobs, alerts, route, delivery, muted, hit, faults>>

RetryUncounted(p) ==
    /\ client[p] = "first" /\ req[<<p, 1>>] = "failed"
    /\ req' = [req EXCEPT ![<<p, 2>>] = "sent"]
    /\ UNCHANGED <<client, job, orphan, jobs, alerts, route, delivery, muted, hit, faults>>

\* A 500, or no answer in time: the attempt then goes on without its client.
Retry(p) ==
    /\ client[p] = "first"
    /\ \/ req[<<p, 1>>] = "failed" /\ UNCHANGED <<hit, faults>>
       \/ req[<<p, 1>>] # "failed" /\ Fault(p)
    /\ client' = [client EXCEPT ![p] = "second"]
    /\ req' = [req EXCEPT ![<<p, 2>>] = "sent"]
    /\ UNCHANGED <<job, orphan, jobs, alerts, route, delivery, muted>>

GiveUp(p) ==
    /\ client[p] = "second"
    /\ \/ req[<<p, 2>>] = "failed" /\ UNCHANGED <<hit, faults>>
       \/ req[<<p, 2>>] # "failed" /\ Fault(p)
    /\ client' = [client EXCEPT ![p] = "error"]
    /\ UNCHANGED <<job, req, orphan, jobs, alerts, route, delivery, muted>>

-----------------------------------------------------------------------------
(* POST /jobs                                                              *)

At(a, from, to) == req[a] = from /\ req' = [req EXCEPT ![a] = to]

\* findOrCreateDevice: there is a device row now.
Find(a) ==
    /\ At(a, "sent", "found")
    /\ UNCHANGED <<client, job, orphan, jobs, alerts, route, delivery, muted, hit, faults>>

\* fireAlert's INSERT, and its delivery handed to waitUntil.
Fire(a, alert) ==
    /\ alerts' = [alerts EXCEPT ![a] = alert]
    /\ muted' = [muted EXCEPT ![a] = {r \in Routes : route[r] = "gone"}]
    /\ stage' = [stage EXCEPT ![a] = "pick"]
    /\ UNCHANGED <<todo, open, called>>

InsertJobAfterAlert(a) ==
    LET alert == AlertOf(job[a[1]]) IN
    /\ At(a, "found", IF a \in orphan THEN "failed" ELSE "stored")
    /\ jobs' = IF a \in orphan THEN jobs ELSE jobs \cup {a}
    /\ IF alert # NoAlert /\ a \notin orphan THEN Fire(a, alert)
                                           ELSE UNCHANGED <<alerts, delivery, muted>>
    /\ UNCHANGED <<client, job, orphan, route, hit, faults>>

\* INSERT INTO jobs; the foreign key refuses a device that was deleted.
InsertJob(a) ==
    /\ At(a, "found", IF a \in orphan THEN "failed" ELSE "stored")
    /\ jobs' = IF a \in orphan THEN jobs ELSE jobs \cup {a}
    /\ UNCHANGED <<client, job, orphan, alerts, route, delivery, muted, hit, faults>>

InsertAlertUnawaited(a) ==
    LET alert == AlertOf(job[a[1]]) IN
    /\ At(a, "stored", "done")
    /\ IF alert # NoAlert /\ a \notin orphan THEN Fire(a, alert)
                                           ELSE UNCHANGED <<alerts, delivery, muted>>
    /\ UNCHANGED <<client, job, orphan, jobs, route, hit, faults>>

\* The alert of the stored job, if it has one, and the 201.
InsertAlert(a) ==
    LET alert == AlertOf(job[a[1]])
        refused == alert # NoAlert /\ a \in orphan
    IN
    /\ At(a, "stored", IF refused THEN "failed" ELSE "done")
    /\ IF alert # NoAlert /\ ~refused THEN Fire(a, alert)
                                      ELSE UNCHANGED <<alerts, delivery, muted>>
    /\ UNCHANGED <<client, job, orphan, jobs, route, hit, faults>>

\* A statement of the handler throws: app.onError answers 500.
HandlerFails(a) ==
    /\ req[a] \in {"sent", "found", "stored"}
    /\ req' = [req EXCEPT ![a] = "failed"]
    /\ Fault(a)
    /\ UNCHANGED <<client, job, orphan, jobs, alerts, route, delivery, muted>>

\* The dead-man switch or POST /alerts/test fires.
Raise(o, alert) ==
    /\ stage[o] = "none"
    /\ Fire(o, alert)
    /\ UNCHANGED <<post, route, hit, faults>>

-----------------------------------------------------------------------------
(* deliverAlert, under waitUntil                                           *)

Wants(r, alert) ==
    /\ alert.kind \in Asked[r].events
    /\ Rank[alert.severity] >= Rank[Asked[r].min]

PickCached(a) ==
    /\ stage[a] = "pick"
    /\ stage' = [stage EXCEPT ![a] = "send"]
    /\ todo' = [todo EXCEPT ![a] =
          {r \in Routes : route[r] # "unused" /\ Wants(r, alerts[a])} \cup {Bot}]
    /\ UNCHANGED <<post, alerts, route, open, called, muted, hit, faults>>

PickBotAsFallback(a) ==
    /\ stage[a] = "pick"
    /\ stage' = [stage EXCEPT ![a] = "send"]
    /\ LET wanting == {r \in Routes : route[r] = "live" /\ Wants(r, alerts[a])} IN
        todo' = [todo EXCEPT ![a] = IF wanting = {} THEN {Bot} ELSE wanting]
    /\ UNCHANGED <<post, alerts, route, open, called, muted, hit, faults>>

\* pickRoutes, and the bot, which gets every alert.
Pick(a) ==
    /\ stage[a] = "pick"
    /\ stage' = [stage EXCEPT ![a] = "send"]
    /\ todo' = [todo EXCEPT ![a] =
          {r \in Routes : route[r] = "live" /\ Wants(r, alerts[a])} \cup {Bot}]
    /\ UNCHANGED <<post, alerts, route, open, called, muted, hit, faults>>

CallUncaught(a, r, answered) ==
    /\ r \in todo[a]
    /\ todo' = [todo EXCEPT ![a] = @ \ {r}]
    /\ open' = [open EXCEPT ![a] = @ \cup (IF answered THEN {r} \ {Bot} ELSE {})]
    /\ called' = [called EXCEPT ![a] = @ \cup {r}]
    /\ stage' = IF answered THEN stage ELSE [stage EXCEPT ![a] = "rejected"]
    /\ UNCHANGED <<post, alerts, route, muted, hit, faults>>

\* The fetch of one target: what becomes of it, the handler catches it.  Calls
\* of the bot are not recorded.
Call(a, r, answered) ==
    /\ r \in todo[a]
    /\ todo' = [todo EXCEPT ![a] = @ \ {r}]
    /\ open' = [open EXCEPT ![a] = @ \cup ({r} \ {Bot})]
    /\ called' = [called EXCEPT ![a] = @ \cup {r}]
    /\ UNCHANGED <<post, alerts, route, stage, muted, hit, faults>>

\* INSERT INTO alert_deliveries; the foreign key refuses a deleted route, and
\* an INSERT that throws rejects the Promise.all of the whole delivery.
Record(a, r) ==
    /\ r \in open[a]
    /\ open' = [open EXCEPT ![a] = @ \ {r}]
    /\ \/ /\ stage' = IF route[r] = "gone" THEN [stage EXCEPT ![a] = "rejected"] ELSE stage
          /\ UNCHANGED <<hit, faults>>
       \/ /\ stage' = [stage EXCEPT ![a] = "rejected"]
          /\ Fault(a)
    /\ UNCHANGED <<post, alerts, route, todo, called, muted>>

\* waitUntil is over with the rejection: what is left may be cut off.
Cut(a) ==
    /\ stage[a] = "rejected" /\ todo[a] \cup open[a] # {}
    /\ todo' = [todo EXCEPT ![a] = {}]
    /\ open' = [open EXCEPT ![a] = {}]
    /\ UNCHANGED <<post, alerts, route, stage, called, muted, hit, faults>>

\* The isolate goes away, or the SELECT of the routes throws.
Evict(a) ==
    /\ stage[a] = "pick" \/ todo[a] \cup open[a] # {}
    /\ Fault(a)
    /\ stage' = [stage EXCEPT ![a] = "evicted"]
    /\ todo' = [todo EXCEPT ![a] = {}]
    /\ open' = [open EXCEPT ![a] = {}]
    /\ UNCHANGED <<post, alerts, route, called, muted>>

-----------------------------------------------------------------------------
(* Operators                                                               *)

AddRoute(r) ==
    /\ route[r] = "unused"
    /\ route' = [route EXCEPT ![r] = "live"]
    /\ UNCHANGED <<post, alerts, delivery, muted, hit, faults>>

DeleteRoute(r) ==
    /\ route[r] = "live"
    /\ route' = [route EXCEPT ![r] = "gone"]
    /\ UNCHANGED <<post, alerts, delivery, muted, hit, faults>>

\* Requests that hold the key of the row of the device p is about.
DeleteDevice(p) ==
    LET held == {a \in Attempts : a[1] = p /\ req[a] \in {"found", "stored"}} IN
    /\ ~(held \subseteq orphan)
    /\ orphan' = orphan \cup held
    /\ UNCHANGED <<client, job, req, jobs, alerts, route, delivery, muted, hit, faults>>

-----------------------------------------------------------------------------
Client(p) == (\E j \in Sent : Send(p, j)) \/ Acknowledge(p) \/ Retry(p) \/ GiveUp(p)
Handler(a) == Find(a) \/ InsertJob(a) \/ InsertAlert(a) \/ HandlerFails(a)
Deliver(a) ==
    \/ Pick(a)
    \/ \E r \in Routes \cup {Bot}, answered \in BOOLEAN : Call(a, r, answered)
    \/ \E r \in Routes : Record(a, r)
Operator ==
    \/ \E r \in Routes : AddRoute(r) \/ DeleteRoute(r)
    \/ \E p \in Posts : DeleteDevice(p)

Next ==
    \/ \E p \in Posts : Client(p)
    \/ \E a \in Attempts : Handler(a)
    \/ \E o \in Others, alert \in OtherAlerts : Raise(o, alert)
    \/ \E a \in Ids : Deliver(a) \/ Cut(a) \/ Evict(a)
    \/ Operator

Spec == Init /\ [][Next]_vars

\* A delivery goes on: waitUntil keeps the isolate, and a fetch ends.  Faults,
\* and the cut after a rejection, may come first.
FairSpec == Spec /\ \A a \in Ids : WF_vars(Deliver(a))

-----------------------------------------------------------------------------
(* Properties                                                              *)

\* What the agent was told is stored is stored: an acknowledged report has its
\* job, and the alert its kind and status map to (ingest.ts:213).
AckedIsAlerted ==
    \A p \in Posts : client[p] = "ok" =>
        \E i \in {1, 2} : <<p, i>> \in jobs /\ alerts[<<p, i>>] = AlertOf(job[p])

\* A report alerts twice only when the answer to its first attempt was lost: no
\* D1 error and no deletion of the device or of a route repeats an alert.
TwiceOnlyIfLost ==
    \A p \in Posts :
        alerts[<<p, 1>>] # NoAlert /\ alerts[<<p, 2>>] # NoAlert => p \in hit

\* A route deleted before an alert was stored is not called for it.
MutedStaysQuiet == \A a \in Ids : called[a] \cap muted[a] = {}

\* A sink that fails or answers an error costs the other targets nothing: a
\* delivery is rejected only by a fault, or by the record of a deleted route.
SinkFailureIsContained ==
    \A a \in Ids : stage[a] = "rejected" =>
        a \in hit \/ \E r \in called[a] \cap Routes : route[r] = "gone"

\* A stored alert is brought to each route that wants it and stays, and to the
\* bot, unless a fault or a rejected record ends its delivery.
AlertReachesRoutes ==
    \A a \in Ids, r \in Routes \cup {Bot} :
        (stage[a] = "pick" /\ (r = Bot \/ (route[r] = "live" /\ Wants(r, alerts[a]))))
            ~> \/ r \in called[a]
               \/ r \in Routes /\ route[r] = "gone"
               \/ stage[a] \in {"rejected", "evicted"}
=============================================================================
