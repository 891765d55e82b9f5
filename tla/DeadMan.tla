------------------------------ MODULE DeadMan ------------------------------
(***************************************************************************)
(* The worker's dead-man switch: heartbeat requests (ingest.ts), the cron  *)
(* sweep that marks silent devices down and alerts (scheduled.ts), and the *)
(* admin routes that create, retune and delete device rows (admin.ts), all *)
(* interleaved at the granularity of one D1 statement.                     *)
(*                                                                         *)
(* An id in Ids is a `dev_...` primary key; it is never reused.  A         *)
(* threshold in Limits is `interval + grace` of a row, NULL overrides      *)
(* already replaced by the environment's defaults (DefaultLimit).          *)
(***************************************************************************)
EXTENDS Naturals, FiniteSets

CONSTANTS
    Names,          \* device names of one agent
    Ids,            \* device primary keys
    NoName,         \* nameOf[i] while the key i was never issued
    NoId,           \* the key of a request that works on no row
    Beats,          \* heartbeat requests that can be in flight at once
    Sweeps,         \* sweeps that can be in flight at once (cron + waitUntil)
    Reported,       \* statuses the agents report
    Limits,         \* values of interval + grace
    DefaultLimit,   \* interval + grace of a row without overrides
    MinLimit,       \* a lower bound of Limits
    MaxDelay,       \* bound: a heartbeat request is served within MaxDelay
    MaxTime,        \* bound: the clock stops here
    MaxFaults       \* bound: D1 errors and evicted isolates

Statuses == {"unknown", "ok", "degraded", "down"}

ASSUME ConstantsAssumption ==
    /\ NoName \notin Names
    /\ NoId \notin Ids
    /\ Reported \subseteq Statuses
    /\ Limits \subseteq Nat
    /\ DefaultLimit \in Limits
    /\ MinLimit \in Nat
    /\ \A l \in Limits : MinLimit <= l
    /\ MaxTime \in Nat \ {0}
    /\ MaxFaults \in Nat

\* A heartbeat request takes at most half of the shortest threshold (admin.ts
\* refuses an interval below 30 s; the default threshold is 4200 s).  Half, for
\* two requests may be late at once: one writes an old last_seen_at while the
\* other has still to announce a recovery.
ASSUME DelayAssumption == MaxDelay \in Nat /\ 2 * MaxDelay <= MinLimit

Null == 0                   \* last_seen_at IS NULL
Time == 1..MaxTime

VARIABLES
    clock,      \* nowSeconds()
    live,       \* keys of the rows of `devices`
    nameOf,     \* devices.name of every key ever issued
    status,     \* devices.last_status
    seen,       \* devices.last_seen_at, or Null
    limit,      \* interval + grace in force for the row
    hb,         \* heartbeat requests in flight
    sw,         \* sweeps in flight
    missed,     \* heartbeat_missed rows of `alerts`, by (device, last_seen_at)
    newest,     \* kind of the newest heartbeat alert of a device
    flipped,    \* history: rows whose current `down` was written by a sweep
    dropped,    \* history: (device, last_seen_at) whose alert died with a fault
    faults      \* faults so far

row == <<live, nameOf, status, seen, limit, flipped>>
alerts == <<missed, newest, dropped>>
vars == <<clock, row, hb, sw, alerts, faults>>

IdleBeat == [pc |-> "idle", id |-> NoId, name |-> NoName, status |-> "ok",
                prev |-> "unknown", at |-> Null]
IdleSweep == [todo |-> {}, lost |-> {}, snap |-> [i \in Ids |-> Null]]

Beat == [pc : {"idle", "insert", "update", "announce"},
         id : Ids \cup {NoId}, name : Names \cup {NoName}, status : Statuses, prev : Statuses,
         at : 0..MaxTime]
Sweep == [todo : SUBSET Ids, lost : SUBSET Ids, snap : [Ids -> 0..MaxTime]]

\* Well-typed tables and requests, and the schema's UNIQUE (agent_id, name):
\* two rows of `devices` never share a name (0001_init.sql:26), although two
\* requests may both have found the name free before they INSERT.
TypeOK ==
    /\ clock \in Time
    /\ live \subseteq Ids
    /\ nameOf \in [Ids -> Names \cup {NoName}]
    /\ status \in [Ids -> Statuses]
    /\ seen \in [Ids -> 0..MaxTime]
    /\ limit \in [Ids -> Limits]
    /\ flipped \subseteq Ids
    /\ hb \in [Beats -> Beat]
    /\ \A h \in Beats : /\ hb[h].pc = "insert" => hb[h].name \in Names
                        /\ hb[h].pc \in {"update", "announce"} => hb[h].id \in Ids
    /\ sw \in [Sweeps -> Sweep]
    /\ \A w \in Sweeps : \A i \in sw[w].todo \cup sw[w].lost : sw[w].snap[i] # Null
    /\ missed \in [Ids \X Time -> Nat]
    /\ newest \in [Ids -> {"none", "heartbeat_missed", "heartbeat_recovered"}]
    /\ dropped \subseteq Ids \X Time
    /\ faults \in 0..MaxFaults
    /\ \A i \in live : nameOf[i] # NoName
    /\ \A i, j \in live : nameOf[i] = nameOf[j] => i = j

Init ==
    /\ clock = 1
    /\ live = {} /\ flipped = {}
    /\ nameOf = [i \in Ids |-> NoName]
    /\ status = [i \in Ids |-> "unknown"]
    /\ seen = [i \in Ids |-> Null]
    /\ limit = [i \in Ids |-> DefaultLimit]
    /\ hb = [h \in Beats |-> IdleBeat]
    /\ sw = [w \in Sweeps |-> IdleSweep]
    /\ missed = [k \in Ids \X Time |-> 0]
    /\ newest = [i \in Ids |-> "none"]
    /\ dropped = {}
    /\ faults = 0

Taken(n) == \E i \in live : nameOf[i] = n

-----------------------------------------------------------------------------
(* Time.  The environment never lets a heartbeat request outlive MaxDelay.  *)

Tick ==
    /\ clock < MaxTime
    /\ \A h \in Beats : hb[h].pc # "idle" => clock < hb[h].at + MaxDelay
    /\ clock' = clock + 1
    /\ UNCHANGED <<row, hb, sw, alerts, faults>>

-----------------------------------------------------------------------------
(* POST /v1/ingest/heartbeat                                               *)

\* The SELECT of findOrCreateDevice finds the row: its status is remembered.
HbFind(h, i, s) ==
    /\ hb[h].pc = "idle"
    /\ i \in live
    /\ hb' = [hb EXCEPT ![h] = [pc |-> "update", id |-> i, name |-> NoName,
                                status |-> s, prev |-> status[i], at |-> clock]]
    /\ UNCHANGED <<clock, row, sw, alerts, faults>>

\* The SELECT finds no row of that name.
HbMiss(h, n, s) ==
    /\ hb[h].pc = "idle"
    /\ ~Taken(n)
    /\ hb' = [hb EXCEPT ![h] = [pc |-> "insert", id |-> NoId, name |-> n,
                                status |-> s, prev |-> "unknown", at |-> clock]]
    /\ UNCHANGED <<clock, row, sw, alerts, faults>>

\* A new row: never seen, status unknown, no override of the defaults.
NewRow(i, n, l) ==
    /\ nameOf[i] = NoName
    /\ live' = live \cup {i}
    /\ nameOf' = [nameOf EXCEPT ![i] = n]
    /\ status' = [status EXCEPT ![i] = "unknown"]
    /\ seen' = [seen EXCEPT ![i] = Null]
    /\ limit' = [limit EXCEPT ![i] = l]
    /\ UNCHANGED flipped

\* The request b after its INSERT of row i.
Inserted(b, i) == [pc |-> "update", id |-> i, name |-> NoName,
                   status |-> b.status, prev |-> "unknown", at |-> clock]

HbInsertUnchecked(h) ==
    /\ hb[h].pc = "insert"
    /\ \E i \in Ids :
         /\ NewRow(i, hb[h].name, DefaultLimit)
         /\ hb' = [hb EXCEPT ![h] = Inserted(hb[h], i)]
    /\ UNCHANGED <<clock, sw, alerts, faults>>

\* INSERT INTO devices; when another request created the name meanwhile the
\* UNIQUE constraint throws and the request ends in a 500.
HbInsert(h) ==
    /\ hb[h].pc = "insert"
    /\ \/ /\ Taken(hb[h].name)
          /\ hb' = [hb EXCEPT ![h] = IdleBeat]
          /\ UNCHANGED row
       \/ /\ ~Taken(hb[h].name)
          /\ \E i \in Ids :
               /\ NewRow(i, hb[h].name, DefaultLimit)
               /\ hb' = [hb EXCEPT ![h] = Inserted(hb[h], i)]
    /\ UNCHANGED <<clock, sw, alerts, faults>>

\* UPDATE devices SET last_seen_at, last_status: `now` was read after the
\* SELECT and before the UPDATE takes effect.  The alert is decided on the
\* status the SELECT read.  No row matches when the device was deleted.
HbUpdate(h) ==
    LET b == hb[h] IN
    /\ b.pc = "update"
    /\ \E now \in b.at..clock :
         IF b.id \in live
           THEN /\ status' = [status EXCEPT ![b.id] = b.status]
                /\ seen' = [seen EXCEPT ![b.id] = now]
                /\ flipped' = flipped \ {b.id}
           ELSE UNCHANGED <<status, seen, flipped>>
    /\ IF b.prev = "down" /\ b.status # "down"
         THEN hb' = [hb EXCEPT ![h].pc = "announce"]
         ELSE hb' = [hb EXCEPT ![h] = IdleBeat]
    /\ UNCHANGED <<clock, live, nameOf, limit, sw, alerts, faults>>

\* fireAlert(heartbeat_recovered); the foreign key rejects a deleted device.
HbAnnounce(h) ==
    LET b == hb[h] IN
    /\ b.pc = "announce"
    /\ newest' = IF b.id \in live
                   THEN [newest EXCEPT ![b.id] = "heartbeat_recovered"]
                   ELSE newest
    /\ hb' = [hb EXCEPT ![h] = IdleBeat]
    /\ UNCHANGED <<clock, row, sw, missed, dropped, faults>>

\* A D1 error or an evicted isolate between two statements.
HbAbort(h) ==
    /\ hb[h].pc # "idle"
    /\ faults < MaxFaults
    /\ faults' = faults + 1
    /\ hb' = [hb EXCEPT ![h] = IdleBeat]
    /\ UNCHANGED <<clock, row, sw, alerts>>

-----------------------------------------------------------------------------
(* runScheduledSweep                                                       *)

\* The devices the sweep considers stale at its own `now`.
StaleOverridesOnly(now) ==
    {i \in live : /\ status[i] # "down"
                  /\ seen[i] # Null
                  /\ limit[i] # DefaultLimit
                  /\ now > seen[i] + limit[i]}

Stale(now) ==
    {i \in live : /\ status[i] # "down"
                  /\ seen[i] # Null
                  /\ now > seen[i] + limit[i]}

\* `now` is read when the cron fires, the SELECT runs at or after it.
SweepSelect(w, now) ==
    /\ sw[w] = IdleSweep
    /\ now \in 1..clock
    /\ Stale(now) # {}
    /\ sw' = [sw EXCEPT ![w] =
                [todo |-> Stale(now), lost |-> {},
                 snap |-> [i \in Ids |-> IF i \in Stale(now) THEN seen[i]
                                                             ELSE Null]]]
    /\ UNCHANGED <<clock, row, hb, alerts, faults>>

\* The sweep with device i behind it, and with the given devices to announce.
Passed(s, i, lost) ==
    IF s.todo = {i} /\ lost = {}
      THEN IdleSweep
      ELSE [s EXCEPT !.todo = @ \ {i}, !.lost = lost]

SweepFlipAnySeen(w, i) ==
    LET s == sw[w]
        hit == i \in live /\ status[i] # "down"
    IN
    /\ i \in s.todo
    /\ status' = IF hit THEN [status EXCEPT ![i] = "down"] ELSE status
    /\ flipped' = IF hit THEN flipped \cup {i} ELSE flipped
    /\ sw' = [sw EXCEPT ![w] = Passed(s, i, IF hit THEN s.lost \cup {i}
                                                   ELSE s.lost)]
    /\ UNCHANGED <<clock, live, nameOf, seen, limit, hb, alerts, faults>>

SweepFlipAnyStatus(w, i) ==
    LET s == sw[w]
        hit == i \in live /\ seen[i] = s.snap[i]
    IN
    /\ i \in s.todo
    /\ status' = IF hit THEN [status EXCEPT ![i] = "down"] ELSE status
    /\ flipped' = IF hit THEN flipped \cup {i} ELSE flipped
    /\ sw' = [sw EXCEPT ![w] = Passed(s, i, IF hit THEN s.lost \cup {i}
                                                   ELSE s.lost)]
    /\ UNCHANGED <<clock, live, nameOf, seen, limit, hb, alerts, faults>>

SweepFlipUncounted(w, i) ==
    LET s == sw[w]
        hit == i \in live /\ seen[i] = s.snap[i] /\ status[i] # "down"
    IN
    /\ i \in s.todo
    /\ status' = IF hit THEN [status EXCEPT ![i] = "down"] ELSE status
    /\ flipped' = IF hit THEN flipped \cup {i} ELSE flipped
    /\ sw' = [sw EXCEPT ![w] = Passed(s, i, s.lost)]
    /\ UNCHANGED <<clock, live, nameOf, seen, limit, hb, alerts, faults>>

\* The guarded UPDATE for one stale device: it takes effect when last_seen_at
\* is still what the SELECT read and the device is not already down.
SweepFlip(w, i) ==
    LET s == sw[w]
        hit == i \in live /\ seen[i] = s.snap[i] /\ status[i] # "down"
    IN
    /\ i \in s.todo
    /\ status' = IF hit THEN [status EXCEPT ![i] = "down"] ELSE status
    /\ flipped' = IF hit THEN flipped \cup {i} ELSE flipped
    /\ sw' = [sw EXCEPT ![w] = Passed(s, i, IF hit THEN s.lost \cup {i}
                                                   ELSE s.lost)]
    /\ UNCHANGED <<clock, live, nameOf, seen, limit, hb, alerts, faults>>

\* After the loop, one fireAlert(heartbeat_missed) per device in `lost`, in
\* any order; the foreign key rejects the row of a deleted device.
SweepAnnounce(w, i) ==
    LET s == sw[w] IN
    /\ s.todo = {}
    /\ i \in s.lost
    /\ sw' = [sw EXCEPT ![w] = IF s.lost = {i} THEN IdleSweep
                                               ELSE [s EXCEPT !.lost = @ \ {i}]]
    /\ IF i \in live
         THEN /\ missed' = [missed EXCEPT ![<<i, s.snap[i]>>] = @ + 1]
              /\ newest' = [newest EXCEPT ![i] = "heartbeat_missed"]
         ELSE UNCHANGED <<missed, newest>>
    /\ UNCHANGED <<clock, row, hb, dropped, faults>>

\* A D1 error inside the loop, or an evicted isolate at any time: what is in
\* `lost` was already marked down and will never be announced.
SweepAbort(w) ==
    LET s == sw[w] IN
    /\ s # IdleSweep
    /\ faults < MaxFaults
    /\ faults' = faults + 1
    /\ dropped' = dropped \cup {<<i, s.snap[i]>> : i \in s.lost}
    /\ sw' = [sw EXCEPT ![w] = IdleSweep]
    /\ UNCHANGED <<clock, row, hb, missed, newest>>

\* The INSERT of one alert fails; the others of Promise.all still run.
SweepAlertFails(w, i) ==
    LET s == sw[w] IN
    /\ s.todo = {}
    /\ i \in s.lost
    /\ faults < MaxFaults
    /\ faults' = faults + 1
    /\ dropped' = dropped \cup {<<i, s.snap[i]>>}
    /\ sw' = [sw EXCEPT ![w] = IF s.lost = {i} THEN IdleSweep
                                               ELSE [s EXCEPT !.lost = @ \ {i}]]
    /\ UNCHANGED <<clock, row, hb, missed, newest>>

-----------------------------------------------------------------------------
(* /v1/admin/devices                                                       *)

\* POST of an unknown name.  A lost race with another INSERT throws and
\* changes nothing, so SELECT and INSERT are one step.
AdminRegister(n, l) ==
    /\ ~Taken(n)
    /\ \E i \in Ids : NewRow(i, n, l)
    /\ UNCHANGED <<clock, hb, sw, alerts, faults>>

\* POST of a known name overwrites both overrides and nothing else modelled.
AdminRetune(i, l) ==
    /\ i \in live
    /\ limit[i] # l
    /\ limit' = [limit EXCEPT ![i] = l]
    /\ UNCHANGED <<clock, live, nameOf, status, seen, flipped, hb, sw, alerts,
                   faults>>

\* DELETE of the row; alerts.device_id of its alerts becomes NULL, so they
\* are no longer alerts of this device.  The key is never issued again.
AdminDelete(i) ==
    /\ i \in live
    /\ live' = live \ {i}
    /\ flipped' = flipped \ {i}
    /\ status' = [status EXCEPT ![i] = "unknown"]
    /\ seen' = [seen EXCEPT ![i] = Null]
    /\ limit' = [limit EXCEPT ![i] = DefaultLimit]
    /\ missed' = [k \in Ids \X Time |-> IF k[1] = i THEN 0 ELSE missed[k]]
    /\ newest' = [newest EXCEPT ![i] = "none"]
    /\ dropped' = {k \in dropped : k[1] # i}
    /\ UNCHANGED <<clock, nameOf, hb, sw, faults>>

-----------------------------------------------------------------------------
Heartbeat(h) ==
    \/ \E i \in Ids, s \in Reported : HbFind(h, i, s)
    \/ \E n \in Names, s \in Reported : HbMiss(h, n, s)
    \/ HbInsert(h)
    \/ HbUpdate(h)
    \/ HbAnnounce(h)
    \/ HbAbort(h)

SweepStep(w) ==
    \/ \E i \in Ids : SweepFlip(w, i)
    \/ \E i \in Ids : SweepAnnounce(w, i)

SweepFault(w) ==
    \/ SweepAbort(w)
    \/ \E i \in Ids : SweepAlertFails(w, i)

Admin ==
    \/ \E n \in Names, l \in Limits : AdminRegister(n, l)
    \/ \E i \in Ids, l \in Limits : AdminRetune(i, l)
    \/ \E i \in Ids : AdminDelete(i)

Next ==
    \/ Tick
    \/ \E h \in Beats : Heartbeat(h)
    \/ \E w \in Sweeps, now \in Time : SweepSelect(w, now)
    \/ \E w \in Sweeps : SweepStep(w)
    \/ \E w \in Sweeps : SweepFault(w)
    \/ Admin

Spec == Init /\ [][Next]_vars

\* The cron fires every minute, so a sweep with an up-to-date `now` keeps
\* starting, and a sweep that runs goes on.  Agents and operators owe nothing.
FairSpec ==
    /\ Spec
    /\ \A w \in Sweeps : WF_vars(SweepSelect(w, clock))
    /\ \A w \in Sweeps : WF_vars(SweepStep(w))

-----------------------------------------------------------------------------
(* Properties                                                              *)

\* A device is down on a sweep's word only while it has really been silent:
\* no heartbeat that landed between the SELECT and the UPDATE of a sweep is
\* overridden (the race guard of scheduled.ts:36-39).
DownMeansSilent ==
    \A i \in flipped : seen[i] + MinLimit < clock

\* One silence, one alert: however sweeps overlap, however often the device
\* comes back, no (device, last_seen_at) gets two heartbeat_missed alerts.
OneAlertPerSilence ==
    \A i \in Ids, t \in Time : missed[<<i, t>>] <= 1

\* A device a sweep marked down is about to be announced, or its newest
\* heartbeat alert says so (a late heartbeat_recovered cannot cover it), or
\* the alert died with a fault of D1 or of the isolate.
DownIsAnnounced ==
    \A i \in flipped :
        \/ \E w \in Sweeps : i \in sw[w].lost /\ sw[w].snap[i] = seen[i]
        \/ newest[i] = "heartbeat_missed"
        \/ <<i, seen[i]>> \in dropped

\* A silent device is alerted about, unless it is heard from, deleted, given a
\* longer threshold, reported down by its own agent, or the alert is lost to a
\* fault after the row was already marked.
SilenceIsAlerted ==
    \A i \in Ids, t \in Time :
        (i \in live /\ status[i] # "down" /\ seen[i] = t /\ t + limit[i] < clock)
            ~> \/ missed[<<i, t>>] > 0
               \/ <<i, t>> \in dropped
               \/ i \notin live
               \/ seen[i] # t
               \/ clock <= seen[i] + limit[i]
               \/ status[i] = "down" /\ i \notin flipped

\* docs/agent-protocol.md:35: a heartbeat that moves a device from `down` to
\* anything else emits heartbeat_recovered.  The code decides on the status its
\* SELECT read, not on the one its UPDATE replaced: a sweep that marks the
\* device down between the two is undone without a word.
RecoveryAnnounced ==
    [][\A i \in flipped \cap live' : status'[i] # "down"
            => \E h \in Beats : hb'[h].pc = "announce" /\ hb'[h].id = i]_vars
=============================================================================
