---------------------------- MODULE PingWorker ----------------------------
(***************************************************************************)
(* The ping worker: handlePing of workers/ping/index.ts, run for many jobs *)
(* at once.  A job slot is one activation of the handler; between any two  *)
(* awaits another job may run, so every await is a step of its own.        *)
(*                                                                         *)
(* Shared state: the failure counter and the alert lock of each endpoint   *)
(* (Redis), the Alert and Endpoint tables (PostgreSQL), the recovery queue *)
(* (BullMQ).  The breaker's effect is part of what a ping returns; metric  *)
(* rows are MetricWriter's.                                                *)
(***************************************************************************)
EXTENDS Naturals, FiniteSets

CONSTANTS
    Endpoints,      \* rows of the Endpoint table
    Jobs,           \* slots for jobs that are queued or being handled
    Alerts,         \* primary keys available to the Alert table (a bound)
    NoEndpoint,     \* the endpoint of a free slot
    NoAlert,        \* the alert of a job that has looked none up
    Threshold,      \* Endpoint.alertThreshold
    CountCap,       \* counters are exact up to here, then saturate (a bound)
    MaxAttempts,    \* BullMQ attempts of a ping job
    Modes           \* the conditions to run under, a set of records, see mode

FaultKinds == {"error",        \* a database call rejects, applied or not
               "crash",        \* the process of a job dies; BullMQ redelivers
               "countExpiry",  \* the 24 h TTL of a failure counter runs out
               "lockExpiry"}   \* the 30 s TTL of an alert lock runs out

ASSUME EndpointsAssumption == NoEndpoint \notin Endpoints /\ Endpoints # {}
ASSUME AlertsAssumption    == NoAlert \notin Alerts
ASSUME CapAssumption       == CountCap \in Nat /\ CountCap >= 2
ASSUME ThresholdAssumption == Threshold \in [Endpoints -> 0..CountCap]
ASSUME AttemptsAssumption  == MaxAttempts \in Nat \ {0}
ASSUME ModesAssumption     == Modes \subseteq [overlap : BOOLEAN, faults : SUBSET FaultKinds]

VARIABLES
    pc,         \* pc[j]: the await slot j is suspended at, "free" if none
    ep,         \* ep[j]: job.data.endpointId
    tries,      \* tries[j]: attempts already used
    target,     \* target[j]: activeAlert of the UP branch
    doomed,     \* jobs whose Serializable transaction PostgreSQL will abort
    fails,      \* fails[e]: the Redis counter fails:<e>, 0 when the key is absent
    expiring,   \* endpoints whose counter carries a TTL
    locks,      \* endpoints whose key alert:lock:<e> exists
    alert,      \* alert[a]: "free", "TRIGGERED", "RESOLVED" or "deleted"
    alertOf,    \* alertOf[a]: the endpoint of alert a
    recoveries, \* recoveries[a]: 'recovery' jobs queued for a, counted up to 2
    up,         \* endpoints that would answer a ping now
    monitored,  \* endpoints whose config reads active and not muted
    row,        \* row[e]: "live", "deleting" (row gone, keys left) or "gone"
    streak,     \* history: non-UP pings of e since its last UP one
    mode        \* fixed at the start: mode.overlap, may two jobs of one endpoint
                \* be in the system at once; mode.faults, what can go wrong

jobVars == <<pc, ep, tries, target>>
redisVars == <<fails, expiring, locks>>
dbVars == <<alert, alertOf, doomed>>
envVars == <<up, monitored, row, mode>>
vars == <<jobVars, redisVars, dbVars, envVars, recoveries, streak>>

Places == {"free", "waiting", "ping",
           "incr", "expire", "lock", "begin", "commit", "unlock", "unlockThrow",
           "get", "del", "find", "resolve", "enqueue"}
InTransaction == {"begin", "commit", "unlock", "unlockThrow"}
AlertStates == {"free", "TRIGGERED", "RESOLVED", "deleted"}

OpenAlerts(e) == {a \in Alerts : alert[a] = "TRIGGERED" /\ alertOf[a] = e}

BumpCount(n) == IF n < CountCap THEN n + 1 ELSE n

Init ==
    /\ pc = [j \in Jobs |-> "free"]
    /\ ep = [j \in Jobs |-> NoEndpoint]
    /\ tries = [j \in Jobs |-> 0]
    /\ target = [j \in Jobs |-> NoAlert]
    /\ doomed = {}
    /\ fails = [e \in Endpoints |-> 0]
    /\ expiring = {}
    /\ locks = {}
    /\ alert = [a \in Alerts |-> "free"]
    /\ alertOf = [a \in Alerts |-> CHOOSE e \in Endpoints : TRUE]
    /\ recoveries = [a \in Alerts |-> 0]
    /\ up = Endpoints
    /\ monitored = Endpoints
    /\ row = [e \in Endpoints |-> "live"]
    /\ streak = [e \in Endpoints |-> 0]
    /\ mode \in Modes

---------------------------------------------------------------------------
(* How a job moves.                                                        *)

Goto(j, place) ==
    /\ pc' = [pc EXCEPT ![j] = place]
    /\ UNCHANGED <<ep, tries, target>>

\* The handler returned, or BullMQ gave the job up.
Finish(j) ==
    /\ pc' = [pc EXCEPT ![j] = "free"]
    /\ ep' = [ep EXCEPT ![j] = NoEndpoint]
    /\ tries' = [tries EXCEPT ![j] = 0]
    /\ target' = [target EXCEPT ![j] = NoAlert]

\* Faulty: no limit on the attempts.
RetryForever(j) ==
    /\ pc' = [pc EXCEPT ![j] = "waiting"]
    /\ tries' = [tries EXCEPT ![j] = tries[j] + 1]
    /\ target' = [target EXCEPT ![j] = NoAlert]
    /\ UNCHANGED ep

\* The handler threw: BullMQ runs the job again from the start, up to
\* MaxAttempts times in all.
Retry(j) ==
    \/ /\ tries[j] + 1 < MaxAttempts
       /\ pc' = [pc EXCEPT ![j] = "waiting"]
       /\ tries' = [tries EXCEPT ![j] = tries[j] + 1]
       /\ target' = [target EXCEPT ![j] = NoAlert]
       /\ UNCHANGED ep
    \/ /\ tries[j] + 1 >= MaxAttempts
       /\ Finish(j)

---------------------------------------------------------------------------
(* The handler.                                                            *)

\* The repeatable job of e comes due.
Tick(e, j) ==
    /\ pc[j] = "free"
    /\ row[e] # "gone"
    /\ mode.overlap \/ \A k \in Jobs : ep[k] # e
    /\ pc' = [pc EXCEPT ![j] = "waiting"]
    /\ ep' = [ep EXCEPT ![j] = e]
    /\ UNCHANGED <<tries, target, redisVars, dbVars, envVars, recoveries, streak>>

\* A paused, muted or missing endpoint is not pinged.
ReadConfig(j) ==
    /\ pc[j] = "waiting"
    /\ IF ep[j] \in monitored THEN Goto(j, "ping") ELSE Finish(j)
    /\ UNCHANGED <<redisVars, dbVars, envVars, recoveries, streak>>

\* The answer is fixed here; the endpoint may change before it is acted on.
Ping(j) ==
    /\ pc[j] = "ping"
    /\ IF ep[j] \in up
       THEN /\ Goto(j, "get")
            /\ streak' = [streak EXCEPT ![ep[j]] = 0]
       ELSE /\ Goto(j, "incr")
            /\ streak' = [streak EXCEPT ![ep[j]] = BumpCount(@)]
    /\ UNCHANGED <<redisVars, dbVars, envVars, recoveries>>

\* Faulty: a count below the threshold returns before EXPIRE.
IncrBeforeExpire(j) ==
    LET e == ep[j]
        failCount == BumpCount(fails[e])
    IN  /\ pc[j] = "incr"
        /\ fails' = [fails EXCEPT ![e] = failCount]
        /\ \/ failCount < Threshold[e] /\ Finish(j)
           \/ failCount >= Threshold[e] /\ fails[e] = 0 /\ Goto(j, "expire")
           \/ failCount >= Threshold[e] /\ fails[e] # 0 /\ Goto(j, "lock")
        /\ UNCHANGED <<expiring, locks, dbVars, envVars, recoveries, streak>>

\* INCR; its result decides whether EXPIRE and the alert path follow.
Incr(j) ==
    LET e == ep[j]
        failCount == BumpCount(fails[e])
    IN  /\ pc[j] = "incr"
        /\ fails' = [fails EXCEPT ![e] = failCount]
        /\ \/ fails[e] = 0 /\ Goto(j, "expire")
           \/ fails[e] # 0 /\ failCount < Threshold[e] /\ Finish(j)
           \/ fails[e] # 0 /\ failCount >= Threshold[e] /\ Goto(j, "lock")
        /\ UNCHANGED <<expiring, locks, dbVars, envVars, recoveries, streak>>

\* EXPIRE finds the counter, unless a job of an UP ping deleted it meanwhile.
\* Only a count of one comes this way.
Expire(j) ==
    LET e == ep[j] IN
    /\ pc[j] = "expire"
    /\ expiring' = IF fails[e] > 0 THEN expiring \cup {e} ELSE expiring
    /\ IF Threshold[e] > 1 THEN Finish(j) ELSE Goto(j, "lock")
    /\ UNCHANGED <<fails, locks, dbVars, envVars, recoveries, streak>>

\* Faulty: SET without NX.
LockWithoutNX(j) ==
    /\ pc[j] = "lock"
    /\ Goto(j, "begin")
    /\ locks' = locks \cup {ep[j]}
    /\ UNCHANGED <<fails, expiring, dbVars, envVars, recoveries, streak>>

\* SET alert:lock NX EX 30.
Lock(j) ==
    /\ pc[j] = "lock"
    /\ IF ep[j] \in locks
       THEN Finish(j) /\ UNCHANGED locks
       ELSE Goto(j, "begin") /\ locks' = locks \cup {ep[j]}
    /\ UNCHANGED <<fails, expiring, dbVars, envVars, recoveries, streak>>

\* The transaction takes its snapshot with findFirst.
Begin(j) ==
    /\ pc[j] = "begin"
    /\ Goto(j, IF OpenAlerts(ep[j]) = {} THEN "commit" ELSE "unlock")
    /\ UNCHANGED <<redisVars, dbVars, envVars, recoveries, streak>>

\* Faulty: READ COMMITTED, where nothing is doomed.
CreateReadCommitted(j) ==
    /\ pc[j] = "commit"
    /\ row[ep[j]] = "live"
    /\ \E a \in Alerts :
          /\ alert[a] = "free"
          /\ alert' = [alert EXCEPT ![a] = "TRIGGERED"]
          /\ alertOf' = [alertOf EXCEPT ![a] = ep[j]]
    /\ UNCHANGED <<doomed, redisVars, envVars, recoveries, streak>>

\* alert.create and COMMIT.  The first of several transactions that read
\* "no active alert" for one endpoint wins; PostgreSQL aborts the others.
CreateAlert(j) ==
    /\ pc[j] = "commit"
    /\ j \notin doomed
    /\ row[ep[j]] = "live"
    /\ \E a \in Alerts :
          /\ alert[a] = "free"
          /\ alert' = [alert EXCEPT ![a] = "TRIGGERED"]
          /\ alertOf' = [alertOf EXCEPT ![a] = ep[j]]
    /\ doomed' = doomed \cup {k \in Jobs \ {j} : pc[k] = "commit" /\ ep[k] = ep[j]}
    /\ UNCHANGED <<redisVars, envVars, recoveries, streak>>

Commit(j) == CreateAlert(j) /\ Goto(j, "unlock")

\* A serialization failure, or the foreign key of a deleted endpoint.
CommitRejected(j) ==
    /\ pc[j] = "commit"
    /\ j \in doomed \/ row[ep[j]] # "live"
    /\ doomed' = doomed \ {j}
    /\ Goto(j, "unlockThrow")
    /\ UNCHANGED <<redisVars, alert, alertOf, envVars, recoveries, streak>>

\* Faulty: the counter is reset once the alert is open.
UnlockAndReset(j) ==
    /\ pc[j] \in {"unlock", "unlockThrow"}
    /\ locks' = locks \ {ep[j]}
    /\ fails' = [fails EXCEPT ![ep[j]] = 0]
    /\ expiring' = expiring \ {ep[j]}
    /\ IF pc[j] = "unlock" THEN Finish(j) ELSE Retry(j)
    /\ UNCHANGED <<dbVars, envVars, recoveries, streak>>

\* Faulty: no finally.
UnlockForgotten(j) ==
    /\ pc[j] \in {"unlock", "unlockThrow"}
    /\ IF pc[j] = "unlock" THEN Finish(j) ELSE Retry(j)
    /\ UNCHANGED <<redisVars, dbVars, envVars, recoveries, streak>>

\* finally: DEL alert:lock, whoever holds it by now.
Unlock(j) ==
    /\ pc[j] \in {"unlock", "unlockThrow"}
    /\ locks' = locks \ {ep[j]}
    /\ IF pc[j] = "unlock" THEN Finish(j) ELSE Retry(j)
    /\ UNCHANGED <<fails, expiring, dbVars, envVars, recoveries, streak>>

\* Faulty: the counter is compared with the threshold, off by one.
GetAboveThreshold(j) ==
    /\ pc[j] = "get"
    /\ IF fails[ep[j]] <= Threshold[ep[j]] THEN Finish(j) ELSE Goto(j, "del")
    /\ UNCHANGED <<redisVars, dbVars, envVars, recoveries, streak>>

\* UP branch: an endpoint without recorded failures needs nothing.
Get(j) ==
    /\ pc[j] = "get"
    /\ IF fails[ep[j]] = 0 THEN Finish(j) ELSE Goto(j, "del")
    /\ UNCHANGED <<redisVars, dbVars, envVars, recoveries, streak>>

\* Faulty: the counter is not reset.
DelKeepsCount(j) ==
    /\ pc[j] = "del"
    /\ Goto(j, "find")
    /\ UNCHANGED <<redisVars, dbVars, envVars, recoveries, streak>>

Del(j) ==
    /\ pc[j] = "del"
    /\ fails' = [fails EXCEPT ![ep[j]] = 0]
    /\ expiring' = expiring \ {ep[j]}
    /\ Goto(j, "find")
    /\ UNCHANGED <<locks, dbVars, envVars, recoveries, streak>>

\* Faulty: findFirst without status: 'TRIGGERED'.
FindAnyStatus(j) ==
    LET found == {a \in Alerts : alertOf[a] = ep[j] /\ alert[a] \in {"TRIGGERED", "RESOLVED"}}
    IN  /\ pc[j] = "find"
        /\ \/ found = {} /\ Finish(j)
           \/ \E a \in found :
                 /\ pc' = [pc EXCEPT ![j] = "resolve"]
                 /\ target' = [target EXCEPT ![j] = a]
                 /\ UNCHANGED <<ep, tries>>
        /\ UNCHANGED <<redisVars, dbVars, envVars, recoveries, streak>>

Find(j) ==
    /\ pc[j] = "find"
    /\ \/ OpenAlerts(ep[j]) = {} /\ Finish(j)
       \/ \E a \in OpenAlerts(ep[j]) :
             /\ pc' = [pc EXCEPT ![j] = "resolve"]
             /\ target' = [target EXCEPT ![j] = a]
             /\ UNCHANGED <<ep, tries>>
    /\ UNCHANGED <<redisVars, dbVars, envVars, recoveries, streak>>

\* Faulty: upsert, which brings a deleted alert back.
MarkByUpsert(j) ==
    /\ pc[j] = "resolve"
    /\ alert' = [alert EXCEPT ![target[j]] = "RESOLVED"]
    /\ UNCHANGED <<redisVars, alertOf, doomed, envVars, recoveries, streak>>

\* update by id, whatever the status is by now; a deleted row rejects.
MarkResolved(j) ==
    /\ pc[j] = "resolve"
    /\ alert[target[j]] # "deleted"
    /\ alert' = [alert EXCEPT ![target[j]] = "RESOLVED"]
    /\ UNCHANGED <<redisVars, alertOf, doomed, envVars, recoveries, streak>>

\* Faulty: nothing is queued.
ResolveSilently(j) == MarkResolved(j) /\ Finish(j)

Resolve(j) == MarkResolved(j) /\ Goto(j, "enqueue")

ResolveRejected(j) ==
    /\ pc[j] = "resolve"
    /\ alert[target[j]] = "deleted"
    /\ Retry(j)
    /\ UNCHANGED <<redisVars, dbVars, envVars, recoveries, streak>>

\* alertQueue.add('recovery').
Enqueue(j) ==
    /\ pc[j] = "enqueue"
    /\ recoveries' = [recoveries EXCEPT ![target[j]] = IF @ < 2 THEN @ + 1 ELSE @]
    /\ Finish(j)
    /\ UNCHANGED <<redisVars, dbVars, envVars, streak>>

HandlerStep(j) ==
    \/ ReadConfig(j) \/ Ping(j)
    \/ Incr(j) \/ Expire(j) \/ Lock(j)
    \/ Begin(j) \/ Commit(j) \/ CommitRejected(j) \/ Unlock(j)
    \/ Get(j) \/ Del(j) \/ Find(j) \/ Resolve(j) \/ ResolveRejected(j) \/ Enqueue(j)

---------------------------------------------------------------------------
(* What goes wrong around the handler.                                     *)

\* A database call, or the decryption of the credentials before the ping,
\* rejects without effect.  Redis commands wait for Redis and never reject.
CallFails(j) ==
    /\ "error" \in mode.faults
    /\ \/ pc[j] \in {"waiting", "ping", "find", "resolve"} /\ Retry(j)
       \/ pc[j] \in {"begin", "commit"} /\ Goto(j, "unlockThrow")
    /\ doomed' = doomed \ {j}
    /\ UNCHANGED <<redisVars, alert, alertOf, envVars, recoveries, streak>>

\* The write commits but its acknowledgement is lost: the caller sees a
\* rejection all the same.
CommitUnacknowledged(j) ==
    "error" \in mode.faults /\ CreateAlert(j) /\ Goto(j, "unlockThrow")

ResolveUnacknowledged(j) ==
    "error" \in mode.faults /\ MarkResolved(j) /\ Retry(j)

\* The process dies.  BullMQ finds the job stalled and runs it again from the
\* start, or fails it when it has stalled before.
Crash(j) ==
    /\ "crash" \in mode.faults
    /\ pc[j] \notin {"free", "waiting"}
    /\ \/ Finish(j)
       \/ /\ pc' = [pc EXCEPT ![j] = "waiting"]
          /\ target' = [target EXCEPT ![j] = NoAlert]
          /\ UNCHANGED <<ep, tries>>
    /\ doomed' = doomed \ {j}
    /\ UNCHANGED <<redisVars, alert, alertOf, envVars, recoveries, streak>>

ExpireCount(e) ==
    /\ "countExpiry" \in mode.faults
    /\ e \in expiring
    /\ fails' = [fails EXCEPT ![e] = 0]
    /\ expiring' = expiring \ {e}
    /\ UNCHANGED <<jobVars, locks, dbVars, envVars, recoveries, streak>>

ExpireLock(e) ==
    /\ "lockExpiry" \in mode.faults
    /\ e \in locks
    /\ locks' = locks \ {e}
    /\ UNCHANGED <<jobVars, fails, expiring, dbVars, envVars, recoveries, streak>>

---------------------------------------------------------------------------
(* The monitored services and the API.                                     *)

\* An outage begins only while a key is left for its alert: the bound Alerts.
GoDown(e) ==
    /\ e \in up
    /\ \E a \in Alerts : alert[a] = "free"
    /\ up' = up \ {e}
    /\ UNCHANGED <<jobVars, redisVars, dbVars, monitored, row, mode, recoveries, streak>>

GoUp(e) ==
    /\ e \notin up
    /\ up' = up \cup {e}
    /\ UNCHANGED <<jobVars, redisVars, dbVars, monitored, row, mode, recoveries, streak>>

\* Pause, resume, mute, unmute as the cached config shows them, stale or not.
ChangeConfig(e) ==
    /\ monitored' = IF e \in monitored THEN monitored \ {e} ELSE monitored \cup {e}
    /\ UNCHANGED <<jobVars, redisVars, dbVars, up, row, mode, recoveries, streak>>

\* deleteEndpoint: the row goes, and by ON DELETE CASCADE its alerts ...
DeleteRow(e) ==
    /\ row[e] = "live"
    /\ row' = [row EXCEPT ![e] = "deleting"]
    /\ alert' = [a \in Alerts |->
                    IF alertOf[a] = e /\ alert[a] # "free" THEN "deleted" ELSE alert[a]]
    /\ UNCHANGED <<jobVars, redisVars, alertOf, doomed, up, monitored, mode, recoveries, streak>>

\* ... then its Redis keys.
ClearKeys(e) ==
    /\ row[e] = "deleting"
    /\ row' = [row EXCEPT ![e] = "gone"]
    /\ fails' = [fails EXCEPT ![e] = 0]
    /\ expiring' = expiring \ {e}
    /\ monitored' = monitored \ {e}
    /\ UNCHANGED <<jobVars, locks, dbVars, up, mode, recoveries, streak>>

---------------------------------------------------------------------------
JobNext(j) ==
    \/ HandlerStep(j)
    \/ CallFails(j) \/ CommitUnacknowledged(j) \/ ResolveUnacknowledged(j)
    \/ Crash(j)

EndpointNext(e) ==
    \/ ExpireCount(e) \/ ExpireLock(e)
    \/ GoDown(e) \/ GoUp(e) \/ ChangeConfig(e)
    \/ DeleteRow(e) \/ ClearKeys(e)

Next ==
    \/ \E j \in Jobs : JobNext(j)
    \/ \E e \in Endpoints, j \in Jobs : Tick(e, j)
    \/ \E e \in Endpoints : EndpointNext(e)

Spec == Init /\ [][Next]_vars

\* Node runs every pending callback and BullMQ delivers every due job.
Fairness ==
    /\ \A j \in Jobs : WF_vars(HandlerStep(j))
    /\ \A e \in Endpoints : WF_vars(\E j \in Jobs : Tick(e, j))

FairSpec == Spec /\ Fairness
---------------------------------------------------------------------------
JobsTypeOK ==
    /\ pc \in [Jobs -> Places]
    /\ ep \in [Jobs -> Endpoints \cup {NoEndpoint}]
    /\ tries \in [Jobs -> 0..(MaxAttempts - 1)]
    /\ target \in [Jobs -> Alerts \cup {NoAlert}]
    /\ \A j \in Jobs : (pc[j] = "free") <=> (ep[j] = NoEndpoint)

DataTypeOK ==
    /\ doomed \subseteq Jobs
    /\ fails \in [Endpoints -> 0..CountCap]
    /\ expiring \subseteq Endpoints
    /\ locks \subseteq Endpoints
    /\ alert \in [Alerts -> AlertStates]
    /\ alertOf \in [Alerts -> Endpoints]
    /\ recoveries \in [Alerts -> 0..2]
    /\ up \subseteq Endpoints
    /\ monitored \subseteq Endpoints
    /\ row \in [Endpoints -> {"live", "deleting", "gone"}]
    /\ streak \in [Endpoints -> 0..CountCap]
    /\ mode \in Modes

\* A slot is free exactly when it has no endpoint; the rest is typing.
TypeOK == JobsTypeOK /\ DataTypeOK

(* Safety that survives every fault. *)

\* An endpoint never has two open alerts, whatever crashes, expires or
\* overlaps: the claim of index.ts:85-87 for the Serializable backstop.
AtMostOneOpenAlert ==
    \A a, b \in Alerts :
        (alert[a] = "TRIGGERED" /\ alert[b] = "TRIGGERED" /\ alertOf[a] = alertOf[b])
            => a = b

\* The recovery queue and the Alert table, seen from outside, behave as
\* AlertLedger says, through every fault.
Announced == {a \in Alerts : recoveries[a] > 0}
Ledger == INSTANCE AlertLedger WITH announced <- Announced
LedgerSpec == Ledger!Spec

(* Safety that rests on what does not fail.  Each property names the faults *)
(* it cannot stand, and holds under all the others together.               *)

Spared(kinds) == mode.faults \cap kinds = {}
Serial == ~mode.overlap

\* Unless a lock expires under its holder, one job at a time is between SET NX
\* and DEL for an endpoint, so no DEL frees another job's lock.
LockExclusive ==
    Spared({"lockExpiry"}) =>
        \A j, k \in Jobs :
            (pc[j] \in InTransaction /\ pc[k] \in InTransaction /\ ep[j] = ep[k]) => j = k

\* Without crashes every counter has a TTL, or the job that created it is
\* about to set one: no endpoint is left with a failure count for good.
CounterExpires ==
    Spared({"crash"}) =>
        \A e \in Endpoints :
            fails[e] > 0 => e \in expiring \/ \E j \in Jobs : pc[j] = "expire" /\ ep[j] = e

\* Without crashes and database errors a closed alert has its recovery queued
\* or a job about to queue it, even when jobs of one endpoint overlap.
NoLostRecovery ==
    Spared({"crash", "error"}) =>
        \A a \in Alerts :
            alert[a] = "RESOLVED" =>
                recoveries[a] > 0 \/ \E j \in Jobs : pc[j] = "enqueue" /\ target[j] = a

\* When jobs of one endpoint do not overlap, a recovery is queued at most
\* once per alert, through crashes, retries and redeliveries.
RecoveryAtMostOnce == Serial => \A a \in Alerts : recoveries[a] <= 1

\* When jobs of one endpoint do not overlap and nothing interrupts them, an
\* open alert is remembered by the failure counter, the only thing an UP ping
\* looks at first (index.ts:120-121), or a job is about to close it.
Sheltered == Serial /\ Spared({"crash", "error", "countExpiry"})

OpenAlertIsCounted ==
    Sheltered =>
        \A e \in Endpoints :
            OpenAlerts(e) # {} =>
                fails[e] > 0 \/ \E j \in Jobs : ep[j] = e /\ pc[j] \in {"find", "resolve"}

\* Then an UP ping that is handled to its end leaves no alert of its endpoint
\* open.
UpPingCloses(j) ==
    (Get(j) \/ Find(j) \/ Enqueue(j)) /\ pc'[j] = "free" => OpenAlerts(ep[j]) = {}

UpPingClosesAlert == [][Sheltered => \A j \in Jobs : UpPingCloses(j)]_vars

\* The same without its condition: "Alert resolved found for recovered
\* endpoint" (test/e2e.ts:320) after the endpoint has been pinged again.
RecoveryAlwaysResolved == [][\A j \in Jobs : UpPingCloses(j)]_vars

\* When jobs do not overlap or crash, an alert opens only after alertThreshold
\* consecutive pings that were not UP (one at least when the threshold is 0).
AlertNeedsStreak ==
    [][Serial /\ Spared({"crash"}) =>
          \A e \in Endpoints :
              (OpenAlerts(e) = {} /\ OpenAlerts(e)' # {})
                  => streak[e] >= Threshold[e] /\ streak[e] > 0]_vars

(* Liveness. *)

Served(e) == e \in monitored /\ row[e] = "live"

\* An endpoint that stays down while it is monitored ends up with an alert,
\* whatever locks expire on the way.
OutageIsAlerted ==
    Sheltered =>
        \A e \in Endpoints :
            <>[](e \notin up /\ Served(e)) => <>[](OpenAlerts(e) # {})

\* An endpoint that stays up while it is monitored ends up without one.
RecoveryIsNoticed ==
    Sheltered =>
        \A e \in Endpoints :
            <>[](e \in up /\ Served(e)) => <>[](OpenAlerts(e) = {})
=============================================================================
