------------------------- MODULE PingWorkerProofs -------------------------
(***************************************************************************)
(* Proofs about PingWorker, for any sets of endpoints, jobs and alerts and *)
(* under every set of modes.                                               *)
(***************************************************************************)
EXTENDS PingWorker, TLAPS

---------------------------------------------------------------------------
(* How moving a job keeps the job variables typed.                         *)

LEMMA GotoTypes ==
    ASSUME JobsTypeOK, NEW j \in Jobs, pc[j] # "free",
           NEW place \in Places \ {"free"}, Goto(j, place)
    PROVE  JobsTypeOK'
BY DEF JobsTypeOK, Goto

LEMMA FinishTypes ==
    ASSUME JobsTypeOK, NEW j \in Jobs, Finish(j)
    PROVE  JobsTypeOK'
BY EndpointsAssumption, AttemptsAssumption DEF JobsTypeOK, Finish, Places

LEMMA RetryTypes ==
    ASSUME JobsTypeOK, NEW j \in Jobs, pc[j] # "free", Retry(j)
    PROVE  JobsTypeOK'
<1>1. CASE Finish(j)
  BY <1>1, FinishTypes
<1>2. CASE ~Finish(j)
  <2>1. /\ tries[j] + 1 < MaxAttempts
        /\ pc' = [pc EXCEPT ![j] = "waiting"]
        /\ tries' = [tries EXCEPT ![j] = tries[j] + 1]
        /\ target' = [target EXCEPT ![j] = NoAlert]
        /\ ep' = ep
    BY <1>2 DEF Retry
  <2>2. tries[j] + 1 \in 0..(MaxAttempts - 1)
    BY <2>1, AttemptsAssumption DEF JobsTypeOK
  <2>3. tries' \in [Jobs -> 0..(MaxAttempts - 1)]
    BY <2>1, <2>2 DEF JobsTypeOK
  <2> QED
    BY <2>1, <2>3 DEF JobsTypeOK, Places
<1> QED
  BY <1>1, <1>2

---------------------------------------------------------------------------
(* Type correctness.                                                       *)

LEMMA BumpTypes == \A n \in 0..CountCap : BumpCount(n) \in 1..CountCap
BY CapAssumption DEF BumpCount

LEMMA HandlerTypes ==
    ASSUME TypeOK, NEW j \in Jobs, HandlerStep(j)
    PROVE  TypeOK'
<1> USE DEF TypeOK
<1>e. pc[j] # "free" => ep[j] \in Endpoints
  BY DEF JobsTypeOK
<1>1. CASE ReadConfig(j)
  <2>1. JobsTypeOK'
    BY <1>1, GotoTypes, FinishTypes DEF ReadConfig, Places
  <2> QED
    BY <1>1, <2>1 DEF ReadConfig, DataTypeOK, redisVars, dbVars, envVars
<1>2. CASE Ping(j)
  <2>1. JobsTypeOK'
    BY <1>2, GotoTypes DEF Ping, Places
  <2>2. streak' \in [Endpoints -> 0..CountCap]
    BY <1>2, BumpTypes, CapAssumption DEF Ping, DataTypeOK
  <2> QED
    BY <1>2, <2>1, <2>2 DEF Ping, DataTypeOK, redisVars, dbVars, envVars
<1>3. CASE Incr(j)
  <2>1. JobsTypeOK'
    BY <1>3, GotoTypes, FinishTypes DEF Incr, Places
  <2>2. fails' \in [Endpoints -> 0..CountCap]
    <3>1. fails[ep[j]] \in 0..CountCap
      BY <1>3, <1>e DEF Incr, DataTypeOK
    <3> QED
      BY <1>3, <1>e, <3>1, BumpTypes, CapAssumption DEF Incr, DataTypeOK
  <2> QED
    BY <1>3, <2>1, <2>2 DEF Incr, DataTypeOK, dbVars, envVars
<1>4. CASE Expire(j)
  <2>1. JobsTypeOK'
    BY <1>4, GotoTypes, FinishTypes DEF Expire, Places
  <2> QED
    BY <1>4, <1>e, <2>1 DEF Expire, DataTypeOK, dbVars, envVars
<1>5. CASE Lock(j)
  <2>1. JobsTypeOK'
    BY <1>5, GotoTypes, FinishTypes DEF Lock, Places
  <2> QED
    BY <1>5, <1>e, <2>1 DEF Lock, DataTypeOK, dbVars, envVars
<1>6. CASE Begin(j)
  <2>1. JobsTypeOK'
    BY <1>6, GotoTypes DEF Begin, Places
  <2> QED
    BY <1>6, <2>1 DEF Begin, DataTypeOK, redisVars, dbVars, envVars
<1>7. CASE Commit(j)
  <2>1. JobsTypeOK'
    BY <1>7, GotoTypes DEF Commit, CreateAlert, Places
  <2> QED
    BY <1>7, <1>e, <2>1
    DEF Commit, CreateAlert, DataTypeOK, AlertStates, redisVars, envVars
<1>8. CASE CommitRejected(j)
  <2>1. JobsTypeOK'
    BY <1>8, GotoTypes DEF CommitRejected, Places
  <2> QED
    BY <1>8, <2>1 DEF CommitRejected, DataTypeOK, redisVars, envVars
<1>9. CASE Unlock(j)
  <2>1. JobsTypeOK'
    BY <1>9, FinishTypes, RetryTypes DEF Unlock
  <2> QED
    BY <1>9, <2>1 DEF Unlock, DataTypeOK, dbVars, envVars
<1>10. CASE Get(j)
  <2>1. JobsTypeOK'
    BY <1>10, GotoTypes, FinishTypes DEF Get, Places
  <2> QED
    BY <1>10, <2>1 DEF Get, DataTypeOK, redisVars, dbVars, envVars
<1>11. CASE Del(j)
  <2>1. JobsTypeOK'
    BY <1>11, GotoTypes DEF Del, Places
  <2>2. fails' \in [Endpoints -> 0..CountCap]
    BY <1>11, <1>e, CapAssumption DEF Del, DataTypeOK
  <2> QED
    BY <1>11, <2>1, <2>2 DEF Del, DataTypeOK, dbVars, envVars
<1>12. CASE Find(j)
  <2>1. CASE Finish(j)
    BY <1>12, <2>1, FinishTypes DEF Find, DataTypeOK, redisVars, dbVars, envVars
  <2>2. CASE ~Finish(j)
    BY <1>12, <2>2
    DEF Find, OpenAlerts, JobsTypeOK, Places, DataTypeOK, redisVars, dbVars, envVars
  <2> QED
    BY <2>1, <2>2
<1>13. CASE Resolve(j)
  <2>1. JobsTypeOK'
    BY <1>13, GotoTypes DEF Resolve, MarkResolved, Places
  <2> QED
    BY <1>13, <2>1
    DEF Resolve, MarkResolved, DataTypeOK, AlertStates, redisVars, envVars
<1>14. CASE ResolveRejected(j)
  <2>1. JobsTypeOK'
    BY <1>14, RetryTypes DEF ResolveRejected
  <2> QED
    BY <1>14, <2>1 DEF ResolveRejected, DataTypeOK, redisVars, dbVars, envVars
<1>15. CASE Enqueue(j)
  <2>1. JobsTypeOK'
    BY <1>15, FinishTypes DEF Enqueue
  <2>2. recoveries' \in [Alerts -> 0..2]
    <3>1. \A n \in 0..2 : (IF n < 2 THEN n + 1 ELSE n) \in 0..2
      OBVIOUS
    <3> QED
      BY <1>15, <3>1 DEF Enqueue, DataTypeOK
  <2> QED
    BY <1>15, <2>1, <2>2 DEF Enqueue, DataTypeOK, redisVars, dbVars, envVars
<1> QED
  BY <1>1, <1>2, <1>3, <1>4, <1>5, <1>6, <1>7, <1>8, <1>9, <1>10, <1>11,
     <1>12, <1>13, <1>14, <1>15 DEF HandlerStep

LEMMA FaultTypes ==
    ASSUME TypeOK, NEW j \in Jobs,
           CallFails(j) \/ CommitUnacknowledged(j) \/ ResolveUnacknowledged(j) \/ Crash(j)
    PROVE  TypeOK'
<1> USE DEF TypeOK
<1>e. pc[j] # "free" => ep[j] \in Endpoints
  BY DEF JobsTypeOK
<1>1. CASE CallFails(j)
  <2>1. JobsTypeOK'
    BY <1>1, GotoTypes, RetryTypes DEF CallFails, Places
  <2> QED
    BY <1>1, <2>1 DEF CallFails, DataTypeOK, redisVars, envVars
<1>2. CASE CommitUnacknowledged(j)
  <2>1. JobsTypeOK'
    BY <1>2, GotoTypes DEF CommitUnacknowledged, CreateAlert, Places
  <2> QED
    BY <1>2, <1>e, <2>1
    DEF CommitUnacknowledged, CreateAlert, DataTypeOK, AlertStates, redisVars, envVars
<1>3. CASE ResolveUnacknowledged(j)
  <2>1. JobsTypeOK'
    BY <1>3, RetryTypes DEF ResolveUnacknowledged, MarkResolved
  <2> QED
    BY <1>3, <2>1
    DEF ResolveUnacknowledged, MarkResolved, DataTypeOK, AlertStates, redisVars, envVars
<1>4. CASE Crash(j)
  <2>1. CASE Finish(j)
    BY <1>4, <2>1, FinishTypes DEF Crash, DataTypeOK, redisVars, envVars
  <2>2. CASE ~Finish(j)
    BY <1>4, <2>2 DEF Crash, JobsTypeOK, Places, DataTypeOK, redisVars, envVars
  <2> QED
    BY <2>1, <2>2
<1> QED
  BY <1>1, <1>2, <1>3, <1>4

LEMMA EndpointTypes ==
    ASSUME TypeOK, NEW e \in Endpoints, EndpointNext(e)
    PROVE  TypeOK'
<1> USE DEF TypeOK
<1>1. UNCHANGED jobVars => JobsTypeOK'
  BY DEF jobVars, JobsTypeOK
<1>2. CASE ExpireCount(e) \/ ExpireLock(e)
  BY <1>1, <1>2, CapAssumption
  DEF ExpireCount, ExpireLock, DataTypeOK, dbVars, envVars
<1>3. CASE GoDown(e) \/ GoUp(e) \/ ChangeConfig(e)
  BY <1>1, <1>3 DEF GoDown, GoUp, ChangeConfig, DataTypeOK, redisVars, dbVars
<1>4. CASE DeleteRow(e)
  BY <1>1, <1>4 DEF DeleteRow, DataTypeOK, AlertStates, redisVars
<1>5. CASE ClearKeys(e)
  BY <1>1, <1>5, CapAssumption DEF ClearKeys, DataTypeOK, dbVars
<1> QED
  BY <1>2, <1>3, <1>4, <1>5 DEF EndpointNext

LEMMA TickTypes ==
    ASSUME TypeOK, NEW e \in Endpoints, NEW j \in Jobs, Tick(e, j)
    PROVE  TypeOK'
BY EndpointsAssumption
DEF TypeOK, Tick, JobsTypeOK, Places, DataTypeOK, redisVars, dbVars, envVars

LEMMA InitTypes == Init => TypeOK
<1> SUFFICES ASSUME Init PROVE TypeOK
  OBVIOUS
<1>1. (CHOOSE e \in Endpoints : TRUE) \in Endpoints
  BY EndpointsAssumption
<1> QED
  BY <1>1, EndpointsAssumption, AttemptsAssumption, CapAssumption
  DEF Init, TypeOK, JobsTypeOK, DataTypeOK, Places, AlertStates

LEMMA StepTypes == TypeOK /\ [Next]_vars => TypeOK'
<1> SUFFICES ASSUME TypeOK, [Next]_vars PROVE TypeOK'
  OBVIOUS
<1>1. CASE UNCHANGED vars
  BY <1>1 DEF TypeOK, JobsTypeOK, DataTypeOK, vars, jobVars, redisVars, dbVars, envVars
<1> QED
  BY <1>1, HandlerTypes, FaultTypes, TickTypes, EndpointTypes DEF Next, JobNext

\* Every reachable state is well typed, and a job slot is free exactly when
\* it has no endpoint.
THEOREM TypeCorrect == Spec => []TypeOK
<1> QED
  BY InitTypes, StepTypes, PTL DEF Spec

---------------------------------------------------------------------------
(* At most one open alert per endpoint.  The invariant alone is not        *)
(* inductive: a transaction about to commit must have read a snapshot that *)
(* still holds unless PostgreSQL has doomed it, and a job about to write   *)
(* to or announce an alert must name one that exists.                      *)

CommitIsFresh ==
    \A j \in Jobs : pc[j] = "commit" /\ j \notin doomed => OpenAlerts(ep[j]) = {}

TargetExists ==
    \A j \in Jobs :
        /\ pc[j] = "resolve" => target[j] \in Alerts /\ alert[target[j]] # "free"
        /\ pc[j] = "enqueue" =>
              target[j] \in Alerts /\ alert[target[j]] \in {"RESOLVED", "deleted"}

LedgerInv == CommitIsFresh /\ TargetExists /\ AtMostOneOpenAlert

\* A step that moves no job into a place LedgerInv speaks of.
Calm ==
    \A k \in Jobs :
        pc'[k] \in {"commit", "resolve", "enqueue"} =>
            /\ pc'[k] = pc[k] /\ ep'[k] = ep[k] /\ target'[k] = target[k]
            /\ k \in doomed => k \in doomed'

LEMMA GotoCalm ==
    ASSUME JobsTypeOK, NEW j \in Jobs, NEW place, Goto(j, place),
           place \notin {"commit", "resolve", "enqueue"}, doomed \subseteq doomed' \cup {j}
    PROVE  Calm
BY DEF JobsTypeOK, Goto, Calm

LEMMA FinishCalm ==
    ASSUME JobsTypeOK, NEW j \in Jobs, Finish(j), doomed \subseteq doomed' \cup {j}
    PROVE  Calm
BY DEF JobsTypeOK, Finish, Calm

LEMMA RetryCalm ==
    ASSUME JobsTypeOK, NEW j \in Jobs, Retry(j), doomed \subseteq doomed' \cup {j}
    PROVE  Calm
<1>1. CASE Finish(j)
  BY <1>1, FinishCalm
<1>2. CASE ~Finish(j)
  BY <1>2 DEF JobsTypeOK, Retry, Calm
<1> QED
  BY <1>1, <1>2

\* A calm step that leaves the Alert table alone keeps LedgerInv.
LEMMA CalmKeeps ==
    ASSUME LedgerInv, Calm, alert' = alert, alertOf' = alertOf
    PROVE  LedgerInv'
BY DEF LedgerInv, Calm, CommitIsFresh, TargetExists, AtMostOneOpenAlert, OpenAlerts

\* Closing or deleting alerts opens none and frees none.
LEMMA ClosingKeeps ==
    ASSUME LedgerInv, Calm, alertOf' = alertOf,
           \A a \in Alerts : alert'[a] = "TRIGGERED" => alert[a] = "TRIGGERED",
           \A a \in Alerts : alert[a] # "free" => alert'[a] # "free",
           \A a \in Alerts : alert[a] \in {"RESOLVED", "deleted"} =>
                                alert'[a] \in {"RESOLVED", "deleted"}
    PROVE  LedgerInv'
BY DEF LedgerInv, Calm, CommitIsFresh, TargetExists, AtMostOneOpenAlert, OpenAlerts

\* The heart of the matter: the transaction that opens an alert read none,
\* and every other transaction that read none is doomed.
LEMMA CreateKeeps ==
    ASSUME TypeOK, LedgerInv, NEW j \in Jobs, CreateAlert(j),
           NEW place \in {"unlock", "unlockThrow"}, Goto(j, place)
    PROVE  LedgerInv'
<1>1. PICK a \in Alerts :
         /\ alert[a] = "free"
         /\ alert' = [alert EXCEPT ![a] = "TRIGGERED"]
         /\ alertOf' = [alertOf EXCEPT ![a] = ep[j]]
  BY DEF CreateAlert
<1>2. OpenAlerts(ep[j]) = {}
  BY DEF CreateAlert, LedgerInv, CommitIsFresh
<1>3. \A b \in Alerts \ {a} : alert'[b] = alert[b] /\ alertOf'[b] = alertOf[b]
  BY <1>1 DEF TypeOK, DataTypeOK
<1>4. alert'[a] = "TRIGGERED" /\ alertOf'[a] = ep[j]
  BY <1>1 DEF TypeOK, DataTypeOK
<1>5. \A k \in Jobs : k # j => pc'[k] = pc[k] /\ ep'[k] = ep[k] /\ target'[k] = target[k]
  BY DEF Goto, TypeOK, JobsTypeOK
<1>6. pc'[j] = place
  BY DEF Goto, TypeOK, JobsTypeOK
<1>7. CommitIsFresh'
  <2> SUFFICES ASSUME NEW k \in Jobs, pc'[k] = "commit", k \notin doomed'
               PROVE  (OpenAlerts(ep[k]))' = {}
    BY DEF CommitIsFresh
  <2>1. k # j /\ pc[k] = "commit" /\ ep'[k] = ep[k]
    BY <1>5, <1>6
  <2>2. k \notin doomed /\ ep[k] # ep[j]
    BY <2>1 DEF CreateAlert
  <2>3. OpenAlerts(ep[k]) = {}
    BY <2>1, <2>2 DEF LedgerInv, CommitIsFresh
  <2> QED
    BY <1>3, <1>4, <2>1, <2>2, <2>3 DEF OpenAlerts
<1>8. TargetExists'
  BY <1>1, <1>3, <1>5, <1>6 DEF LedgerInv, TargetExists
<1>9. AtMostOneOpenAlert'
  BY <1>2, <1>3, <1>4 DEF LedgerInv, AtMostOneOpenAlert, OpenAlerts
<1> QED
  BY <1>7, <1>8, <1>9 DEF LedgerInv

LEMMA HandlerKeeps ==
    ASSUME TypeOK, LedgerInv, NEW j \in Jobs, HandlerStep(j)
    PROVE  LedgerInv'
<1> JobsTypeOK /\ DataTypeOK
  BY DEF TypeOK
<1>1. CASE ReadConfig(j) \/ Ping(j)
  BY <1>1, GotoCalm, FinishCalm, CalmKeeps DEF ReadConfig, Ping, dbVars
<1>2. CASE Incr(j)
  BY <1>2, GotoCalm, FinishCalm, CalmKeeps DEF Incr, dbVars
<1>3. CASE Expire(j)
  BY <1>3, GotoCalm, FinishCalm, CalmKeeps DEF Expire, dbVars
<1>4. CASE Lock(j)
  BY <1>4, GotoCalm, FinishCalm, CalmKeeps DEF Lock, dbVars
<1>5. CASE Begin(j)
  <2>1. CASE OpenAlerts(ep[j]) # {}
    BY <1>5, <2>1, GotoCalm, CalmKeeps DEF Begin, dbVars
  <2>2. CASE OpenAlerts(ep[j]) = {}
    BY <1>5, <2>2
    DEF Begin, Goto, dbVars, JobsTypeOK, LedgerInv, CommitIsFresh, TargetExists,
        AtMostOneOpenAlert, OpenAlerts
  <2> QED
    BY <2>1, <2>2
<1>6. CASE Commit(j)
  BY <1>6, CreateKeeps DEF Commit
<1>7. CASE CommitRejected(j)
  BY <1>7, GotoCalm, CalmKeeps DEF CommitRejected
<1>8. CASE Unlock(j)
  BY <1>8, FinishCalm, RetryCalm, CalmKeeps DEF Unlock, dbVars
<1>9. CASE Get(j) \/ Del(j)
  BY <1>9, GotoCalm, FinishCalm, CalmKeeps DEF Get, Del, dbVars
<1>10. CASE Find(j)
  <2>1. CASE Finish(j)
    BY <1>10, <2>1, FinishCalm, CalmKeeps DEF Find, dbVars
  <2>2. CASE ~Finish(j)
    BY <1>10, <2>2
    DEF Find, dbVars, JobsTypeOK, LedgerInv, CommitIsFresh, TargetExists,
        AtMostOneOpenAlert, OpenAlerts
  <2> QED
    BY <2>1, <2>2
<1>11. CASE Resolve(j)
  <2>1. target[j] \in Alerts
    BY <1>11 DEF Resolve, MarkResolved, LedgerInv, TargetExists
  <2>2. /\ alert' = [alert EXCEPT ![target[j]] = "RESOLVED"]
        /\ pc' = [pc EXCEPT ![j] = "enqueue"]
        /\ UNCHANGED <<alertOf, ep, target, doomed>>
    BY <1>11 DEF Resolve, MarkResolved, Goto
  <2> QED
    BY <2>1, <2>2
    DEF JobsTypeOK, DataTypeOK, LedgerInv, CommitIsFresh, TargetExists,
        AtMostOneOpenAlert, OpenAlerts
<1>12. CASE ResolveRejected(j)
  BY <1>12, RetryCalm, CalmKeeps DEF ResolveRejected, dbVars
<1>13. CASE Enqueue(j)
  BY <1>13, FinishCalm, CalmKeeps DEF Enqueue, dbVars
<1> QED
  BY <1>1, <1>2, <1>3, <1>4, <1>5, <1>6, <1>7, <1>8, <1>9, <1>10, <1>11,
     <1>12, <1>13 DEF HandlerStep

LEMMA FaultKeeps ==
    ASSUME TypeOK, LedgerInv, NEW j \in Jobs,
           CallFails(j) \/ CommitUnacknowledged(j) \/ ResolveUnacknowledged(j) \/ Crash(j)
    PROVE  LedgerInv'
<1> JobsTypeOK /\ DataTypeOK
  BY DEF TypeOK
<1>1. CASE CallFails(j)
  BY <1>1, GotoCalm, RetryCalm, CalmKeeps DEF CallFails
<1>2. CASE CommitUnacknowledged(j)
  BY <1>2, CreateKeeps DEF CommitUnacknowledged
<1>3. CASE ResolveUnacknowledged(j)
  <2>1. Calm
    BY <1>3, RetryCalm DEF ResolveUnacknowledged, MarkResolved
  <2> QED
    BY <1>3, <2>1, ClosingKeeps
    DEF ResolveUnacknowledged, MarkResolved, DataTypeOK
<1>4. CASE Crash(j)
  <2>1. Calm
    <3>1. CASE Finish(j)
      BY <1>4, <3>1, FinishCalm DEF Crash
    <3>2. CASE ~Finish(j)
      BY <1>4, <3>2 DEF Crash, Calm, JobsTypeOK
    <3> QED
      BY <3>1, <3>2
  <2> QED
    BY <1>4, <2>1, CalmKeeps DEF Crash
<1> QED
  BY <1>1, <1>2, <1>3, <1>4

LEMMA EndpointKeeps ==
    ASSUME TypeOK, LedgerInv, NEW e \in Endpoints, EndpointNext(e)
    PROVE  LedgerInv'
<1>1. Calm
  BY DEF EndpointNext, ExpireCount, ExpireLock, GoDown, GoUp, ChangeConfig, DeleteRow,
         ClearKeys, dbVars, jobVars, Calm
<1>2. CASE DeleteRow(e)
  BY <1>1, <1>2, ClosingKeeps DEF DeleteRow, TypeOK, DataTypeOK
<1>3. CASE ~DeleteRow(e)
  BY <1>1, <1>3, CalmKeeps
  DEF EndpointNext, ExpireCount, ExpireLock, GoDown, GoUp, ChangeConfig, ClearKeys, dbVars
<1> QED
  BY <1>2, <1>3

LEMMA TickKeeps ==
    ASSUME TypeOK, LedgerInv, NEW e \in Endpoints, NEW j \in Jobs, Tick(e, j)
    PROVE  LedgerInv'
<1>1. Calm
  BY DEF Tick, Calm, TypeOK, JobsTypeOK, dbVars
<1> QED
  BY <1>1, CalmKeeps DEF Tick, dbVars

LEMMA InitLedgerInv == Init => LedgerInv
BY DEF Init, LedgerInv, CommitIsFresh, TargetExists, AtMostOneOpenAlert

LEMMA StepLedgerInv == TypeOK /\ LedgerInv /\ [Next]_vars => LedgerInv'
<1> SUFFICES ASSUME TypeOK, LedgerInv, [Next]_vars PROVE LedgerInv'
  OBVIOUS
<1>1. CASE UNCHANGED vars
  BY <1>1, CalmKeeps DEF Calm, vars, jobVars, dbVars
<1> QED
  BY <1>1, HandlerKeeps, FaultKeeps, TickKeeps, EndpointKeeps DEF Next, JobNext

LEMMA LedgerInvariant == Spec => [](TypeOK /\ LedgerInv)
<1>1. Init => TypeOK /\ LedgerInv
  BY InitTypes, InitLedgerInv
<1>2. (TypeOK /\ LedgerInv) /\ [Next]_vars => (TypeOK /\ LedgerInv)'
  BY StepTypes, StepLedgerInv
<1> QED
  BY <1>1, <1>2, PTL DEF Spec

\* No interleaving of ping jobs, crash, lost acknowledgement or expired lock
\* gives an endpoint two open alerts.
THEOREM OneOpenAlert == Spec => []AtMostOneOpenAlert
<1>1. LedgerInv => AtMostOneOpenAlert
  BY DEF LedgerInv
<1> QED
  BY <1>1, LedgerInvariant, PTL

---------------------------------------------------------------------------
(* PingWorker implements AlertLedger: CreateAlert opens an alert,          *)
(* MarkResolved closes one (or stutters when another job closed it first), *)
(* Enqueue announces one, DeleteRow deletes an endpoint's; every other     *)
(* step leaves the ledger as it is.                                        *)

LedgerNext == [Ledger!Next]_(Ledger!ledger)

LEMMA QuietRefines ==
    ASSUME UNCHANGED <<alert, alertOf, recoveries>>
    PROVE  LedgerNext
BY DEF LedgerNext, Ledger!ledger, Announced

LEMMA CreateRefines ==
    ASSUME TypeOK, LedgerInv, NEW j \in Jobs, CreateAlert(j)
    PROVE  LedgerNext
<1>1. ep[j] \in Endpoints
  BY DEF CreateAlert, TypeOK, JobsTypeOK
<1>2. Ledger!OpenAlerts(ep[j]) = {}
  BY DEF CreateAlert, LedgerInv, CommitIsFresh, OpenAlerts, Ledger!OpenAlerts
<1>3. Announced' = Announced
  BY DEF CreateAlert, Announced
<1>4. \E a \in Alerts : Ledger!Trigger(ep[j], a)
  BY <1>2, <1>3 DEF CreateAlert, Ledger!Trigger
<1> QED
  BY <1>1, <1>4 DEF LedgerNext, Ledger!Next

LEMMA MarkRefines ==
    ASSUME TypeOK, LedgerInv, NEW j \in Jobs, MarkResolved(j)
    PROVE  LedgerNext
<1>1. target[j] \in Alerts /\ alert[target[j]] \in {"TRIGGERED", "RESOLVED"}
  BY DEF MarkResolved, LedgerInv, TargetExists, TypeOK, DataTypeOK, AlertStates
<1>2. Announced' = Announced
  BY DEF MarkResolved, Announced
<1>3. CASE alert[target[j]] = "TRIGGERED"
  <2>1. Ledger!Resolve(target[j])
    BY <1>2, <1>3 DEF MarkResolved, Ledger!Resolve
  <2> QED
    BY <1>1, <2>1 DEF LedgerNext, Ledger!Next
<1>4. CASE alert[target[j]] = "RESOLVED"
  <2>1. alert' = alert
    BY <1>1, <1>4 DEF MarkResolved, TypeOK, DataTypeOK
  <2> QED
    BY <2>1, QuietRefines DEF MarkResolved
<1> QED
  BY <1>1, <1>3, <1>4

LEMMA EnqueueRefines ==
    ASSUME TypeOK, LedgerInv, NEW j \in Jobs, Enqueue(j)
    PROVE  LedgerNext
<1>1. target[j] \in Alerts /\ alert[target[j]] \in {"RESOLVED", "deleted"}
  BY DEF Enqueue, LedgerInv, TargetExists
<1>2. recoveries' = [recoveries EXCEPT ![target[j]] =
                        IF recoveries[target[j]] < 2 THEN recoveries[target[j]] + 1
                                                     ELSE recoveries[target[j]]]
  BY DEF Enqueue
<1>3. recoveries'[target[j]] > 0
  <2>1. recoveries \in [Alerts -> 0..2] /\ recoveries[target[j]] \in 0..2
    BY <1>1 DEF TypeOK, DataTypeOK
  <2> QED
    BY <1>1, <1>2, <2>1
<1>4. \A a \in Alerts : a # target[j] => recoveries'[a] = recoveries[a]
  BY <1>2 DEF TypeOK, DataTypeOK
<1>5. Announced' = Announced \cup {target[j]}
  BY <1>1, <1>3, <1>4 DEF Announced
<1>6. Ledger!Announce(target[j])
  BY <1>1, <1>5 DEF Ledger!Announce, Enqueue, dbVars
<1> QED
  BY <1>1, <1>6 DEF LedgerNext, Ledger!Next

LEMMA DeleteRefines ==
    ASSUME NEW e \in Endpoints, DeleteRow(e)
    PROVE  LedgerNext
<1>1. Announced' = Announced
  BY DEF DeleteRow, Announced
<1>2. Ledger!Delete(e)
  BY <1>1 DEF DeleteRow, Ledger!Delete
<1> QED
  BY <1>2 DEF LedgerNext, Ledger!Next

LEMMA StepRefines == TypeOK /\ LedgerInv /\ [Next]_vars => LedgerNext
<1> SUFFICES ASSUME TypeOK, LedgerInv, [Next]_vars PROVE LedgerNext
  OBVIOUS
<1>1. CASE UNCHANGED vars
  BY <1>1, QuietRefines DEF vars, dbVars
<1>2. ASSUME NEW j \in Jobs, HandlerStep(j) PROVE LedgerNext
  <2>1. CASE ReadConfig(j) \/ Ping(j) \/ Incr(j) \/ Expire(j) \/ Lock(j)
    BY <2>1, QuietRefines DEF ReadConfig, Ping, Incr, Expire, Lock, dbVars
  <2>2. CASE Begin(j) \/ CommitRejected(j) \/ Unlock(j)
    BY <2>2, QuietRefines DEF Begin, CommitRejected, Unlock, dbVars
  <2>3. CASE Get(j) \/ Del(j) \/ Find(j) \/ ResolveRejected(j)
    BY <2>3, QuietRefines DEF Get, Del, Find, ResolveRejected, dbVars
  <2>4. CASE Commit(j) \/ Resolve(j) \/ Enqueue(j)
    BY <2>4, CreateRefines, MarkRefines, EnqueueRefines DEF Commit, Resolve
  <2> QED
    BY <1>2, <2>1, <2>2, <2>3, <2>4 DEF HandlerStep
<1>3. ASSUME NEW j \in Jobs, CallFails(j) \/ Crash(j) PROVE LedgerNext
  BY <1>3, QuietRefines DEF CallFails, Crash
<1>4. ASSUME NEW j \in Jobs, CommitUnacknowledged(j) \/ ResolveUnacknowledged(j)
      PROVE  LedgerNext
  BY <1>4, CreateRefines, MarkRefines DEF CommitUnacknowledged, ResolveUnacknowledged
<1>5. ASSUME NEW e \in Endpoints, NEW j \in Jobs, Tick(e, j) PROVE LedgerNext
  BY <1>5, QuietRefines DEF Tick, dbVars
<1>6. ASSUME NEW e \in Endpoints, EndpointNext(e) PROVE LedgerNext
  <2>1. CASE DeleteRow(e)
    BY <2>1, DeleteRefines
  <2>2. CASE ~DeleteRow(e)
    BY <1>6, <2>2, QuietRefines
    DEF EndpointNext, ExpireCount, ExpireLock, GoDown, GoUp, ChangeConfig, ClearKeys, dbVars
  <2> QED
    BY <2>1, <2>2
<1> QED
  BY <1>1, <1>2, <1>3, <1>4, <1>5, <1>6 DEF Next, JobNext

LEMMA InitRefines == Init => Ledger!Init
<1>1. (CHOOSE e \in Endpoints : TRUE) \in Endpoints
  BY EndpointsAssumption
<1> QED
  BY <1>1 DEF Init, Ledger!Init, Announced

\* The worker implements the ledger: an alert opens only when the endpoint has
\* none open, is closed once, and is announced only after it is closed.
THEOREM ImplementsLedger == Spec => LedgerSpec
<1>1. Init => Ledger!Init
  BY InitRefines
<1>2. TypeOK /\ LedgerInv /\ [Next]_vars => [Ledger!Next]_(Ledger!ledger)
  BY StepRefines DEF LedgerNext
<1> QED
  BY <1>1, <1>2, LedgerInvariant, PTL DEF Spec, LedgerSpec, Ledger!Spec
=============================================================================
